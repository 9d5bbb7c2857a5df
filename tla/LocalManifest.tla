--------------------------- MODULE LocalManifest ----------------------------
(***************************************************************************)
(* The durable state of a device (src/src/sync/manifest and .../durability):*)
(* the baseline entry of every path, and the receipts of uploads.  Memory   *)
(* changes while saves await the disk.  A save appends a record to a change *)
(* log or rewrites the whole checkpoint, through a temporary file; an upload*)
(* is sent only after a journal file of its own is in place, and the file is*)
(* removed only after a save kept its receipt.  Disk writes are not atomic: *)
(* a crash leaves the old file, a torn one or the new one.                  *)
(*                                                                          *)
(* The value of an entry is the number of the change that made it; removing *)
(* an entry is a change like any other.  Renames, restore intents and the   *)
(* other recovery fields travel like the receipts and are not told apart;   *)
(* setting one is a Touch.                                                  *)
(***************************************************************************)
EXTENDS Integers, Sequences, FiniteSetsExt

CONSTANTS
  Path,             \* vault paths
  Upload,           \* upload operations, each with its own journal file
  UploadPath,       \* the path each upload writes
  MaxEdits,         \* bound: entry changes
  MaxGeneration,    \* bound: checkpoints and log records written
  WriteErrorsTear,  \* whether a write that reports an error may have changed the file
  Absent,           \* no file, no value
  Torn              \* a file that does not parse

ASSUME UploadAssumption == UploadPath \in [Upload -> Path] /\ Absent \notin Upload

ASSUME BoundAssumption ==
  MaxEdits \in Nat /\ MaxGeneration \in Nat /\ WriteErrorsTear \in BOOLEAN

Version == 0..MaxEdits

(* What a checkpoint carries: its generation, the entries, the settled uploads. *)
Checkpoint == [generation : 0..MaxGeneration, entries : [Path -> Version], settled : SUBSET Upload]

Empty == [generation |-> 0, entries |-> [p \in Path |-> 0], settled |-> {}]

(* A log record names the entries it replaces, and the receipts if they changed. *)
LogRecord ==
  [generation : 0..MaxGeneration, set : UNION {[S -> Version] : S \in SUBSET Path},
   settled : {Absent} \cup SUBSET Upload]

(***************************************************************************)
(* How a log ends: after a newline ("line"), in a torn line, in a complete  *)
(* record without its newline ("open"), in a terminated line that does not  *)
(* parse ("junk"), or with more lines after such a line ("damaged").        *)
(***************************************************************************)
LogEnd == {"line", "torn", "open", "junk", "damaged"}

(* The change log: the checkpoint its header names, and the records *)
ChangeLog == [base : 0..MaxGeneration, records : Seq(LogRecord), tail : LogEnd]

ASSUME MarkerAssumption ==
  /\ Absent # Torn /\ \A settled \in SUBSET Upload : settled # Absent
  /\ {Absent, Torn} \cap Checkpoint = {} /\ {Absent, Torn} \cap ChangeLog = {}

VARIABLES
  (* memory: LocalManifest and its UploadJournal *)
  entries, changed, dirty,
  touched,      \* revision moved since the save in progress read it
  generation, logActive,
  logStarted,   \* logBytes # 0
  persisted,    \* persistedState: the receipts on disk, to write differences
  completed, held, preparing, active,
  (* the load or save in progress *)
  step, taken, data, pruning,
  (* disk *)
  main, tmp, log, journal,
  (* history *)
  edits, acked, sent, accepted, refused

baseline == <<entries, changed, dirty, touched>>
logState == <<generation, logActive, logStarted, persisted>>
receipts == <<completed, held>>
transfers == <<preparing, active>>
progress == <<step, taken, data, pruning>>
files == <<main, tmp, log>>
history == <<edits, acked, sent, accepted, refused>>
vars == <<baseline, logState, receipts, transfers, progress, files, journal, history>>

TypeOK ==
  /\ entries \in [Path -> Version] /\ changed \subseteq Path
  /\ dirty \in BOOLEAN /\ touched \in BOOLEAN
  /\ generation \in 0..MaxGeneration /\ logActive \in BOOLEAN /\ logStarted \in BOOLEAN
  /\ persisted \in SUBSET Upload /\ completed \subseteq Upload /\ held \subseteq Upload
  /\ preparing \in Upload \cup {Absent} /\ active \subseteq Upload
  /\ step \in {"stopped", "promote", "removeStale", "idle", "head", "append", "tmp", "main",
               "removeTmp", "prune"}
  /\ taken \subseteq Path /\ data \in Checkpoint /\ pruning \subseteq Upload
  /\ main \in Checkpoint \cup {Absent, Torn} /\ tmp \in Checkpoint \cup {Absent, Torn}
  /\ log \in ChangeLog \cup {Absent, Torn}
  /\ journal \in [Upload -> {"none", "partial", "final"}]
  /\ edits \in Version /\ acked \in [Path -> Version]
  /\ sent \subseteq Upload /\ accepted \in [Upload -> Version] /\ refused \subseteq Upload

-----------------------------------------------------------------------------
(* Reading the disk: what a load would adopt. *)

Whole(file) == file \notin {Absent, Torn}

\* The newer generation wins; the log is not looked at.
RecoverTmp == Whole(tmp) /\ (~Whole(main) \/ tmp.generation > main.generation)

\* Mutant: the header's base is not compared.
ExtendsAny == Whole(main) /\ ~RecoverTmp /\ Whole(log)

\* The log extends the checkpoint its header names.
Extends == Whole(main) /\ ~RecoverTmp /\ Whole(log) /\ log.base = main.generation

Replay(checkpoint, records) ==
  LET Sets(p) == {i \in DOMAIN records : p \in DOMAIN records[i].set}
      Settles == {i \in DOMAIN records : records[i].settled # Absent}
  IN  [generation |-> checkpoint.generation + Len(records),
       entries |-> [p \in Path |-> IF Sets(p) = {} THEN checkpoint.entries[p]
                                   ELSE records[Max(Sets(p))].set[p]],
       settled |-> IF Settles = {} THEN checkpoint.settled ELSE records[Max(Settles)].settled]

Recovered ==
  IF RecoverTmp THEN tmp
  ELSE IF Extends THEN Replay(main, log.records)
  ELSE IF Whole(main) THEN main
  ELSE Empty

Conflicting == Whole(main) /\ Whole(tmp) /\ main.generation = tmp.generation /\ main # tmp

DamagedLog ==
  /\ Extends
  /\ \/ log.tail = "damaged"
     \/ \E i \in DOMAIN log.records : log.records[i].generation # log.base + i

\* A load that is not refused.
Readable ==
  /\ Whole(main) \/ Whole(tmp) \/ (main = Absent /\ tmp = Absent)
  /\ ~Conflicting /\ ~DamagedLog

-----------------------------------------------------------------------------
(* Memory. *)

Running == step \notin {"stopped", "promote", "removeStale"}

\* Every mutation advances the revision.
MarkChanged == dirty' = TRUE /\ touched' = TRUE

SetEntry(p) ==
  /\ edits < MaxEdits
  /\ edits' = edits + 1
  /\ entries' = [entries EXCEPT ![p] = edits + 1]
  /\ changed' = changed \cup {p}
  /\ MarkChanged

\* The engine sets or removes an entry.
Change(p) ==
  /\ Running
  /\ SetEntry(p)
  /\ UNCHANGED <<logState, receipts, transfers, progress, files, journal,
                 acked, sent, accepted, refused>>

\* A restore intent, a rename, an import token or a diagnostic is recorded.
Touch ==
  /\ Running
  /\ MarkChanged
  /\ UNCHANGED <<entries, changed, logState, receipts, transfers, progress, files, journal, history>>

Pending(p) == {u \in held \ completed : UploadPath[u] = p}

\* An upload with a new operation ID; an unresolved one of the same path refuses it.
PrepareWrite(u) ==
  /\ Running /\ preparing = Absent
  /\ Pending(UploadPath[u]) = {}
  /\ u \notin held \cup completed \cup sent /\ journal[u] = "none"
  /\ preparing' = u
  /\ journal' = [journal EXCEPT ![u] = "partial"]
  /\ UNCHANGED <<baseline, logState, receipts, active, progress, files, history>>

\* The rename puts the record in place; a diagnostic is recorded.
PrepareRename ==
  /\ preparing # Absent
  /\ journal' = [journal EXCEPT ![preparing] = "final"]
  /\ held' = held \cup {preparing}
  /\ preparing' = Absent
  /\ MarkChanged
  /\ UNCHANGED <<entries, changed, logState, completed, active, progress, files, history>>

PrepareFails ==
  /\ preparing # Absent
  /\ \E left \in {"none", "partial"} : journal' = [journal EXCEPT ![preparing] = left]
  /\ preparing' = Absent
  /\ UNCHANGED <<baseline, logState, receipts, active, progress, files, history>>

\* Sends a prepared upload, or replays one (recover), which records a diagnostic.
Dispatch(u) ==
  /\ Running
  /\ u \in (held \ completed) \ active
  /\ active' = active \cup {u}
  /\ sent' = sent \cup {u}
  /\ MarkChanged \/ UNCHANGED <<dirty, touched>>
  /\ UNCHANGED <<entries, changed, logState, receipts, preparing, progress, files, journal,
                 edits, acked, accepted, refused>>

Complete(u) == completed' = completed \cup {u} /\ held' = held \ {u}

\* A receipt of a committed upload: the baseline and the receipt change together.
AcceptCommitted(u) ==
  /\ u \in active \ refused
  /\ SetEntry(UploadPath[u])
  /\ Complete(u)
  /\ active' = active \ {u}
  /\ accepted' = [accepted EXCEPT ![u] = edits + 1]
  /\ UNCHANGED <<logState, preparing, progress, files, journal, acked, sent, refused>>

AcceptRefused(u) ==
  /\ u \in active /\ accepted[u] = 0
  /\ Complete(u) /\ MarkChanged
  /\ active' = active \ {u}
  /\ refused' = refused \cup {u}
  /\ UNCHANGED <<entries, changed, logState, preparing, progress, files, journal,
                 edits, acked, sent, accepted>>

\* No answer, one that decides nothing, or no merge base saved: the upload stays pending.
AnswerLost(u) ==
  /\ u \in active
  /\ active' = active \ {u}
  /\ MarkChanged \/ UNCHANGED <<dirty, touched>>
  /\ UNCHANGED <<entries, changed, logState, receipts, preparing, progress, files, journal, history>>

-----------------------------------------------------------------------------
(* Saving.  Changes, receipts and new uploads interleave with every step. *)

\* The receipts to prune are read before the first write; one whose diagnostic does not
\* say "checkpointed" yet is given another, which is a change of its own.
BeginSave ==
  /\ step = "idle"
  /\ step' = "head"
  /\ pruning' = completed
  /\ (completed # {} /\ MarkChanged) \/ UNCHANGED <<dirty, touched>>
  /\ UNCHANGED <<entries, changed, logState, receipts, transfers, taken, data, files, journal, history>>

TakeChanges ==
  /\ step = "head" /\ dirty /\ generation < MaxGeneration
  /\ taken' = changed /\ changed' = {}
  /\ touched' = FALSE
  /\ data' = [generation |-> generation + 1, entries |-> entries, settled |-> completed]

StartAppend ==
  /\ logActive
  /\ TakeChanges
  /\ step' = "append"
  /\ UNCHANGED <<entries, dirty, logState, receipts, transfers, pruning, files, journal, history>>

\* Mutant: the checkpoint is rewritten in place, without its temporary copy.
StartCompactDirect ==
  /\ TakeChanges
  /\ logActive' = FALSE
  /\ generation' = generation + 1
  /\ step' = "main"
  /\ UNCHANGED <<entries, dirty, logStarted, persisted, receipts, transfers, pruning, files, journal,
                 history>>

\* Without an active log, or when the record does not fit (records differ in size).
StartCompact ==
  /\ TakeChanges
  /\ logActive' = FALSE
  /\ generation' = generation + 1
  /\ step' = "tmp"
  /\ UNCHANGED <<entries, dirty, logStarted, persisted, receipts, transfers, pruning, files, journal,
                 history>>

Record == [generation |-> data.generation,
           set |-> [p \in taken |-> data.entries[p]],
           settled |-> IF data.settled = persisted THEN Absent ELSE data.settled]

NewLog(records, tail) == [base |-> generation, records |-> records, tail |-> tail]

\* Bytes after an unfinished line join it.
AppendLine(l, tail) ==
  CASE l.tail = "line" -> [l EXCEPT !.records = Append(@, Record), !.tail = tail]
    [] l.tail \in {"torn", "open"} -> [l EXCEPT !.tail = "junk"]
    [] OTHER -> [l EXCEPT !.tail = "damaged"]

\* The first record after a compaction replaces the old log.
WrittenLog(tail) ==
  IF logStarted THEN AppendLine(log, tail) ELSE NewLog(<<Record>>, tail)

\* Mutant: the generation advances twice.
FinishAppendTwice ==
  /\ step = "append"
  /\ log' = WrittenLog("line")
  /\ generation' = data.generation + 1
  /\ logStarted' = TRUE
  /\ persisted' = data.settled
  /\ dirty' = touched
  /\ step' = "head"
  /\ UNCHANGED <<entries, changed, touched, logActive, receipts, transfers, taken, data, pruning,
                 main, tmp, journal, history>>

FinishAppend ==
  /\ step = "append"
  /\ log' = WrittenLog("line")
  /\ generation' = data.generation
  /\ logStarted' = TRUE
  /\ persisted' = data.settled
  /\ dirty' = touched
  /\ step' = "head"
  /\ UNCHANGED <<entries, changed, touched, logActive, receipts, transfers, taken, data, pruning,
                 main, tmp, journal, history>>

FinishTmp ==
  /\ step = "tmp"
  /\ tmp' = data
  /\ step' = "main"
  /\ UNCHANGED <<baseline, logState, receipts, transfers, taken, data, pruning, main, log, journal,
                 history>>

FinishMain ==
  /\ step = "main"
  /\ main' = data
  /\ step' = "removeTmp"
  /\ UNCHANGED <<baseline, logState, receipts, transfers, taken, data, pruning, tmp, log, journal,
                 history>>

\* Removing the temporary file may fail; the log starts anew.
FinishCompact ==
  /\ step = "removeTmp"
  /\ tmp' \in {tmp, Absent}
  /\ logStarted' = FALSE /\ logActive' = TRUE
  /\ persisted' = data.settled
  /\ dirty' = touched
  /\ step' = "head"
  /\ UNCHANGED <<entries, changed, touched, generation, receipts, transfers, taken, data, pruning,
                 main, log, journal, history>>

\* Nothing changed since the last write: the save kept everything.
EndPersist ==
  /\ step = "head" /\ ~dirty
  /\ step' = "prune"
  /\ acked' = entries
  /\ UNCHANGED <<baseline, logState, receipts, transfers, taken, data, pruning, files, journal,
                 edits, sent, accepted, refused>>

\* Mutant: prunes the uploads completed by now, not those the save kept.
PruneLive(u) ==
  /\ step = "prune" /\ u \in completed
  /\ journal' = [journal EXCEPT ![u] = "none"]
  /\ completed' = completed \ {u} /\ held' = held \ {u}
  /\ pruning' = pruning \ {u}
  /\ UNCHANGED <<baseline, logState, transfers, step, taken, data, files, history>>

\* Removes the journal file of a receipt the save kept; a failure leaves it for a later save.
Prune(u) ==
  /\ step = "prune" /\ u \in pruning
  /\ pruning' = pruning \ {u}
  /\ \/ /\ journal' = [journal EXCEPT ![u] = "none"]
        /\ completed' = completed \ {u} /\ held' = held \ {u}
     \/ UNCHANGED <<journal, receipts>>
  /\ UNCHANGED <<baseline, logState, transfers, step, taken, data, files, history>>

EndSave ==
  /\ step = "prune" /\ pruning = {}
  /\ step' = "idle"
  /\ UNCHANGED <<baseline, logState, receipts, transfers, taken, data, pruning, files, journal, history>>

-----------------------------------------------------------------------------
(* Interrupted writes, crashes and loads. *)

\* The file after a write that did not finish.
Unfinished(old, new, changes) == IF changes THEN {old, Torn, new} ELSE {old}

UnfinishedLog ==
  {log, WrittenLog("open"), WrittenLog("line")}
    \cup IF logStarted THEN {[log EXCEPT !.tail = IF @ = "line" THEN "torn" ELSE @]}
         ELSE {Torn, NewLog(<<>>, "torn"), NewLog(<<>>, "line")}

Serialized == [generation |-> generation, entries |-> entries, settled |-> completed]

Interrupt(changes) ==
  /\ main' \in CASE step = "main" -> Unfinished(main, data, changes)
                 [] step = "promote" -> Unfinished(main, Serialized, changes)
                 [] OTHER -> {main}
  /\ tmp' \in IF step = "tmp" THEN Unfinished(tmp, data, changes) ELSE {tmp}
  /\ log' \in IF step = "append" THEN UnfinishedLog ELSE {log}

\* Mutant: the log is appended to after a failed append.
WriteFailsActive ==
  /\ step \in {"append", "tmp", "main"}
  /\ Interrupt(WriteErrorsTear)
  /\ changed' = changed \cup taken
  /\ step' = "idle"
  /\ UNCHANGED <<entries, dirty, touched, logState, receipts, transfers, taken, data, pruning,
                 journal, history>>

\* A write reports an error.  The changes go back, and the next save compacts, because an
\* append that failed may have left part of its line.
WriteFails ==
  /\ step \in {"append", "tmp", "main"}
  /\ Interrupt(WriteErrorsTear)
  /\ changed' = changed \cup taken
  /\ logActive' = FALSE
  /\ step' = "idle"
  /\ UNCHANGED <<entries, dirty, touched, generation, logStarted, persisted, receipts, transfers,
                 taken, data, pruning, journal, history>>

Forget ==
  /\ entries' = Empty.entries /\ changed' = {} /\ dirty' = FALSE /\ touched' = FALSE
  /\ generation' = 0 /\ logActive' = FALSE /\ logStarted' = FALSE /\ persisted' = {}
  /\ completed' = {} /\ held' = {} /\ preparing' = Absent /\ active' = {}
  /\ step' = "stopped" /\ taken' = {} /\ data' = Empty /\ pruning' = {}
  /\ UNCHANGED history

\* The program stops at any point; a rename in flight may have happened.
Crash ==
  /\ step # "stopped"
  /\ Interrupt(TRUE)
  /\ journal' \in {journal} \cup (IF preparing = Absent THEN {}
                                  ELSE {[journal EXCEPT ![preparing] = "final"]})
  /\ Forget

\* Loads the newest readable generation, and the journal files whose receipts it does not keep.
BeginLoad ==
  LET settled == {u \in Recovered.settled : journal[u] = "final"}
      adopted == IF Extends THEN log.tail \in {"line", "junk"} ELSE FALSE
  IN  /\ step = "stopped" /\ Readable
      /\ entries' = Recovered.entries /\ acked' = Recovered.entries
      /\ generation' = Recovered.generation
      /\ persisted' = Recovered.settled
      /\ logActive' = adopted /\ logStarted' = adopted
      /\ completed' = settled
      /\ held' = {u \in Upload : journal[u] = "final"} \ settled
      /\ \E gone \in SUBSET {u \in Upload : journal[u] = "partial"} :
           journal' = [u \in Upload |-> IF u \in gone THEN "none" ELSE journal[u]]
      /\ step' = IF RecoverTmp THEN "promote" ELSE "removeStale"
      /\ UNCHANGED <<changed, dirty, touched, transfers, taken, data, pruning, files,
                     edits, sent, accepted, refused>>

Promote ==
  /\ step = "promote"
  /\ main' = Serialized
  /\ step' = "removeStale"
  /\ UNCHANGED <<baseline, logState, receipts, transfers, taken, data, pruning, tmp, log, journal,
                 history>>

PromoteFails ==
  /\ step = "promote"
  /\ Interrupt(WriteErrorsTear)
  /\ Forget
  /\ UNCHANGED journal

RemoveStale ==
  /\ step = "removeStale"
  /\ tmp' \in {tmp, Absent}
  /\ step' = "idle"
  /\ UNCHANGED <<baseline, logState, receipts, transfers, taken, data, pruning, main, log, journal,
                 history>>

-----------------------------------------------------------------------------
Init ==
  /\ entries = Empty.entries /\ changed = {} /\ dirty = FALSE /\ touched = FALSE
  /\ generation = 0 /\ logActive = FALSE /\ logStarted = FALSE /\ persisted = {}
  /\ completed = {} /\ held = {} /\ preparing = Absent /\ active = {}
  /\ step = "stopped" /\ taken = {} /\ data = Empty /\ pruning = {}
  /\ main = Absent /\ tmp = Absent /\ log = Absent
  /\ journal = [u \in Upload |-> "none"]
  /\ edits = 0 /\ acked = Empty.entries
  /\ sent = {} /\ accepted = [u \in Upload |-> 0] /\ refused = {}

Transfer(u) ==
  PrepareWrite(u) \/ Dispatch(u) \/ AcceptCommitted(u) \/ AcceptRefused(u) \/ AnswerLost(u)

Save ==
  \/ BeginSave \/ StartAppend \/ StartCompact
  \/ FinishAppend \/ FinishTmp \/ FinishMain \/ FinishCompact \/ WriteFails
  \/ EndPersist \/ (\E u \in Upload : Prune(u)) \/ EndSave

Load == BeginLoad \/ Promote \/ PromoteFails \/ RemoveStale

Next ==
  \/ \E p \in Path : Change(p)
  \/ Touch
  \/ \E u \in Upload : Transfer(u)
  \/ PrepareRename \/ PrepareFails
  \/ Save
  \/ Crash
  \/ Load

Spec == Init /\ [][Next]_vars

-----------------------------------------------------------------------------
(* Once the device has a checkpoint, no crash or failed write makes a later
   load refuse the files this program wrote. *)
CheckpointReadable == main # Absent => Readable

(* What a finished save, or a load, told its caller is kept survives: a load
   finds that entry or a later one. *)
SavedIsDurable == \A p \in Path : Recovered.entries[p] >= acked[p]

(* The outcome of an upload that was sent is never forgotten: its journal file
   will be replayed, or the server refused it, or its effect on the baseline is
   in what a load would find. *)
ReceiptsHeld ==
  \A u \in sent :
    \/ journal[u] = "final" /\ u \notin Recovered.settled
    \/ u \in refused
    \/ accepted[u] # 0 /\ Recovered.entries[UploadPath[u]] >= accepted[u]

(* A checkpoint or a log record takes effect as a whole: what a load would find
   only ever changes to the snapshot the save took, entries and receipts
   together, whatever part of a write reached the disk.  The one way back is a
   torn temporary file, which leaves the checkpoint and the log as they are. *)
CheckpointsAtomic ==
  [][Recovered' \in {Recovered, data} \/ (tmp' = Torn /\ UNCHANGED <<main, log>>)]_vars

(* The pipeline's documentation says that a failed promotion keeps the temporary
   checkpoint: while the main file is torn, the temporary one is whole. *)
TemporaryKept == main = Torn => Whole(tmp)

=============================================================================
