-------------------------- MODULE FileStoreProofs --------------------------
(* Proofs about FileStore, for every set of paths, operations, attempts and    *)
(* deletions, every clash relation and every bound.                            *)
EXTENDS FileStore, TLAPS

(* What the attempts' own steps maintain: a started attempt carries a request, *)
(* a published one has answered, and a deletion names a published revision.    *)
JobsFixed == \A a \in Upload : pc[a] # "idle" => job[a] \in Request

PublishedAnswered == \A k \in Published : pc[k] = "answered"

DeletionsNamed == \A d \in Deletion : deletion[d].step # "idle" => deletion[d].revision \in Published

\* A lease at its last attempt is set aside, so no pass counts beyond MaxTries.
TriesBounded ==
  /\ \A k \in Upload : tries[k] = MaxTries => age[k] = "never"
  /\ \A k \in claim.keys : tries[k] < MaxTries

\* An attempt clears up its own key after it has answered, and does nothing else then.
SweepersPast == \A a \in Upload : sweep[a].step # "idle" => pc[a] = "sweeping"

TypeInv == TypeOK /\ SweepersPast /\ JobsFixed /\ PublishedAnswered /\ DeletionsNamed /\ TriesBounded

-----------------------------------------------------------------------------

\* What clients and the note writer may send are requests.
LEMMA RequestsTyped ==
  ASSUME TypeInv
  PROVE  /\ UploadRequests \subseteq Request /\ NoteRequests \subseteq Request
         /\ RestoreRequests \subseteq Request
         /\ Published \subseteq Upload
<1> DEFINE Row == [path : Path, revision : Upload \cup {Absent}]
<1>1. changelog \in Seq(Row)
  BY DEF TypeInv, TypeOK
<1>2. Published \subseteq Upload
  <2>1. \A i \in DOMAIN changelog : changelog[i] \in Row
    <3> HIDE DEF Row
    <3> QED BY <1>1
  <2> QED BY <2>1 DEF Published
<1>3. QED
  BY <1>2, NumberAssumption DEF TypeInv, JobsFixed, PublishedAnswered, UploadRequests, NoteRequests, RestoreRequests, Request, Day

\* One row more in the changelog publishes its revision, unless it is a deletion's.
LEMMA PublishedAppend ==
  ASSUME TypeOK, NEW p \in Path, NEW k \in Upload \cup {Absent},
         changelog' = Append(changelog, [path |-> p, revision |-> k])
  PROVE  /\ changelog' \in Seq([path : Path, revision : Upload \cup {Absent}])
         /\ Published' = Published \cup ({k} \ {Absent})
<1> DEFINE row == [path |-> p, revision |-> k]
<1>1. changelog \in Seq([path : Path, revision : Upload \cup {Absent}]) /\ row \in [path : Path, revision : Upload \cup {Absent}]
  BY DEF TypeOK
<1>2. /\ changelog' \in Seq([path : Path, revision : Upload \cup {Absent}])
      /\ DOMAIN changelog' = 1..(Len(changelog) + 1) /\ DOMAIN changelog = 1..Len(changelog)
      /\ Len(changelog) \in Nat
      /\ \A i \in 1..Len(changelog) : changelog'[i] = changelog[i]
      /\ changelog'[Len(changelog) + 1] = row
  BY <1>1
<1>3. {changelog'[i].revision : i \in DOMAIN changelog'} = {changelog[i].revision : i \in DOMAIN changelog} \cup {row.revision}
  BY <1>2
<1>4. QED
  BY <1>2, <1>3 DEF Published

\* The initial state is well typed.
LEMMA TypeInit == Init => TypeInv
<1> SUFFICES ASSUME Init PROVE TypeInv
  OBVIOUS
<1>1. TypeOK
  BY NumberAssumption, MarkerAssumption DEF Init, TypeOK, Idle, NoClaim, Day, Sweeper, SweepRun, ClaimRun, DeletionRun
<1>2. Published = {}
  BY DEF Init, Published
<1>3. SweepersPast /\ JobsFixed /\ PublishedAnswered /\ DeletionsNamed /\ TriesBounded
  BY <1>2, NumberAssumption DEF Init, SweepersPast, JobsFixed, PublishedAnswered, DeletionsNamed, TriesBounded, NoClaim,
          Sweeper, Idle
<1>4. QED
  BY <1>1, <1>3 DEF TypeInv

\* The typed parts of TypeInv, for leaves that need one of them only.
LEMMA LeaseFacts ==
  ASSUME TypeInv
  PROVE  /\ staged \in [Upload -> {"none", "pending", "deleting"}]
         /\ age \in [Upload -> {"fresh", "due", "expired", "never"}]
         /\ tries \in [Upload -> 0..MaxTries] /\ TriesBounded
BY DEF TypeInv, TypeOK

\* The typed parts of the attempts, for the lemmas that need no more.
LEMMA AttemptFacts ==
  ASSUME TypeInv
  PROVE  /\ request \in [Op -> Request \cup {None}]
         /\ receipts \in [Op -> Upload \cup {Rejected, None}]
         /\ pc \in [Upload -> {"idle", "begun", "putting", "staged", "reread", "row", "bytes", "discard",
                              "sweeping", "answered"}]
         /\ job \in [Upload -> Request \cup {None}] /\ JobsFixed
         /\ answer \in [Upload -> Upload \cup {None, Conflict, Outdated, Unknown}]
BY DEF TypeInv, TypeOK

\* The typed parts of the sweeps.
LEMMA SweepFacts == TypeInv => sweep \in [Sweeper -> SweepRun] /\ SweepersPast
BY DEF TypeInv, TypeOK

\* The typed parts of the claim.
LEMMA ClaimFacts == TypeInv => claim \in ClaimRun /\ claim.keys \subseteq Upload
BY DEF TypeInv, TypeOK, ClaimRun

\* The typed parts of the deletions.
LEMMA DeletionFacts == TypeInv => deletion \in [Deletion -> DeletionRun] /\ DeletionsNamed
BY DEF TypeInv, TypeOK

\* References and publications are keys of answered attempts.
LEMMA PublishedFacts == TypeInv => Referenced \subseteq Upload /\ Published \subseteq Upload /\ PublishedAnswered
BY RequestsTyped DEF TypeInv, TypeOK, Referenced, Live

\* Every step keeps TypeInv.
LEMMA TypeStep == TypeInv /\ [Next]_vars => TypeInv'
<1> SUFFICES ASSUME TypeInv, [Next]_vars PROVE TypeInv'
  OBVIOUS
<1> USE NumberAssumption, MarkerAssumption DEF d1, r2, attempts, Day
<1> DEFINE PC == [Upload -> {"idle", "begun", "putting", "staged", "reread", "row", "bytes", "discard",
                             "sweeping", "answered"}]
<1>0. changelog' = changelog => Published' = Published
  BY DEF Published
<1>1. ASSUME NEW r \in UploadRequests \cup RestoreRequests \cup NoteRequests, Submit(r) PROVE TypeInv'
  <2>1. request' \in [Op -> Request \cup {None}]
    BY <1>1, RequestsTyped, AttemptFacts DEF Submit
  <2> QED BY <1>0, <1>1, <2>1 DEF Submit,
         TypeInv, TypeOK, SweepersPast, JobsFixed, PublishedAnswered, DeletionsNamed, TriesBounded
<1>2. ASSUME MoveClock PROVE TypeInv'
  BY RequestsTyped, <1>0, <1>2 DEF MoveClock,
         TypeInv, TypeOK, SweepersPast, JobsFixed, PublishedAnswered, DeletionsNamed, TriesBounded
<1>3. ASSUME NEW k \in Upload, LeaseAges(k) PROVE TypeInv'
  <2>1. age' \in [Upload -> {"fresh", "due", "expired", "never"}] /\ TriesBounded'
    BY <1>3, LeaseFacts DEF LeaseAges, TriesBounded
  <2> QED BY <1>0, <1>3, <2>1 DEF LeaseAges,
         TypeInv, TypeOK, SweepersPast, JobsFixed, PublishedAnswered, DeletionsNamed, TriesBounded
<1>4. ASSUME NEW k \in Upload, VersionAges(k) PROVE TypeInv'
  BY RequestsTyped, <1>0, <1>4 DEF VersionAges,
         TypeInv, TypeOK, SweepersPast, JobsFixed, PublishedAnswered, DeletionsNamed, TriesBounded
<1>5. ASSUME NEW a \in Upload, NEW o \in Op, Begin(a, o) PROVE TypeInv'
  <2>1. /\ job' \in [Upload -> Request \cup {None}] /\ answer' \in [Upload -> Upload \cup {None, Conflict, Outdated, Unknown}]
        /\ JobsFixed'
    BY <1>5, AttemptFacts DEF Begin, Respond, JobsFixed
  <2>2. pc' \in PC /\ PublishedAnswered' /\ SweepersPast'
    BY <1>0, <1>5, AttemptFacts, SweepFacts, PublishedFacts
       DEF Begin, Respond, PublishedAnswered, SweepersPast, Sweeper
  <2> QED BY <1>0, <1>5, <2>1, <2>2 DEF Begin,
         TypeInv, TypeOK, SweepersPast, JobsFixed, PublishedAnswered, DeletionsNamed, TriesBounded
<1>6. ASSUME NEW a \in Upload, NEW r \in NoteRequests, BeginNote(a, r) PROVE TypeInv'
  BY RequestsTyped, <1>0, <1>6 DEF BeginNote,
         TypeInv, TypeOK, SweepersPast, JobsFixed, PublishedAnswered, DeletionsNamed, TriesBounded
<1>7. ASSUME NEW a \in Upload, Stage(a) PROVE TypeInv'
  BY RequestsTyped, <1>0, <1>7 DEF Stage,
         TypeInv, TypeOK, SweepersPast, JobsFixed, PublishedAnswered, DeletionsNamed, TriesBounded
<1>8. ASSUME NEW a \in Upload, PutLands(a) PROVE TypeInv'
  BY RequestsTyped, <1>0, <1>8 DEF PutLands,
         TypeInv, TypeOK, SweepersPast, JobsFixed, PublishedAnswered, DeletionsNamed, TriesBounded
<1>9. ASSUME NEW a \in Upload, PutReturns(a) PROVE TypeInv'
  BY RequestsTyped, <1>0, <1>9 DEF PutReturns,
         TypeInv, TypeOK, SweepersPast, JobsFixed, PublishedAnswered, DeletionsNamed, TriesBounded
<1>10. ASSUME NEW a \in Upload, Fail(a) PROVE TypeInv'
  BY RequestsTyped, <1>0, <1>10 DEF Fail, Respond,
         TypeInv, TypeOK, SweepersPast, JobsFixed, PublishedAnswered, DeletionsNamed, TriesBounded
<1>11. ASSUME NEW a \in Upload, Publish(a) PROVE TypeInv'
  <2>1. job[a] \in Request
    BY <1>11, AttemptFacts DEF Publish, JobsFixed
  <2>2. job[a].path \in Path /\ Target(a) \in Upload \cup {Absent}
    BY <2>1 DEF Request, Target, TypeInv, TypeOK
  <2>3. /\ changelog' \in Seq([path : Path, revision : Upload \cup {Absent}])
        /\ Published' = Published \cup {a}
    <3>1. changelog' = Append(changelog, [path |-> job[a].path, revision |-> a]) /\ a # Absent
      BY <1>11, MarkerAssumption DEF Publish
    <3> QED BY <2>2, <3>1, PublishedAppend DEF TypeInv
  <2>4. versions' \subseteq Upload /\ versions \subseteq versions' /\ queue' \subseteq Upload
    BY <1>11, <2>2 DEF Publish, Replace, TypeInv, TypeOK
  <2>5. receipts' \in [Op -> Upload \cup {Rejected, None}] /\ files' \in [Path -> Upload \cup {Absent}]
    BY <1>11, <2>1 DEF Publish, Request, TypeInv, TypeOK
  <2>6. /\ staged' \in [Upload -> {"none", "pending", "deleting"}] /\ TriesBounded'
        /\ age' \in [Upload -> {"fresh", "due", "expired", "never"}] /\ tries' \in [Upload -> 0..MaxTries]
    BY <1>11, LeaseFacts, ClaimFacts DEF Publish, DropLeases, TriesBounded
  <2>7. /\ pc' \in PC /\ JobsFixed' /\ PublishedAnswered'
        /\ answer' \in [Upload -> Upload \cup {None, Conflict, Outdated, Unknown}]
    BY <1>11, <2>1, <2>3, AttemptFacts, PublishedFacts DEF Publish, Respond, JobsFixed, PublishedAnswered
  <2>8. SweepersPast' /\ DeletionsNamed'
    BY <1>11, <2>3, AttemptFacts, SweepFacts, DeletionFacts DEF Publish, Respond, SweepersPast, DeletionsNamed, Sweeper
  <2> QED BY <1>11, <2>3, <2>4, <2>5, <2>6, <2>7, <2>8 DEF Publish,
         TypeInv, TypeOK, SweepersPast, JobsFixed, PublishedAnswered, DeletionsNamed, TriesBounded
<1>12. ASSUME NEW a \in Upload, Refuse(a) PROVE TypeInv'
  <2>1. job[a] \in Request
    BY <1>12, AttemptFacts, RequestsTyped DEF Refuse, JobsFixed
  <2>2. /\ receipts' \in [Op -> Upload \cup {Rejected, None}] /\ pc' \in PC
        /\ answer' \in [Upload -> Upload \cup {None, Conflict, Outdated, Unknown}]
    BY <1>12, <2>1, AttemptFacts DEF Refuse
  <2>3. JobsFixed' /\ SweepersPast' /\ PublishedAnswered'
    BY <1>0, <1>12, AttemptFacts, SweepFacts, PublishedFacts
       DEF Refuse, JobsFixed, SweepersPast, PublishedAnswered, Sweeper
  <2> QED BY <1>0, <1>12, <2>2, <2>3 DEF Refuse,
         TypeInv, TypeOK, SweepersPast, JobsFixed, PublishedAnswered, DeletionsNamed, TriesBounded
<1>13. ASSUME NEW a \in Upload, Abort(a) PROVE TypeInv'
  BY RequestsTyped, <1>0, <1>13 DEF Abort, Respond,
         TypeInv, TypeOK, SweepersPast, JobsFixed, PublishedAnswered, DeletionsNamed, TriesBounded
<1>14. ASSUME NEW a \in Upload, Miss(a) PROVE TypeInv'
  BY RequestsTyped, <1>0, <1>14 DEF Miss,
         TypeInv, TypeOK, SweepersPast, JobsFixed, PublishedAnswered, DeletionsNamed, TriesBounded
<1>15. ASSUME NEW a \in Upload, ReadReceipt(a) PROVE TypeInv'
  <2>1. job[a] \in Request
    BY <1>15, AttemptFacts DEF ReadReceipt, JobsFixed
  <2>2. receipts[job[a].op] \in Upload \cup {Rejected, None}
    BY <1>15, <2>1 DEF ReadReceipt, Request, TypeInv, TypeOK
  <2>3. answer' \in [Upload -> Upload \cup {None, Conflict, Outdated, Unknown}]
    BY <1>15, <2>2, AttemptFacts DEF ReadReceipt, Respond
  <2>4. pc' \in PC /\ JobsFixed' /\ PublishedAnswered' /\ SweepersPast'
    BY <1>0, <1>15, <2>1, AttemptFacts, SweepFacts, PublishedFacts
       DEF ReadReceipt, Respond, JobsFixed, PublishedAnswered, SweepersPast, Sweeper
  <2> QED BY <1>0, <1>15, <2>1, <2>3, <2>4 DEF ReadReceipt,
         TypeInv, TypeOK, SweepersPast, JobsFixed, PublishedAnswered, DeletionsNamed, TriesBounded
<1>16. ASSUME NEW a \in Upload, ReadNames(a) \/ ReadRow(a) \/ ReadBytes(a) PROVE TypeInv'
  <2>1. job[a] \in Request
    BY <1>16, AttemptFacts DEF ReadNames, ReadRow, ReadBytes, JobsFixed
  <2>2. Target(a) \in Upload \cup {Absent}
    BY <2>1 DEF Request, Target, TypeInv, TypeOK
  <2>3. answer' \in [Upload -> Upload \cup {None, Conflict, Outdated, Unknown}]
    BY <1>16, <2>2, AttemptFacts DEF ReadNames, ReadRow, ReadBytes, Respond
  <2>4. pc' \in PC /\ JobsFixed' /\ PublishedAnswered' /\ SweepersPast'
    <3>1. \E step \in {"row", "bytes", "discard", "answered"} : pc' = [pc EXCEPT ![a] = step]
      BY <1>16 DEF ReadNames, ReadRow, ReadBytes, Respond
    <3>2. pc[a] \in {"reread", "row", "bytes"} /\ UNCHANGED <<job, sweep, changelog>>
      BY <1>16 DEF ReadNames, ReadRow, ReadBytes
    <3> QED BY <1>0, <2>1, <3>1, <3>2, AttemptFacts, SweepFacts, PublishedFacts
         DEF JobsFixed, PublishedAnswered, SweepersPast, Sweeper
  <2> QED BY <1>0, <1>16, <2>1, <2>3, <2>4 DEF ReadNames, ReadRow, ReadBytes,
         TypeInv, TypeOK, SweepersPast, JobsFixed, PublishedAnswered, DeletionsNamed, TriesBounded
<1>17. ASSUME NEW d \in Deletion, NEW k \in Published, LoadDeletion(d, k) PROVE TypeInv'
  BY RequestsTyped, <1>0, <1>17 DEF LoadDeletion, DeletionRun,
         TypeInv, TypeOK, SweepersPast, JobsFixed, PublishedAnswered, DeletionsNamed, TriesBounded
<1>18. ASSUME NEW d \in Deletion, CommitDeletion(d) PROVE TypeInv'
  <2> DEFINE k == deletion[d].revision
             p == job[k].path
  <2>1. k \in Published
    BY <1>18 DEF CommitDeletion, TypeInv, DeletionsNamed
  <2>2. k \in Upload /\ p \in Path
    BY <2>1, AttemptFacts, RequestsTyped DEF Request, JobsFixed, TypeInv, PublishedAnswered
  <2> HIDE DEF k, p
  <2>3. /\ changelog' \in Seq([path : Path, revision : Upload \cup {Absent}])
        /\ Published' = Published
    <3>1. CASE changelog' = changelog
      BY <1>0, <3>1 DEF TypeInv, TypeOK
    <3>2. CASE changelog' = Append(changelog, [path |-> p, revision |-> Absent])
      BY <2>2, <3>2, PublishedAppend DEF TypeInv
    <3>3. QED
      BY <1>18, <3>1, <3>2 DEF CommitDeletion, p, k
  <2>4. deletion' \in {[deletion EXCEPT ![d].step = "deleted"], [deletion EXCEPT ![d].step = "recheck"]}
        /\ deletion[d].step # "idle"
    BY <1>18 DEF CommitDeletion
  <2>5. deletion' \in [Deletion -> DeletionRun]
    BY <2>4, DeletionFacts DEF DeletionRun
  <2>6. DeletionsNamed'
    BY <2>3, <2>4, DeletionFacts DEF DeletionRun, DeletionsNamed
  <2>7. files' \in [Path -> Upload \cup {Absent}] /\ versions \subseteq versions' /\ versions' \subseteq Upload
    <3>1. files \in [Path -> Upload \cup {Absent}] /\ versions \subseteq Upload
      BY DEF TypeInv, TypeOK
    <3> QED BY <1>18, <2>2, <3>1 DEF CommitDeletion, k, p
  <2> QED BY <1>18, <2>3, <2>5, <2>6, <2>7 DEF CommitDeletion,
         TypeInv, TypeOK, SweepersPast, JobsFixed, PublishedAnswered, DeletionsNamed, TriesBounded
<1>19. ASSUME NEW d \in Deletion, RecheckDeletion(d) PROVE TypeInv'
  <2>1. deletion' \in [Deletion -> DeletionRun] /\ \A e \in Deletion : deletion'[e].revision = deletion[e].revision
    BY <1>19, DeletionFacts DEF RecheckDeletion, DeletionRun
  <2>2. DeletionsNamed'
    BY <1>0, <1>19, <2>1, DeletionFacts DEF RecheckDeletion, DeletionRun, DeletionsNamed, TypeInv, d1
  <2> QED BY <1>0, <1>19, <2>1, <2>2 DEF RecheckDeletion,
         TypeInv, TypeOK, SweepersPast, JobsFixed, PublishedAnswered, DeletionsNamed, TriesBounded
<1>20. ASSUME NEW a \in Upload, QueueDiscard(a) PROVE TypeInv'
  <2>1. sweep' \in [Sweeper -> SweepRun] /\ SweepersPast'
    BY <1>20, SweepFacts, AttemptFacts DEF QueueDiscard, SweepRun, SweepersPast, Sweeper
  <2>2. pc' \in PC /\ JobsFixed' /\ PublishedAnswered'
    BY <1>0, <1>20, AttemptFacts, PublishedFacts DEF QueueDiscard, JobsFixed, PublishedAnswered
  <2> QED BY <1>0, <1>20, <2>1, <2>2 DEF QueueDiscard,
         TypeInv, TypeOK, SweepersPast, JobsFixed, PublishedAnswered, DeletionsNamed, TriesBounded
<1>21. ASSUME DrainQueue PROVE TypeInv'
  BY RequestsTyped, <1>0, <1>21 DEF DrainQueue, SweepRun, Sweeper,
         TypeInv, TypeOK, SweepersPast, JobsFixed, PublishedAnswered, DeletionsNamed, TriesBounded
<1>22. ASSUME NEW s \in Sweeper, SweepCheck(s) PROVE TypeInv'
  <2>1. sweep' \in [Sweeper -> SweepRun] /\ SweepersPast'
    BY <1>22, SweepFacts DEF SweepCheck, SweepRun, SweepersPast, attempts, Sweeper
  <2> QED BY <1>0, <1>22, <2>1 DEF SweepCheck,
         TypeInv, TypeOK, SweepersPast, JobsFixed, PublishedAnswered, DeletionsNamed, TriesBounded
<1>23. ASSUME NEW s \in Sweeper, SweepDelete(s) PROVE TypeInv'
  <2>1. sweep' \in [Sweeper -> SweepRun] /\ SweepersPast'
    BY <1>23, SweepFacts DEF SweepDelete, SweepRun, SweepersPast, attempts, Sweeper
  <2> QED BY <1>0, <1>23, <2>1 DEF SweepDelete,
         TypeInv, TypeOK, SweepersPast, JobsFixed, PublishedAnswered, DeletionsNamed, TriesBounded
<1>24. ASSUME NEW s \in Sweeper, SweepLeases(s) PROVE TypeInv'
  <2>1. sweep' \in [Sweeper -> SweepRun] /\ SweepersPast'
    BY <1>24, SweepFacts DEF SweepLeases, SweepRun, SweepersPast, attempts, Sweeper
  <2>2. /\ staged' \in [Upload -> {"none", "pending", "deleting"}] /\ TriesBounded'
        /\ age' \in [Upload -> {"fresh", "due", "expired", "never"}] /\ tries' \in [Upload -> 0..MaxTries]
    BY <1>24, LeaseFacts, ClaimFacts DEF SweepLeases, DropLeases, TriesBounded
  <2> QED BY <1>0, <1>24, <2>1, <2>2 DEF SweepLeases,
         TypeInv, TypeOK, SweepersPast, JobsFixed, PublishedAnswered, DeletionsNamed, TriesBounded
<1>25. ASSUME NEW s \in Sweeper, SweepDequeue(s) PROVE TypeInv'
  <2>1. sweep' \in [Sweeper -> SweepRun] /\ SweepersPast' /\ JobsFixed'
    BY <1>25, SweepFacts, AttemptFacts DEF SweepDequeue, EndSweep, SweepRun, Idle, SweepersPast, JobsFixed, Sweeper
  <2>2. pc' \in PC /\ PublishedAnswered'
    BY <1>0, <1>25, AttemptFacts, PublishedFacts DEF SweepDequeue, EndSweep, PublishedAnswered
  <2> QED BY <1>0, <1>25, <2>1, <2>2 DEF SweepDequeue,
         TypeInv, TypeOK, SweepersPast, JobsFixed, PublishedAnswered, DeletionsNamed, TriesBounded
<1>26. ASSUME NEW s \in Sweeper, SweepFails(s) PROVE TypeInv'
  <2>1. sweep' \in [Sweeper -> SweepRun] /\ SweepersPast' /\ JobsFixed'
    BY <1>26, SweepFacts, AttemptFacts DEF SweepFails, EndSweep, SweepRun, Idle, SweepersPast, JobsFixed, Sweeper
  <2>2. pc' \in PC /\ PublishedAnswered'
    BY <1>0, <1>26, AttemptFacts, PublishedFacts DEF SweepFails, EndSweep, PublishedAnswered
  <2> QED BY <1>0, <1>26, <2>1, <2>2 DEF SweepFails,
         TypeInv, TypeOK, SweepersPast, JobsFixed, PublishedAnswered, DeletionsNamed, TriesBounded
<1>27. ASSUME ExpireVersions PROVE TypeInv'
  BY RequestsTyped, <1>0, <1>27 DEF ExpireVersions,
         TypeInv, TypeOK, SweepersPast, JobsFixed, PublishedAnswered, DeletionsNamed, TriesBounded
<1>28. ASSUME PruneReceipts PROVE TypeInv'
  BY RequestsTyped, <1>0, <1>28 DEF PruneReceipts, OperationFloor, Larger, Day,
         TypeInv, TypeOK, SweepersPast, JobsFixed, PublishedAnswered, DeletionsNamed, TriesBounded
<1>29. ASSUME ClaimLeases PROVE TypeInv'
  <2>1. claim' \in ClaimRun /\ claim'.keys = {k \in Upload : staged[k] # "none" /\ age[k] \in {"due", "expired"}}
    BY <1>29 DEF ClaimLeases, NoClaim, ClaimRun
  <2>2. TriesBounded'
    BY <1>29, <2>1, LeaseFacts DEF ClaimLeases, TriesBounded
  <2> QED BY <1>0, <1>29, <2>1, <2>2 DEF ClaimLeases,
         TypeInv, TypeOK, SweepersPast, JobsFixed, PublishedAnswered, DeletionsNamed, TriesBounded
<1>30. ASSUME ClaimCheck \/ ClaimLook PROVE TypeInv'
  <2>1. claim' \in ClaimRun /\ claim'.keys = claim.keys
    <3>1. CASE ClaimCheck
      BY <3>1, ClaimFacts DEF ClaimCheck, ClaimRun
    <3>2. CASE ClaimLook
      <4>1. PICK visible \in SUBSET ((claim.keys \ claim.finished) \cap bucket) :
              claim' = [claim EXCEPT !.step = "delete", !.visible = visible]
        BY <3>2 DEF ClaimLook
      <4>2. visible \subseteq Upload
        BY <4>1, ClaimFacts
      <4> QED BY <4>1, <4>2, ClaimFacts DEF ClaimRun
    <3> QED BY <1>30, <3>1, <3>2
  <2>2. UNCHANGED <<request, now, d1, r2, attempts, sweep, deletion>>
    BY <1>30 DEF ClaimCheck, ClaimLook
  <2> QED BY <1>0, <2>1, <2>2
      DEF TypeInv, TypeOK, SweepersPast, JobsFixed, PublishedAnswered, DeletionsNamed, TriesBounded
<1>31. ASSUME ClaimDelete PROVE TypeInv'
  <2>1. claim' \in ClaimRun /\ claim'.keys = claim.keys
    BY <1>31, ClaimFacts DEF ClaimDelete, ClaimRun
  <2> QED BY <1>0, <1>31, <2>1 DEF ClaimDelete,
         TypeInv, TypeOK, SweepersPast, JobsFixed, PublishedAnswered, DeletionsNamed, TriesBounded
<1>32. ASSUME ClaimFinish PROVE TypeInv'
  BY RequestsTyped, <1>0, <1>32 DEF ClaimFinish, NoClaim, ClaimRun,
         TypeInv, TypeOK, SweepersPast, JobsFixed, PublishedAnswered, DeletionsNamed, TriesBounded
<1>33. ASSUME ClaimFails PROVE TypeInv'
  BY RequestsTyped, <1>0, <1>33 DEF ClaimFails, NoClaim, ClaimRun,
         TypeInv, TypeOK, SweepersPast, JobsFixed, PublishedAnswered, DeletionsNamed, TriesBounded
<1>34. CASE UNCHANGED vars
  BY <1>0, <1>34 DEF vars,
         TypeInv, TypeOK, SweepersPast, JobsFixed, PublishedAnswered, DeletionsNamed, TriesBounded
<1>35. QED
  BY <1>1, <1>2, <1>3, <1>4, <1>5, <1>6, <1>7, <1>8, <1>9, <1>10, <1>11, <1>12, <1>13, <1>14, <1>15, <1>16, <1>17, <1>18, <1>19, <1>20, <1>21, <1>22, <1>23, <1>24, <1>25, <1>26, <1>27, <1>28, <1>29, <1>30, <1>31, <1>32, <1>33, <1>34
     DEF Next, Client, Attempt, Delete, Sweep, Maintain, Environment

\* TypeInv holds in every reachable state.
LEMMA TypeInvariant == Spec => []TypeInv
<1>1. QED
  BY TypeInit, TypeStep, PTL DEF Spec

(* Every variable keeps its type; in particular no clean-up attempt is counted *)
(* beyond MaxTries, and the operation floor never passes the last day.         *)
THEOREM TypeCorrect == Spec => []TypeOK
<1>1. TypeInv => TypeOK
  BY DEF TypeInv
<1>2. QED
  BY <1>1, TypeInvariant, PTL

=============================================================================
