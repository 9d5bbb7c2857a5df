----------------------- MODULE FileStoreSafetyProofs -----------------------
(* No live or retained revision loses its object, and no object is lost track  *)
(* of, for every set of attempts and paths.                                    *)
EXTENDS FileStoreProofs

(***************************************************************************)
(* Why clean-up never removes what a row refers to: a key is swept only     *)
(* once its attempt is past its commit without having published it, or once *)
(* it was replaced or expired; a key is claimed only when its lease can no  *)
(* longer publish it.  Neither kind is ever referenced again.               *)
(***************************************************************************)
Past == {"reread", "row", "bytes", "discard", "sweeping", "answered"}

\* Leases and puts come after the request was accepted; an object, a publication
\* and an answer come after the put has landed, so that no later put revives a key.
PutOrder == \A k \in Upload :
  /\ pc[k] \in {"idle", "begun"} => put[k] = "none" /\ staged[k] = "none"
  /\ pc[k] \in {"staged", "reread", "row", "bytes", "discard", "sweeping"} => put[k] = "landed"
  /\ k \in bucket \cup Published => put[k] = "landed"

\* What an attempt may still publish is there.
Ready == \A k \in Upload :
  pc[k] \in {"putting", "staged"} /\ staged[k] = "pending" /\ put[k] = "landed" => k \in bucket

\* A revision is live at the path it was published for, and live or retained, not both.
ReferencesPublished ==
  /\ \A p \in Path : files[p] # Absent => files[p] \in Published /\ job[files[p]].path = p
  /\ versions \subseteq Published
  /\ Live \cap versions = {}

Discarded(k) == pc[k] \in Past /\ put[k] = "landed" /\ k \notin Referenced

SweepsDiscarded ==
  /\ \A k \in queue : Discarded(k)
  /\ \A s \in Sweeper :
       /\ \A k \in sweep[s].keys : Discarded(k)
       /\ sweep[s].unused \subseteq sweep[s].keys
       /\ sweep[s].step = "delete" => sweep[s].unused = sweep[s].keys
       /\ sweep[s].step \in {"leases", "dequeue"} => sweep[s].keys \cap bucket = {}

ClaimsDiscarded ==
  /\ \A k \in claim.keys : staged[k] # "pending" /\ pc[k] \notin {"idle", "begun"}
  /\ claim.visible \subseteq claim.keys
  /\ claim.step = "look" => \A k \in claim.keys \ claim.finished : k \notin Referenced
  /\ \A k \in claim.visible : put[k] = "landed" /\ k \notin Referenced
  /\ \A k \in claim.finished :
       k \in Referenced \cup queue \/ (k \notin bucket /\ put[k] = "landed")

KeyInv ==
  /\ PutOrder /\ Ready /\ ReferencesPublished /\ SweepsDiscarded /\ ClaimsDiscarded
  /\ NoDanglingRevision /\ ObjectsTracked

-----------------------------------------------------------------------------

\* There are no keys at first.
LEMMA KeyInit == Init => KeyInv
<1> SUFFICES ASSUME Init PROVE KeyInv
  OBVIOUS
<1>1. Published = {} /\ Live = {} /\ Referenced = {}
  BY MarkerAssumption DEF Init, Published, Live, Referenced
<1>2. PutOrder /\ Ready /\ ReferencesPublished
  BY <1>1 DEF Init, PutOrder, Ready, ReferencesPublished
<1>3. SweepsDiscarded /\ ClaimsDiscarded
  BY DEF Init, SweepsDiscarded, ClaimsDiscarded, Idle, NoClaim
<1>4. NoDanglingRevision /\ ObjectsTracked
  BY <1>1 DEF Init, NoDanglingRevision, ObjectsTracked
<1>5. QED
  BY <1>2, <1>3, <1>4 DEF KeyInv

\* References depend on files and versions, publications on the changelog.
LEMMA SameReferences ==
  /\ UNCHANGED <<files, versions>> => Live' = Live /\ Referenced' = Referenced
  /\ UNCHANGED changelog => Published' = Published
BY DEF Live, Referenced, Published

\* What a key's clean-up rests on, apart from the attempts' own progress.
stores == <<files, versions, changelog, queue, staged, put, bucket, sweep, claim>>

\* A step that moves no attempt and touches no key.
LEMMA KeyQuiet ==
  ASSUME TypeInv, KeyInv, UNCHANGED <<stores, pc, job>>
  PROVE  KeyInv'
<1>1. Live' = Live /\ Referenced' = Referenced /\ Published' = Published
  BY SameReferences DEF stores
<1>2. PutOrder' /\ Ready' /\ ReferencesPublished'
  BY <1>1 DEF KeyInv, PutOrder, Ready, ReferencesPublished, stores
<1>3. SweepsDiscarded' /\ ClaimsDiscarded'
  BY <1>1 DEF KeyInv, SweepsDiscarded, ClaimsDiscarded, Discarded, stores
<1>4. NoDanglingRevision' /\ ObjectsTracked'
  BY <1>1 DEF KeyInv, NoDanglingRevision, ObjectsTracked, stores
<1>5. QED
  BY <1>2, <1>3, <1>4 DEF KeyInv

\* A step that moves one attempt forward and touches no key.
LEMMA KeyMove ==
  ASSUME TypeInv, KeyInv, UNCHANGED stores,
         NEW a \in Upload, NEW step, pc' = [pc EXCEPT ![a] = step],
         \A b \in Upload \ {a} : job'[b] = job[b],
         job'[a] = job[a] \/ pc[a] = "idle",
         \/ step = "begun" /\ pc[a] = "idle"
         \/ step = "staged" /\ pc[a] = "putting" /\ put[a] = "landed"
         \/ /\ step \in {"reread", "row", "bytes", "discard"}
            /\ pc[a] \in {"staged", "reread", "row", "bytes"}
         \/ step = "answered"
  PROVE  KeyInv'
<1>1. Live' = Live /\ Referenced' = Referenced /\ Published' = Published
  BY SameReferences DEF stores
<1>2. pc[a] \in Past => step \in Past
  BY DEF Past
<1>3. PutOrder'
  BY <1>1, AttemptFacts DEF KeyInv, PutOrder, stores
<1>4. Ready'
  BY <1>1, AttemptFacts DEF KeyInv, Ready, stores
<1>5. ReferencesPublished'
  BY <1>1, PublishedFacts DEF KeyInv, ReferencesPublished, PublishedAnswered, stores
<1>6. \A k \in Upload : Discarded(k) => Discarded(k)'
  BY <1>1, <1>2, AttemptFacts DEF Discarded, stores
<1>7. SweepsDiscarded'
  BY <1>6, SweepFacts DEF KeyInv, SweepsDiscarded, stores, TypeInv, TypeOK, SweepRun
<1>8. ClaimsDiscarded'
  BY <1>1, AttemptFacts, ClaimFacts DEF KeyInv, ClaimsDiscarded, stores
<1>9. NoDanglingRevision' /\ ObjectsTracked'
  BY <1>1 DEF KeyInv, NoDanglingRevision, ObjectsTracked, stores
<1>10. QED
  BY <1>3, <1>4, <1>5, <1>7, <1>8, <1>9 DEF KeyInv

\* A fresh key is leased before its put.
LEMMA KeyStage == ASSUME TypeInv, KeyInv, NEW a \in Upload, Stage(a) PROVE KeyInv'
<1>1. Live' = Live /\ Referenced' = Referenced /\ Published' = Published
  BY SameReferences DEF Stage
<1>2. a \notin bucket /\ a \notin Published /\ put[a] = "none" /\ pc[a] = "begun"
  BY DEF Stage, KeyInv, PutOrder
<1>3. PutOrder'
  BY <1>1, <1>2, AttemptFacts DEF Stage, KeyInv, PutOrder, TypeInv, TypeOK
<1>4. Ready'
  BY <1>2 DEF Stage, KeyInv, Ready, TypeInv, TypeOK
<1>5. ReferencesPublished'
  BY <1>1 DEF Stage, KeyInv, ReferencesPublished
<1>6. \A k \in Upload : Discarded(k) => Discarded(k)'
  BY <1>1, <1>2 DEF Stage, Discarded, Past, TypeInv, TypeOK
<1>7. SweepsDiscarded'
  BY <1>6, SweepFacts DEF Stage, KeyInv, SweepsDiscarded, TypeInv, TypeOK, SweepRun
<1>8. a \notin claim.keys /\ a \notin claim.visible
  BY <1>2 DEF KeyInv, ClaimsDiscarded
<1>9. \A k \in claim.finished : k \in Referenced \cup queue \/ (k \notin bucket /\ put'[k] = "landed")
  BY <1>2, ClaimFacts DEF Stage, KeyInv, ClaimsDiscarded, TypeInv, TypeOK, ClaimRun
<1>10. ClaimsDiscarded'
  BY <1>1, <1>8, <1>9, ClaimFacts DEF Stage, KeyInv, ClaimsDiscarded, TypeInv, TypeOK, ClaimRun
<1>11. NoDanglingRevision' /\ ObjectsTracked'
  BY <1>1 DEF Stage, KeyInv, NoDanglingRevision, ObjectsTracked, TypeInv, TypeOK
<1>12. QED
  BY <1>3, <1>4, <1>5, <1>7, <1>10, <1>11 DEF KeyInv

\* A late put finds its key leased, queued or discarded.
LEMMA KeyPutLands == ASSUME TypeInv, KeyInv, NEW a \in Upload, PutLands(a) PROVE KeyInv'
<1>1. Live' = Live /\ Referenced' = Referenced /\ Published' = Published
  BY SameReferences DEF PutLands, d1
<1>2. \A k \in Upload : put[k] = "landed" => put'[k] = "landed"
  BY DEF PutLands, TypeInv, TypeOK
<1>3. PutOrder' /\ Ready'
  BY <1>1 DEF PutLands, KeyInv, PutOrder, Ready, TypeInv, TypeOK, d1, attempts
<1>4. ReferencesPublished'
  BY <1>1 DEF PutLands, KeyInv, ReferencesPublished, d1, attempts
<1>5. \A k \in Upload : Discarded(k) => Discarded(k)' /\ k # a
  BY <1>1, <1>2 DEF PutLands, Discarded, attempts
<1>6. SweepsDiscarded'
  BY <1>5, SweepFacts DEF PutLands, KeyInv, SweepsDiscarded, TypeInv, TypeOK, SweepRun, d1
<1>7. ClaimsDiscarded'
  BY <1>1, <1>2, ClaimFacts DEF PutLands, KeyInv, ClaimsDiscarded, ClaimRun, d1, attempts
<1>8. NoDanglingRevision' /\ ObjectsTracked'
  BY <1>1 DEF PutLands, KeyInv, NoDanglingRevision, ObjectsTracked, TypeInv, TypeOK, d1
<1>9. QED
  BY <1>3, <1>4, <1>6, <1>7, <1>8 DEF KeyInv

\* A published key has its object and no sweep works on it.
LEMMA KeyPublish == ASSUME TypeInv, KeyInv, NEW a \in Upload, Publish(a) PROVE KeyInv'
<1> DEFINE p == job[a].path
           old == Target(a)
<1>1. job[a] \in Request /\ p \in Path /\ old = files[p] /\ old \in Upload \cup {Absent}
  BY AttemptFacts DEF Publish, JobsFixed, Request, Target, TypeInv, TypeOK
<1>2. /\ pc[a] = "staged" /\ staged[a] = "pending" /\ put[a] = "landed" /\ a \in bucket
      /\ a \notin Published
  BY PublishedFacts DEF Publish, CanPublish, LeaseHolds, KeyInv, PutOrder, Ready, PublishedAnswered
<1>3. Published' = Published \cup {a}
  BY <1>1, PublishedAppend, MarkerAssumption DEF Publish, TypeInv
<1>4. /\ files' = [files EXCEPT ![p] = a] /\ pc' = [pc EXCEPT ![a] = "answered"]
      /\ staged' = [staged EXCEPT ![a] = "none"]
      /\ UNCHANGED <<put, bucket, job, sweep, claim>>
  BY LeaseFacts DEF Publish, Respond, DropLeases, r2
<1>5. \/ old = Absent /\ versions' = versions /\ queue' = queue
      \/ old # Absent /\ versions' = versions \cup {old} /\ queue' = queue
      \/ old # Absent /\ versions' = versions /\ queue' = queue \cup {old}
  BY DEF Publish, Replace
<1> HIDE DEF p, old
<1>6. Live' = (Live \ {old}) \cup {a}
  <2>1. files \in [Path -> Upload \cup {Absent}] /\ a # Absent
    BY MarkerAssumption DEF TypeInv, TypeOK
  <2>2. \A q \in Path : q # p /\ files[q] # Absent => files[q] # old
    BY <1>1 DEF p, old, KeyInv, ReferencesPublished
  <2>3. QED
    BY <1>1, <1>4, <2>1, <2>2 DEF Live
<1>7. old # Absent => old \in Live /\ old \in Published /\ old \notin versions /\ old # a
  BY <1>1, <1>2 DEF Live, KeyInv, ReferencesPublished
<1>8. /\ Referenced' \subseteq Referenced \cup {a} /\ a \in Referenced'
      /\ Referenced \subseteq Referenced' \cup queue'
      /\ \A k \in queue' \ queue : k = old /\ old # Absent /\ k \notin Referenced'
  <2>0. Absent \notin Live
    BY DEF Live
  <2>1. CASE old = Absent
    BY <1>5, <1>6, <2>0, <2>1 DEF Referenced
  <2>2. CASE old # Absent /\ versions' = versions \cup {old} /\ queue' = queue
    BY <1>6, <1>7, <2>2 DEF Referenced
  <2>3. CASE old # Absent /\ versions' = versions /\ queue' = queue \cup {old}
    BY <1>6, <1>7, <2>3 DEF Referenced
  <2>4. QED
    BY <1>5, <2>1, <2>2, <2>3
<1>9. PutOrder'
  BY <1>2, <1>3, <1>4, AttemptFacts, LeaseFacts DEF KeyInv, PutOrder
<1>10. Ready'
  BY <1>4, AttemptFacts, LeaseFacts DEF KeyInv, Ready
<1>11. ReferencesPublished'
  <2>1. \A q \in Path : files'[q] # Absent => files'[q] \in Published' /\ job'[files'[q]].path = q
    BY <1>1, <1>3, <1>4 DEF p, KeyInv, ReferencesPublished, TypeInv, TypeOK
  <2>2. versions' \subseteq Published' /\ Live' \cap versions' = {}
    BY <1>2, <1>3, <1>5, <1>6, <1>7 DEF KeyInv, ReferencesPublished
  <2>3. QED
    BY <2>1, <2>2 DEF ReferencesPublished
<1>12. \A k \in Upload : Discarded(k) => Discarded(k)'
  BY <1>2, <1>4, <1>8, AttemptFacts DEF Discarded, Past
<1>13. \A k \in queue' : Discarded(k)'
  <2>1. \A k \in queue' \ queue : Discarded(k)'
    BY <1>1, <1>2, <1>4, <1>7, <1>8, AttemptFacts, PublishedFacts DEF Discarded, Past, KeyInv, PutOrder, PublishedAnswered
  <2>2. QED
    BY <1>12, <2>1 DEF KeyInv, SweepsDiscarded, TypeInv, TypeOK
<1>14. SweepsDiscarded'
  BY <1>4, <1>12, <1>13, SweepFacts DEF KeyInv, SweepsDiscarded, SweepRun
<1>15. ClaimsDiscarded'
  <2>1. a \notin claim.keys /\ a \notin claim.visible
    BY <1>2 DEF KeyInv, ClaimsDiscarded
  <2>2. \A k \in claim.keys : staged'[k] # "pending" /\ pc'[k] \notin {"idle", "begun"}
    BY <1>4, ClaimFacts, AttemptFacts, LeaseFacts DEF KeyInv, ClaimsDiscarded
  <2>3. \A k \in claim.visible : put[k] = "landed" /\ k \notin Referenced'
    BY <1>8, <2>1 DEF KeyInv, ClaimsDiscarded
  <2>4. \A k \in claim.finished : k \in Referenced' \cup queue' \/ (k \notin bucket /\ put[k] = "landed")
    BY <1>5, <1>8 DEF KeyInv, ClaimsDiscarded
  <2>5. claim.step = "look" => \A k \in claim.keys \ claim.finished : k \notin Referenced'
    BY <1>8, <2>1 DEF KeyInv, ClaimsDiscarded
  <2>6. QED
    BY <1>4, <2>2, <2>3, <2>4, <2>5 DEF KeyInv, ClaimsDiscarded
<1>16. NoDanglingRevision' /\ ObjectsTracked'
  BY <1>2, <1>4, <1>5, <1>8, LeaseFacts DEF KeyInv, NoDanglingRevision, ObjectsTracked
<1>17. QED
  BY <1>9, <1>10, <1>11, <1>14, <1>15, <1>16 DEF KeyInv

\* A deleted revision is retained or queued.
LEMMA KeyCommitDeletion == ASSUME TypeInv, KeyInv, NEW d \in Deletion, CommitDeletion(d) PROVE KeyInv'
<1> DEFINE k == deletion[d].revision
           p == job[k].path
<1>1. CASE files[p] # k
  <2>1. UNCHANGED <<stores, pc, job>>
    BY <1>1 DEF CommitDeletion, stores, r2, attempts
  <2>2. QED
    BY <2>1, KeyQuiet
<1>2. CASE files[p] = k
  <2>1. k \in Published /\ k \in Upload /\ p \in Path
    BY AttemptFacts, DeletionFacts, PublishedFacts
       DEF CommitDeletion, DeletionsNamed, PublishedAnswered, JobsFixed, Request
  <2>2. /\ files' = [files EXCEPT ![p] = Absent] /\ versions' = versions \cup {k}
        /\ changelog' = Append(changelog, [path |-> p, revision |-> Absent])
        /\ UNCHANGED <<queue, staged, put, bucket, sweep, claim, pc, job>>
    BY <1>2 DEF CommitDeletion, r2, attempts
  <2> HIDE DEF k, p
  <2>3. Published' = Published
    BY <2>1, <2>2, PublishedAppend DEF TypeInv
  <2>4. files \in [Path -> Upload \cup {Absent}] /\ k # Absent /\ k \in Live
    BY <1>2, <2>1, MarkerAssumption DEF Live, TypeInv, TypeOK
  <2>5. \A q \in Path : q # p => files[q] # k
    BY <2>4 DEF p, KeyInv, ReferencesPublished
  <2>6. Live' = Live \ {k}
    BY <1>2, <2>1, <2>2, <2>4, <2>5 DEF Live
  <2>7. Referenced' = Referenced
    BY <2>2, <2>4, <2>6 DEF Referenced
  <2>8. ReferencesPublished'
    BY <2>1, <2>2, <2>3, <2>4, <2>6 DEF KeyInv, ReferencesPublished
  <2>9. PutOrder' /\ Ready'
    BY <2>2, <2>3 DEF KeyInv, PutOrder, Ready
  <2>10. SweepsDiscarded' /\ ClaimsDiscarded'
    BY <2>2, <2>7 DEF KeyInv, SweepsDiscarded, ClaimsDiscarded, Discarded
  <2>11. NoDanglingRevision' /\ ObjectsTracked'
    BY <2>2, <2>7 DEF KeyInv, NoDanglingRevision, ObjectsTracked
  <2>12. QED
    BY <2>8, <2>9, <2>10, <2>11 DEF KeyInv
<1>3. QED
  BY <1>1, <1>2

\* A step of a clean-up run leaves the rows, the puts and the requests alone.
runs == <<files, versions, changelog, put, job>>

\* A discarded key is queued and never published again.
LEMMA KeyQueueDiscard == ASSUME TypeInv, KeyInv, NEW a \in Upload, QueueDiscard(a) PROVE KeyInv'
<1>1. /\ pc[a] = "discard" /\ pc' = [pc EXCEPT ![a] = "sweeping"]
      /\ queue' \in {queue, queue \cup {a}}
      /\ sweep' = [sweep EXCEPT ![a] = [step |-> "check", keys |-> {a}, unused |-> {}]]
      /\ UNCHANGED <<runs, staged, bucket, claim>>
  BY DEF QueueDiscard, runs, r2
<1>2. Live' = Live /\ Referenced' = Referenced /\ Published' = Published
  BY <1>1, SameReferences DEF runs
<1>3. PutOrder' /\ Ready'
  BY <1>1, <1>2, AttemptFacts DEF runs, KeyInv, PutOrder, Ready
<1>4. ReferencesPublished'
  BY <1>1, <1>2 DEF runs, KeyInv, ReferencesPublished
<1>5. \A k \in Upload : Discarded(k) => Discarded(k)'
  BY <1>1, <1>2, AttemptFacts DEF runs, Discarded, Past
<1>6. a \notin Referenced
  BY <1>1, PublishedFacts DEF KeyInv, ReferencesPublished, PublishedAnswered, Referenced, Live
<1>7. Discarded(a)'
  BY <1>1, <1>2, <1>6, AttemptFacts DEF runs, Discarded, Past, KeyInv, PutOrder
<1>8. SweepsDiscarded'
  <2>1. \A k \in queue' : Discarded(k)'
    BY <1>1, <1>5, <1>7, SweepFacts DEF KeyInv, SweepsDiscarded, TypeInv, TypeOK
  <2>2. \A s \in Sweeper :
          s # a => sweep'[s] = sweep[s] /\ \A k \in sweep'[s].keys : Discarded(k)'
    BY <1>1, <1>5, SweepFacts DEF KeyInv, SweepsDiscarded, SweepRun
  <2>3. sweep'[a] = [step |-> "check", keys |-> {a}, unused |-> {}]
    BY <1>1, SweepFacts DEF Sweeper
  <2>4. QED
    BY <1>1, <1>7, <2>1, <2>2, <2>3 DEF KeyInv, SweepsDiscarded
<1>9. ClaimsDiscarded'
  BY <1>1, <1>2, AttemptFacts, ClaimFacts DEF runs, KeyInv, ClaimsDiscarded
<1>10. NoDanglingRevision' /\ ObjectsTracked'
  BY <1>1, <1>2 DEF runs, KeyInv, NoDanglingRevision, ObjectsTracked
<1>11. QED
  BY <1>3, <1>4, <1>8, <1>9, <1>10 DEF KeyInv

\* A clean-up step may delete objects nobody refers to or may still publish,
\* end attempts that were clearing up, and drop or claim leases and empty the
\* queue where the object is gone for good or is tracked otherwise.
Cleans ==
  /\ UNCHANGED runs
  /\ \A k \in Upload : pc'[k] = pc[k] \/ (pc[k] = "sweeping" /\ pc'[k] = "answered")
  /\ bucket' \subseteq bucket
  /\ \A k \in bucket \ bucket' :
       k \notin Referenced /\ ~(pc[k] \in {"putting", "staged"} /\ staged[k] = "pending")
  /\ \A k \in Upload :
       staged'[k] = staged[k] \/ staged'[k] = "none" \/ (staged'[k] = "deleting" /\ staged[k] # "none")
  /\ queue' \subseteq queue
  /\ \A k \in Upload :
       k \in queue \ queue' \/ (staged[k] # "none" /\ staged'[k] = "none")
         => k \in Referenced \cup queue' \/ (k \notin bucket' /\ put[k] = "landed")

\* Clean-up that only removes unreferenced objects keeps the references whole.
LEMMA KeyCleans ==
  ASSUME TypeInv, KeyInv, Cleans
  PROVE  /\ PutOrder' /\ Ready' /\ ReferencesPublished' /\ NoDanglingRevision' /\ ObjectsTracked'
         /\ Referenced' = Referenced
         /\ \A k \in Upload : Discarded(k) => Discarded(k)'
<1>1. Live' = Live /\ Referenced' = Referenced /\ Published' = Published
  BY SameReferences DEF Cleans, runs
<1>2. PutOrder'
  BY <1>1 DEF Cleans, runs, KeyInv, PutOrder
<1>3. Ready'
  BY <1>1 DEF Cleans, runs, KeyInv, Ready
<1>4. ReferencesPublished'
  BY <1>1 DEF Cleans, runs, KeyInv, ReferencesPublished
<1>5. NoDanglingRevision'
  BY <1>1, PublishedFacts DEF Cleans, KeyInv, NoDanglingRevision
<1>6. ObjectsTracked'
  BY <1>1 DEF Cleans, runs, KeyInv, ObjectsTracked
<1>7. \A k \in Upload : Discarded(k) => Discarded(k)'
  BY <1>1 DEF Cleans, runs, Discarded, Past
<1>8. QED
  BY <1>1, <1>2, <1>3, <1>4, <1>5, <1>6, <1>7

\* The runs a clean-up step leaves alone stay in order.
LEMMA OtherSweeps ==
  ASSUME TypeInv, KeyInv, Cleans, NEW s \in Sweeper, sweep'[s] = sweep[s]
  PROVE  /\ \A k \in sweep'[s].keys : Discarded(k)'
         /\ sweep'[s].unused \subseteq sweep'[s].keys
         /\ sweep'[s].step = "delete" => sweep'[s].unused = sweep'[s].keys
         /\ sweep'[s].step \in {"leases", "dequeue"} => sweep'[s].keys \cap bucket' = {}
<1>1. sweep[s].keys \subseteq Upload
  BY SweepFacts DEF SweepRun
<1>2. QED
  BY <1>1, KeyCleans DEF KeyInv, SweepsDiscarded, Cleans

\* Keys that stay queued stay discarded.
LEMMA QueueCleaned ==
  ASSUME TypeInv, KeyInv, Cleans
  PROVE  \A k \in queue' : Discarded(k)'
BY KeyCleans DEF KeyInv, SweepsDiscarded, Cleans, TypeInv, TypeOK

\* Clean-up by others keeps what the claim relies on.
LEMMA OtherClaim ==
  ASSUME TypeInv, KeyInv, Cleans, claim' = claim
  PROVE  ClaimsDiscarded'
<1>1. claim.keys \subseteq Upload /\ claim.finished \subseteq Upload
  BY ClaimFacts DEF ClaimRun
<1>2. \A k \in claim.keys : staged'[k] # "pending" /\ pc'[k] \notin {"idle", "begun"}
  BY <1>1 DEF KeyInv, ClaimsDiscarded, Cleans
<1>3. \A k \in claim.visible : put'[k] = "landed" /\ k \notin Referenced'
  BY KeyCleans DEF KeyInv, ClaimsDiscarded, Cleans, runs
<1>4. \A k \in claim.finished : k \in Referenced' \cup queue' \/ (k \notin bucket' /\ put'[k] = "landed")
  BY <1>1, KeyCleans DEF KeyInv, ClaimsDiscarded, Cleans, runs
<1>5. claim.step = "look" => \A k \in claim.keys \ claim.finished : k \notin Referenced'
  BY KeyCleans DEF KeyInv, ClaimsDiscarded
<1>6. QED
  BY <1>2, <1>3, <1>4, <1>5 DEF KeyInv, ClaimsDiscarded

\* The drain takes keys that are queued.
LEMMA KeyDrainQueue == ASSUME TypeInv, KeyInv, DrainQueue PROVE KeyInv'
<1> DEFINE run == [step |-> "check", keys |-> queue, unused |-> {}]
<1>1. sweep' = [sweep EXCEPT ![Maintenance] = run] /\ Maintenance \in Sweeper
      /\ UNCHANGED <<runs, pc, queue, staged, bucket, claim>>
  BY DEF DrainQueue, Sweeper, runs, d1, r2, attempts
<1>2. Cleans
  BY <1>1 DEF Cleans
<1>3. \A k \in queue : Discarded(k)'
  BY <1>1, <1>2, QueueCleaned
<1>4. SweepsDiscarded'
  BY <1>1, <1>2, <1>3, SweepFacts, OtherSweeps DEF SweepsDiscarded
<1>5. QED
  BY <1>1, <1>2, <1>4, KeyCleans, OtherClaim DEF KeyInv

\* What is queued or discarded is not referenced, so all of it is deleted.
LEMMA KeySweepCheck == ASSUME TypeInv, KeyInv, NEW s \in Sweeper, SweepCheck(s) PROVE KeyInv'
<1>1. UNCHANGED <<runs, pc, queue, staged, bucket, claim>>
  BY DEF SweepCheck, runs, d1, r2, attempts
<1>2. Cleans
  BY <1>1 DEF Cleans
<1>3. sweep[s] \in SweepRun /\ \A k \in sweep[s].keys : Discarded(k)
  BY SweepFacts DEF KeyInv, SweepsDiscarded
<1>4. sweep[s].keys \ Referenced = sweep[s].keys
  BY <1>3 DEF Discarded
<1>5. /\ \A t \in Sweeper \ {s} : sweep'[t] = sweep[t]
      /\ sweep'[s].keys = sweep[s].keys /\ sweep'[s].unused = sweep[s].keys
      /\ sweep'[s].step = IF sweep[s].keys = {} THEN "leases" ELSE "delete"
  BY <1>3, <1>4, SweepFacts DEF SweepCheck, SweepRun
<1>6. \A k \in sweep'[s].keys : Discarded(k)'
  BY <1>2, <1>3, <1>5, KeyCleans DEF SweepRun
<1>7. SweepsDiscarded'
  BY <1>2, <1>5, <1>6, OtherSweeps, QueueCleaned DEF SweepsDiscarded
<1>8. QED
  BY <1>1, <1>2, <1>7, KeyCleans, OtherClaim DEF KeyInv

\* A sweep deletes only keys found unused, which stay unused.
LEMMA KeySweepDelete == ASSUME TypeInv, KeyInv, NEW s \in Sweeper, SweepDelete(s) PROVE KeyInv'
<1>1. /\ bucket' = bucket \ sweep[s].keys
      /\ UNCHANGED <<runs, pc, queue, staged, claim>>
  BY DEF SweepDelete, runs, d1, attempts, KeyInv, SweepsDiscarded
<1>2. sweep[s] \in SweepRun /\ \A k \in sweep[s].keys : Discarded(k)
  BY SweepFacts DEF KeyInv, SweepsDiscarded
<1>3. Cleans
  BY <1>1, <1>2 DEF Cleans, Discarded, Past
<1>4. /\ \A t \in Sweeper \ {s} : sweep'[t] = sweep[t]
      /\ sweep'[s].keys = sweep[s].keys /\ sweep'[s].unused = {} /\ sweep'[s].step = "leases"
  BY <1>2, SweepFacts DEF SweepDelete, SweepRun
<1>5. \A k \in sweep'[s].keys : Discarded(k)'
  BY <1>2, <1>3, <1>4, KeyCleans DEF SweepRun
<1>6. SweepsDiscarded'
  BY <1>1, <1>3, <1>4, <1>5, OtherSweeps, QueueCleaned DEF SweepsDiscarded
<1>7. QED
  BY <1>1, <1>3, <1>6, KeyCleans, OtherClaim DEF KeyInv

\* Only now, with the objects gone and no put to come, the leases go ...
LEMMA KeySweepLeases == ASSUME TypeInv, KeyInv, NEW s \in Sweeper, SweepLeases(s) PROVE KeyInv'
<1>1. /\ \A k \in Upload : staged'[k] = IF k \in sweep[s].keys THEN "none" ELSE staged[k]
      /\ UNCHANGED <<runs, pc, queue, bucket, claim>>
  BY DEF SweepLeases, DropLeases, runs, r2, attempts
<1>2. /\ sweep[s] \in SweepRun /\ sweep[s].keys \cap bucket = {}
      /\ \A k \in sweep[s].keys : Discarded(k)
  BY SweepFacts DEF SweepLeases, KeyInv, SweepsDiscarded
<1>3. Cleans
  BY <1>1, <1>2 DEF Cleans, Discarded
<1>4. /\ \A t \in Sweeper \ {s} : sweep'[t] = sweep[t]
      /\ sweep'[s].keys = sweep[s].keys /\ sweep'[s].unused = sweep[s].unused /\ sweep'[s].step = "dequeue"
  BY <1>2, SweepFacts DEF SweepLeases, SweepRun
<1>5. \A k \in sweep'[s].keys : Discarded(k)'
  BY <1>2, <1>3, <1>4, KeyCleans DEF SweepRun
<1>6. SweepsDiscarded'
  BY <1>1, <1>2, <1>3, <1>4, <1>5, OtherSweeps, QueueCleaned DEF SweepsDiscarded, KeyInv
<1>7. QED
  BY <1>1, <1>3, <1>6, KeyCleans, OtherClaim DEF KeyInv

\* What the end of a sweep changes.
LEMMA EndSweepFacts ==
  ASSUME TypeInv, NEW s \in Sweeper, sweep[s].step # "idle", EndSweep(s)
  PROVE  /\ \A k \in Upload : pc'[k] = pc[k] \/ (pc[k] = "sweeping" /\ pc'[k] = "answered")
         /\ \A t \in Sweeper \ {s} : sweep'[t] = sweep[t]
         /\ sweep'[s] = Idle
BY SweepFacts DEF EndSweep, SweepersPast, Sweeper

\* ... and then the queue rows.
LEMMA KeySweepDequeue == ASSUME TypeInv, KeyInv, NEW s \in Sweeper, SweepDequeue(s) PROVE KeyInv'
<1>1. /\ queue' = queue \ sweep[s].keys /\ EndSweep(s) /\ sweep[s].step = "dequeue"
      /\ UNCHANGED <<runs, staged, bucket, claim>>
  BY DEF SweepDequeue, runs, r2
<1>2. /\ sweep[s].keys \cap bucket = {} /\ \A k \in sweep[s].keys : Discarded(k)
  BY <1>1 DEF KeyInv, SweepsDiscarded
<1>3. Cleans
  BY <1>1, <1>2, EndSweepFacts DEF Cleans, Discarded
<1>4. SweepsDiscarded'
  BY <1>1, <1>3, EndSweepFacts, OtherSweeps, QueueCleaned DEF SweepsDiscarded, Idle
<1>5. QED
  BY <1>1, <1>3, <1>4, KeyCleans, OtherClaim DEF KeyInv

\* A sweep that fails leaves its keys queued or leased.
LEMMA KeySweepFails == ASSUME TypeInv, KeyInv, NEW s \in Sweeper, SweepFails(s) PROVE KeyInv'
<1>1. /\ EndSweep(s) /\ sweep[s].step # "idle" /\ bucket' \subseteq bucket
      /\ bucket \ bucket' \subseteq sweep[s].keys
      /\ UNCHANGED <<runs, queue, staged, claim>>
  BY DEF SweepFails, runs, d1, KeyInv, SweepsDiscarded
<1>2. \A k \in sweep[s].keys : Discarded(k)
  BY DEF KeyInv, SweepsDiscarded
<1>3. Cleans
  BY <1>1, <1>2, EndSweepFacts DEF Cleans, Discarded, Past
<1>4. SweepsDiscarded'
  BY <1>1, <1>3, EndSweepFacts, OtherSweeps, QueueCleaned DEF SweepsDiscarded, Idle
<1>5. QED
  BY <1>1, <1>3, <1>4, KeyCleans, OtherClaim DEF KeyInv

\* A version that expires is in no other place, so its key is discarded.
LEMMA KeyExpireVersions == ASSUME TypeInv, KeyInv, ExpireVersions PROVE KeyInv'
<1>1. /\ queue' = queue \cup expired /\ versions' = versions \ expired
      /\ UNCHANGED <<files, changelog, put, job, pc, staged, bucket, sweep, claim>>
  BY DEF ExpireVersions, r2, attempts
<1>2. expired \subseteq versions /\ versions \subseteq Published /\ versions \subseteq Upload /\ Live \cap versions = {}
  BY DEF KeyInv, ReferencesPublished, TypeInv, TypeOK
<1>3. Live' = Live /\ Published' = Published
  BY <1>1 DEF Live, Published
<1>4. Referenced' = Referenced \ expired /\ Referenced' \cup queue' = Referenced \cup queue
  BY <1>1, <1>2, <1>3 DEF Referenced
<1>5. PutOrder' /\ Ready' /\ ReferencesPublished'
  BY <1>1, <1>2, <1>3 DEF KeyInv, PutOrder, Ready, ReferencesPublished
<1>6. \A k : Discarded(k) => Discarded(k)'
  BY <1>1, <1>4 DEF Discarded
<1>7. \A k \in expired : Discarded(k)'
  BY <1>1, <1>2, <1>4, PublishedFacts DEF Discarded, Past, PublishedAnswered, KeyInv, PutOrder
<1>8. SweepsDiscarded'
  BY <1>1, <1>6, <1>7 DEF KeyInv, SweepsDiscarded
<1>9. ClaimsDiscarded'
  BY <1>1, <1>4 DEF KeyInv, ClaimsDiscarded
<1>10. NoDanglingRevision' /\ ObjectsTracked'
  BY <1>1, <1>4 DEF KeyInv, NoDanglingRevision, ObjectsTracked
<1>11. QED
  BY <1>5, <1>8, <1>9, <1>10 DEF KeyInv

\* The sweeps' keys stay discarded while the sweeps stand still.
LEMMA SameSweeps == ASSUME TypeInv, KeyInv, Cleans, sweep' = sweep PROVE SweepsDiscarded'
BY OtherSweeps, QueueCleaned DEF SweepsDiscarded

\* A claim is made of leases whose attempts have started and cannot publish again.
LEMMA KeyClaimLeases == ASSUME TypeInv, KeyInv, ClaimLeases PROVE KeyInv'
<1> DEFINE due == {k \in Upload : staged[k] # "none" /\ age[k] \in {"due", "expired"}}
<1>1. /\ staged' = [k \in Upload |-> IF k \in due THEN "deleting" ELSE staged[k]]
      /\ claim' = [NoClaim EXCEPT !.step = "check", !.keys = due]
      /\ UNCHANGED <<runs, pc, queue, bucket, sweep>>
  BY DEF ClaimLeases, runs, r2, attempts
<1>2. Cleans
  BY <1>1 DEF Cleans
<1>3. claim'.step = "check" /\ claim'.keys = due /\ claim'.visible = {} /\ claim'.finished = {}
  BY <1>1 DEF NoClaim
<1>4. \A k \in due : staged'[k] # "pending" /\ pc'[k] \notin {"idle", "begun"}
  BY <1>1 DEF KeyInv, PutOrder
<1>5. ClaimsDiscarded'
  BY <1>3, <1>4 DEF ClaimsDiscarded
<1>6. QED
  BY <1>1, <1>2, <1>5, KeyCleans, SameSweeps DEF KeyInv

\* A claim remembers which keys it found referenced; the others stay unreferenced.
LEMMA KeyClaimCheck == ASSUME TypeInv, KeyInv, ClaimCheck PROVE KeyInv'
<1>1. UNCHANGED <<runs, pc, staged, queue, bucket, sweep>>
  BY DEF ClaimCheck, runs, d1, r2, attempts
<1>2. Cleans
  BY <1>1 DEF Cleans
<1>3. /\ claim'.keys = claim.keys /\ claim'.visible = claim.visible
      /\ claim'.finished = claim.keys \cap Referenced
  BY ClaimFacts DEF ClaimCheck, ClaimRun
<1>4. ClaimsDiscarded'
  BY <1>1, <1>2, <1>3, KeyCleans DEF KeyInv, ClaimsDiscarded, runs
<1>5. QED
  BY <1>1, <1>2, <1>4, KeyCleans, SameSweeps DEF KeyInv

\* The objects it finds have landed and are not referenced.
LEMMA KeyClaimLook == ASSUME TypeInv, KeyInv, ClaimLook PROVE KeyInv'
<1>1. PICK visible \in SUBSET ((claim.keys \ claim.finished) \cap bucket) :
        claim' = [claim EXCEPT !.step = "delete", !.visible = visible]
  BY DEF ClaimLook
<1>2. claim.step = "look" /\ UNCHANGED <<runs, pc, staged, queue, bucket, sweep>>
  BY DEF ClaimLook, runs, d1, r2, attempts
<1>3. Cleans
  BY <1>2 DEF Cleans
<1>4. /\ claim'.keys = claim.keys /\ claim'.visible = visible
      /\ claim'.finished = claim.finished /\ claim'.step = "delete"
  BY <1>1, ClaimFacts DEF ClaimRun
<1>5. \A k \in visible : put'[k] = "landed" /\ k \notin Referenced'
  BY <1>1, <1>2, <1>3, ClaimFacts, KeyCleans DEF runs, KeyInv, PutOrder, ClaimsDiscarded
<1>6. ClaimsDiscarded'
  BY <1>2, <1>3, <1>4, <1>5, KeyCleans DEF KeyInv, ClaimsDiscarded, runs
<1>7. QED
  BY <1>2, <1>3, <1>6, KeyCleans, SameSweeps DEF KeyInv

\* A claim deletes only objects whose claimed lease bars publication.
LEMMA KeyClaimDelete == ASSUME TypeInv, KeyInv, ClaimDelete PROVE KeyInv'
<1>1. /\ bucket' \subseteq bucket /\ bucket \ bucket' \subseteq claim.visible
      /\ UNCHANGED <<runs, pc, staged, queue, sweep>>
  BY DEF ClaimDelete, runs, d1, attempts
<1>2. /\ claim'.step = "finish" /\ claim'.keys = claim.keys /\ claim'.visible = claim.visible
      /\ \A k \in claim'.finished : k \in claim.finished \/ (k \in claim.visible /\ k \notin bucket')
  BY ClaimFacts DEF ClaimDelete, ClaimRun
<1>3. /\ claim.visible \subseteq claim.keys
      /\ \A k \in claim.visible : put[k] = "landed" /\ k \notin Referenced /\ staged[k] # "pending"
  BY DEF KeyInv, ClaimsDiscarded
<1>4. Cleans
  BY <1>1, <1>3 DEF Cleans
<1>5. Referenced' = Referenced
  BY <1>4, KeyCleans
<1>6. \A k \in claim'.finished : k \in Referenced' \cup queue' \/ (k \notin bucket' /\ put'[k] = "landed")
  BY <1>1, <1>2, <1>3, <1>5 DEF runs, KeyInv, ClaimsDiscarded
<1>7. ClaimsDiscarded'
  BY <1>1, <1>2, <1>3, <1>5, <1>6 DEF runs, KeyInv, ClaimsDiscarded
<1>8. QED
  BY <1>1, <1>4, <1>7, KeyCleans, SameSweeps DEF KeyInv

\* A finished claim drops leases of keys that are safe.
LEMMA KeyClaimFinish == ASSUME TypeInv, KeyInv, ClaimFinish PROVE KeyInv'
<1>1. /\ staged' = [k \in Upload |-> IF k \in claim.finished THEN "none" ELSE staged[k]]
      /\ claim' = NoClaim
      /\ UNCHANGED <<runs, pc, queue, bucket, sweep>>
  BY DEF ClaimFinish, runs, r2, attempts
<1>2. Cleans
  BY <1>1 DEF Cleans, KeyInv, ClaimsDiscarded
<1>3. ClaimsDiscarded'
  BY <1>1 DEF ClaimsDiscarded, NoClaim
<1>4. QED
  BY <1>1, <1>2, <1>3, KeyCleans, SameSweeps DEF KeyInv

\* A claim that fails keeps its leases.
LEMMA KeyClaimFails == ASSUME TypeInv, KeyInv, ClaimFails PROVE KeyInv'
<1>1. claim' = NoClaim /\ UNCHANGED <<runs, pc, staged, queue, bucket, sweep>>
  BY DEF ClaimFails, runs, d1, r2, attempts
<1>2. Cleans
  BY <1>1 DEF Cleans
<1>3. ClaimsDiscarded'
  BY <1>1 DEF ClaimsDiscarded, NoClaim
<1>4. QED
  BY <1>1, <1>2, <1>3, KeyCleans, SameSweeps DEF KeyInv

\* Every step keeps KeyInv.
LEMMA KeyStep == TypeInv /\ KeyInv /\ [Next]_vars => KeyInv'
<1> SUFFICES ASSUME TypeInv, KeyInv, [Next]_vars PROVE KeyInv'
  OBVIOUS
<1> USE DEF stores, d1, r2, attempts
<1>1. ASSUME NEW r, Submit(r) PROVE KeyInv'
  BY <1>1, KeyQuiet DEF Submit
<1>2. ASSUME MoveClock PROVE KeyInv'
  BY <1>2, KeyQuiet DEF MoveClock
<1>3. ASSUME NEW k \in Upload, LeaseAges(k) PROVE KeyInv'
  BY <1>3, KeyQuiet DEF LeaseAges
<1>4. ASSUME NEW k \in Upload, VersionAges(k) PROVE KeyInv'
  BY <1>4, KeyQuiet DEF VersionAges
<1>5. ASSUME NEW d \in Deletion, NEW k, LoadDeletion(d, k) PROVE KeyInv'
  BY <1>5, KeyQuiet DEF LoadDeletion
<1>6. ASSUME NEW d \in Deletion, RecheckDeletion(d) PROVE KeyInv'
  BY <1>6, KeyQuiet DEF RecheckDeletion
<1>7. ASSUME PruneReceipts PROVE KeyInv'
  BY <1>7, KeyQuiet DEF PruneReceipts
<1>8. ASSUME NEW a \in Upload, NEW o \in Op, Begin(a, o) PROVE KeyInv'
  BY <1>8, KeyMove, AttemptFacts DEF Begin, Respond
<1>9. ASSUME NEW a \in Upload, NEW r, BeginNote(a, r) PROVE KeyInv'
  BY <1>9, KeyMove, AttemptFacts DEF BeginNote
<1>10. ASSUME NEW a \in Upload, PutReturns(a) PROVE KeyInv'
  BY <1>10, KeyMove DEF PutReturns
<1>11. ASSUME NEW a \in Upload, Fail(a) PROVE KeyInv'
  BY <1>11, KeyMove DEF Fail, Respond
<1>12. ASSUME NEW a \in Upload, Refuse(a) PROVE KeyInv'
  BY <1>12, KeyMove DEF Refuse
<1>13. ASSUME NEW a \in Upload, Abort(a) PROVE KeyInv'
  BY <1>13, KeyMove DEF Abort, Respond
<1>14. ASSUME NEW a \in Upload, Miss(a) PROVE KeyInv'
  BY <1>14, KeyMove DEF Miss
<1>15. ASSUME NEW a \in Upload, ReadReceipt(a) PROVE KeyInv'
  BY <1>15, KeyMove DEF ReadReceipt, Respond
<1>16. ASSUME NEW a \in Upload, ReadNames(a) \/ ReadRow(a) \/ ReadBytes(a) PROVE KeyInv'
  BY <1>16, KeyMove DEF ReadNames, ReadRow, ReadBytes, Respond
<1>17. ASSUME NEW a \in Upload, Stage(a) \/ PutLands(a) \/ Publish(a) \/ QueueDiscard(a) PROVE KeyInv'
  BY <1>17, KeyStage, KeyPutLands, KeyPublish, KeyQueueDiscard
<1>18. ASSUME NEW d \in Deletion, CommitDeletion(d) PROVE KeyInv'
  BY <1>18, KeyCommitDeletion
<1>19. ASSUME NEW s \in Sweeper, Sweep(s) PROVE KeyInv'
  BY <1>19, KeySweepCheck, KeySweepDelete, KeySweepLeases, KeySweepDequeue, KeySweepFails DEF Sweep
<1>20. ASSUME DrainQueue \/ ExpireVersions PROVE KeyInv'
  BY <1>20, KeyDrainQueue, KeyExpireVersions
<1>21. ASSUME ClaimLeases \/ ClaimCheck \/ ClaimLook \/ ClaimDelete \/ ClaimFinish \/ ClaimFails PROVE KeyInv'
  BY <1>21, KeyClaimLeases, KeyClaimCheck, KeyClaimLook, KeyClaimDelete, KeyClaimFinish, KeyClaimFails
<1>22. CASE UNCHANGED vars
  BY <1>22, KeyQuiet DEF vars
<1>23. QED
  BY <1>1, <1>2, <1>3, <1>4, <1>5, <1>6, <1>7, <1>8, <1>9, <1>10, <1>11, <1>12, <1>13, <1>14,
     <1>15, <1>16, <1>17, <1>18, <1>19, <1>20, <1>21, <1>22
     DEF Next, Client, Attempt, Delete, Maintain, Environment

\* KeyInv holds in every reachable state.
LEMMA KeyInvariant == Spec => []KeyInv
<1>1. QED
  BY KeyInit, KeyStep, TypeInvariant, PTL DEF Spec

(* Every live or retained revision has its object, whatever crashes, retries,  *)
(* late puts, expired leases and concurrent clean-up do (commitStagedFile,     *)
(* deleteQueuedBucketObjects and cleanStagedUploads together).                 *)
THEOREM NoDanglingRevisions == Spec => []NoDanglingRevision
<1>1. KeyInv => NoDanglingRevision
  BY DEF KeyInv
<1>2. QED
  BY <1>1, KeyInvariant, PTL

(* Every object, stored or still on its way, is referenced, leased or queued:  *)
(* no crash or failed call leaves one that clean-up does not know of.          *)
THEOREM AllObjectsTracked == Spec => []ObjectsTracked
<1>1. KeyInv => ObjectsTracked
  BY DEF KeyInv
<1>2. QED
  BY <1>1, KeyInvariant, PTL

=============================================================================
