--------------------------- MODULE SyncQueueProofs ---------------------------
(* Why the queue forgets no change, and why a rename is not refused.            *)
(*                                                                              *)
(* For every path the key that says what its file is now (KeyFor) is followed   *)
(* from the event to the baseline: queued, in flight, planned by the work under *)
(* way, being sent, or to be settled by what a sync or a verification has read. *)
(* Later says that a newer event makes all of these harmless, because a         *)
(* settlement compares revisions.                                               *)
(*                                                                              *)
(* The server has of each path the baseline or a journalled upload (ServerInv): *)
(* so a name that differs in case is in the way of a flush only if its delete   *)
(* failed, or if something came after the flush looked (NamesInv).              *)
EXTENDS SyncQueue, SequenceTheorems, TLAPS

-----------------------------------------------------------------------------
(* Keys, events and the operations of the queue. *)

(* What each variable holds. *)
Event == Key \cup {e \in {"rename"} \X Path \X Path : e[2] # e[3]}

Revisions == [Key -> Nat]

PendingSet == [queued : SUBSET Key, inFlight : SUBSET Key, revision : Revisions, next : Nat]

Run == [kind : {"none", "flush", "reconcile", "sync", "startup"},
        pc : {"idle", "recover", "scan", "clearing", "uploading", "deleting", "saving", "applying"},
        batch : SUBSET Key, revisions : Revisions, todo : SUBSET Path, listed : SUBSET Path,
        looks : BOOLEAN, uploads : SUBSET Path, remote : [Path -> Content],
        expect : [Path -> Content], sending : SUBSET Path, failed : SUBSET Path,
        failing : BOOLEAN, terminal : BOOLEAN, denied : BOOLEAN, clash : BOOLEAN,
        conflicts : SUBSET Key, tries : [Path -> Nat], settled : SUBSET Key,
        touched : SUBSET Path, seen : Int]

Verified == [todo : SUBSET Key, revisions : Revisions, active : BOOLEAN,
             matches : SUBSET (Key \X Content)]

Report == [terminal : BOOLEAN, conflicts : SUBSET Key, batch : SUBSET Key, revisions : Revisions,
           released : {TRUE}]

Applied == [paths : SUBSET Path, revisions : Revisions,
            kind : {"none", "flush", "reconcile", "sync", "startup"}]

Entry == [hash : Content, expected : Content, landed : BOOLEAN]

LEMMA KeyFacts ==
  /\ \A p \in Path : /\ Upload(p) \in Key /\ Delete(p) \in Key
                     /\ Upload(p)[1] = "upload" /\ Delete(p)[1] = "delete"
                     /\ Upload(p)[2] = p /\ Delete(p)[2] = p
                     /\ Opposite(Upload(p)) = Delete(p) /\ Opposite(Delete(p)) = Upload(p)
  /\ \A p, q \in Path : /\ Upload(p) # Delete(q) /\ Delete(q) # Upload(p)
                        /\ Upload(p) = Upload(q) <=> p = q
                        /\ Delete(p) = Delete(q) <=> p = q
  /\ \A k \in Key : /\ k[2] \in Path /\ (k = Upload(k[2]) \/ k = Delete(k[2]))
                    /\ Opposite(k) \in Key /\ Opposite(k)[2] = k[2]
                    /\ Opposite(k) # k /\ Opposite(Opposite(k)) = k
<1>1. \A p : Upload(p)[1] = "upload" /\ Delete(p)[1] = "delete" /\ Upload(p)[2] = p /\ Delete(p)[2] = p
  BY DEF Upload, Delete
<1>2. \A p \in Path : Upload(p) \in Key /\ Delete(p) \in Key
  BY DEF Upload, Delete, Key
<1>3. \A p \in Path : Opposite(Upload(p)) = Delete(p) /\ Opposite(Delete(p)) = Upload(p)
  BY <1>1 DEF Opposite
<1>4. \A p, q \in Path : /\ Upload(p) # Delete(q) /\ Delete(q) # Upload(p)
                         /\ Upload(p) = Upload(q) <=> p = q
                         /\ Delete(p) = Delete(q) <=> p = q
  BY <1>1
<1>5. \A k \in Key : k[2] \in Path /\ (k = Upload(k[2]) \/ k = Delete(k[2]))
  BY DEF Key, Upload, Delete
<1>6. \A k \in Key : /\ Opposite(k) \in Key /\ Opposite(k)[2] = k[2]
                     /\ Opposite(k) # k /\ Opposite(Opposite(k)) = k
  BY <1>1, <1>2, <1>3, <1>4, <1>5
<1> QED BY <1>1, <1>2, <1>3, <1>4, <1>5, <1>6

(* The keys an event becomes. *)
KeysIn(e) == IF e[1] = "rename" THEN {Delete(e[2]), Upload(e[3])} ELSE {e}

LEMMA EventFacts ==
  /\ \A k \in Key : k \in Event /\ k[1] # "rename" /\ KeysIn(k) = {k}
  /\ \A p, q \in Path : p # q => <<"rename", p, q>> \in Event
  /\ \A e \in Event : \/ e \in Key /\ e[1] # "rename"
                      \/ e[1] = "rename" /\ e[2] \in Path /\ e[3] \in Path /\ e[2] # e[3]
  /\ \A e \in Event : KeysIn(e) \subseteq Key /\ \A k \in KeysIn(e) : Opposite(k) \notin KeysIn(e)
<1>1. \A k \in Key : k[1] # "rename"
  BY DEF Key
<1>2. \A k \in Key : k \in Event /\ KeysIn(k) = {k}
  BY <1>1 DEF KeysIn, Event
<1>3. \A p, q \in Path : p # q => <<"rename", p, q>> \in Event
  <2> SUFFICES ASSUME NEW p \in Path, NEW q \in Path, p # q PROVE <<"rename", p, q>> \in Event
    OBVIOUS
  <2>1. <<"rename", p, q>> \in {"rename"} \X Path \X Path
    OBVIOUS
  <2> QED BY <2>1 DEF Event
<1>4. \A e \in Event : \/ e \in Key /\ e[1] # "rename"
                       \/ e[1] = "rename" /\ e[2] \in Path /\ e[3] \in Path /\ e[2] # e[3]
  BY <1>1 DEF Event
<1>5. \A e \in Event : KeysIn(e) \subseteq Key /\ \A k \in KeysIn(e) : Opposite(k) \notin KeysIn(e)
  BY <1>2, <1>4, KeyFacts DEF KeysIn
<1> QED BY <1>1, <1>2, <1>3, <1>4, <1>5

LEMMA AddFacts ==
  ASSUME NEW s \in PendingSet, NEW k \in Key
  PROVE  /\ Add(s, k) \in PendingSet
         /\ Add(s, k).queued = (s.queued \ {Opposite(k)}) \cup {k}
         /\ Add(s, k).inFlight = s.inFlight /\ Add(s, k).next = s.next + 1
         /\ Add(s, k).revision[k] = s.next + 1
         /\ Add(s, k).revision[Opposite(k)] = 0
         /\ \A l \in Key : l # k /\ l # Opposite(k) => Add(s, k).revision[l] = s.revision[l]
<1>1. Opposite(k) \in Key /\ Opposite(k) # k
  BY KeyFacts
<1> DEFINE r == [s.revision EXCEPT ![Opposite(k)] = 0, ![k] = s.next + 1]
<1>2. Add(s, k) = [s EXCEPT !.queued = (s.queued \ {Opposite(k)}) \cup {k}, !.revision = r,
                            !.next = s.next + 1]
  BY DEF Add
<1>3. r \in Revisions /\ r[k] = s.next + 1 /\ r[Opposite(k)] = 0
        /\ \A l \in Key : l # k /\ l # Opposite(k) => r[l] = s.revision[l]
  BY <1>1 DEF PendingSet, Revisions
<1> HIDE DEF r
<1>4. /\ Add(s, k) \in PendingSet
      /\ Add(s, k).queued = (s.queued \ {Opposite(k)}) \cup {k}
      /\ Add(s, k).inFlight = s.inFlight /\ Add(s, k).next = s.next + 1
      /\ Add(s, k).revision = r
  <2>1. (s.queued \ {Opposite(k)}) \cup {k} \in SUBSET Key /\ s.next + 1 \in Nat
    BY DEF PendingSet
  <2> DEFINE q == (s.queued \ {Opposite(k)}) \cup {k}
             n == s.next + 1
  <2>2. q \in SUBSET Key /\ n \in Nat /\ Add(s, k) = [s EXCEPT !.queued = q, !.revision = r, !.next = n]
    BY <1>2, <2>1
  <2> HIDE DEF q, n
  <2>3. /\ Add(s, k) \in PendingSet /\ Add(s, k).queued = q /\ Add(s, k).inFlight = s.inFlight
        /\ Add(s, k).next = n /\ Add(s, k).revision = r
    BY <1>3, <2>2 DEF PendingSet
  <2> QED BY <2>3 DEF q, n
<1> QED BY <1>3, <1>4

LEMMA RestoreFacts ==
  ASSUME NEW s \in PendingSet, NEW keys \in SUBSET Key, s.queued = {}
  PROVE  /\ Restore(s, keys) \in PendingSet
         /\ Restore(s, keys).queued = keys
         /\ Restore(s, keys).inFlight = s.inFlight /\ Restore(s, keys).next = s.next + 1
         /\ \A k \in Key : Restore(s, keys).revision[k]
                             = IF k \in keys THEN s.next + 1 ELSE s.revision[k]
<1> DEFINE r == [k \in Key |-> IF k \in keys THEN s.next + 1 ELSE s.revision[k]]
<1>1. {k \in keys : {k, Opposite(k)} \cap s.queued = {}} = keys
  OBVIOUS
<1>2. Restore(s, keys) = [s EXCEPT !.queued = s.queued \cup keys, !.next = s.next + 1, !.revision = r]
  BY <1>1 DEF Restore
<1>3. r \in Revisions /\ \A k \in Key : r[k] = IF k \in keys THEN s.next + 1 ELSE s.revision[k]
  BY DEF PendingSet, Revisions
<1> HIDE DEF r
<1> QED BY <1>2, <1>3 DEF PendingSet

\* The pending set t is s without some of the keys that did not change since the snapshot.
SettledFrom(t, s, keys, snapshot) ==
  /\ t \in PendingSet /\ t.inFlight = s.inFlight /\ t.next = s.next
  /\ t.queued \subseteq s.queued
  /\ \A k \in Key :
       \/ /\ k \in s.queued => k \in t.queued
          /\ t.revision[k] = s.revision[k]
       \/ /\ k \in keys /\ s.revision[k] = snapshot[k]
          /\ t.revision[k] = 0 \/ t.revision[k] = s.revision[k]

LEMMA SettleFacts ==
  ASSUME NEW s \in PendingSet, NEW keys \in SUBSET Key, NEW snapshot
  PROVE  SettledFrom(Settle(s, keys, snapshot), s, keys, snapshot)
<1> DEFINE t == Settle(s, keys, snapshot)
           gone == {k \in keys : s.revision[k] = snapshot[k]}
           r == [k \in Key |-> IF k \in gone THEN 0 ELSE s.revision[k]]
<1>1. CASE s.queued = {}
  BY <1>1 DEF Settle, SettledFrom
<1>2. CASE s.queued # {}
  <2>1. t = [s EXCEPT !.queued = s.queued \ gone, !.revision = r]
    BY <1>2 DEF Settle
  <2>2. r \in Revisions /\ \A k \in Key : r[k] = IF k \in gone THEN 0 ELSE s.revision[k]
    BY DEF PendingSet, Revisions
  <2>3. \A k \in Key : k \notin gone \/ (k \in keys /\ s.revision[k] = snapshot[k])
    OBVIOUS
  <2> HIDE DEF r, gone, t
  <2>4. t \in PendingSet /\ t.inFlight = s.inFlight /\ t.next = s.next /\ t.queued = s.queued \ gone
        /\ t.revision = r
    BY <2>1, <2>2 DEF PendingSet
  <2>5. SettledFrom(t, s, keys, snapshot)
    BY <2>2, <2>3, <2>4 DEF SettledFrom
  <2> QED BY <2>5 DEF t
<1> QED BY <1>1, <1>2

\* The pending set t is s without the batch in flight.
ReleasedFrom(t, s, batch) ==
  /\ t \in PendingSet /\ t.queued = s.queued /\ t.inFlight = s.inFlight \ batch /\ t.next = s.next
  /\ \A k \in Key : \/ t.revision[k] = s.revision[k]
                    \/ t.revision[k] = 0 /\ k \notin s.queued

LEMMA ReleaseFacts ==
  ASSUME NEW s \in PendingSet, NEW batch \in SUBSET Key, NEW snapshot
  PROVE  ReleasedFrom(Release(s, batch, snapshot), s, batch)
<1> DEFINE r == [k \in Key |-> IF k \in batch \ s.queued /\ s.revision[k] = snapshot[k] THEN 0
                               ELSE s.revision[k]]
<1>1. Release(s, batch, snapshot) = [s EXCEPT !.inFlight = s.inFlight \ batch, !.revision = r]
  BY DEF Release
<1>2. r \in Revisions /\ \A k \in Key : r[k] = s.revision[k] \/ (r[k] = 0 /\ k \notin s.queued)
  BY DEF PendingSet, Revisions
<1> HIDE DEF r
<1>3. /\ Release(s, batch, snapshot) \in PendingSet
      /\ Release(s, batch, snapshot).queued = s.queued
      /\ Release(s, batch, snapshot).inFlight = s.inFlight \ batch
      /\ Release(s, batch, snapshot).next = s.next
      /\ Release(s, batch, snapshot).revision = r
  BY <1>1, <1>2 DEF PendingSet
<1> QED BY <1>2, <1>3 DEF ReleasedFrom

LEMMA RequeueFacts ==
  ASSUME NEW s \in PendingSet, NEW keys \in SUBSET Key
  PROVE  LET t == [s EXCEPT !.queued = @ \cup keys] IN
         /\ t \in PendingSet /\ t.queued = s.queued \cup keys /\ t.inFlight = s.inFlight
         /\ t.next = s.next /\ t.revision = s.revision
BY DEF PendingSet

-----------------------------------------------------------------------------
(* The types of the variables. *)

FilesTyped == disk \in [Path -> Content] /\ server \in [Path -> Content] /\ base \in [Path -> Content]

CountsTyped ==
  /\ used \in [edits : Nat, foreign : Nat, losses : Nat, stops : Nat]
  /\ used.edits <= MaxEdits /\ used.foreign <= MaxForeign
  /\ made \in 1..(1 + used.edits + used.foreign)

RenamesTyped == renames \in [Path -> Maybe(Path)] /\ \A p \in Path : renames[p] # p

JournalTyped == journal \in [Path -> Maybe(Entry)]

StartupTyped == gate \in {"off", "recording", "open"} /\ recorded \in SUBSET Key /\ owed \in SUBSET Path

QueueTyped == pending \in PendingSet /\ verifying \in SUBSET Key /\ timer \in BOOLEAN

(* No snapshot of the revisions is ahead of the counter. *)
Bounded(revisions) == \A k \in Key : revisions[k] <= pending.next

RevisionsBounded ==
  /\ Bounded(pending.revision) /\ Bounded(work.revisions)
  /\ check # None => Bounded(check.revisions)
  /\ applied # None => Bounded(applied.revisions)

TypeInv ==
  /\ FilesTyped /\ CountsTyped /\ RenamesTyped /\ JournalTyped /\ StartupTyped /\ QueueTyped
  /\ events \in Seq(Event) /\ check \in Maybe(Verified) /\ work \in Run
  /\ reports \in SUBSET Report /\ applied \in Maybe(Applied)
  /\ RevisionsBounded
  /\ work.pc = "uploading" => \A p \in work.sending : journal[p] \in Entry

(* The work under way takes a step: keys are only requeued, and by a flush. *)
WorkGoesOn ==
  /\ work' \in Run /\ work'.kind = work.kind /\ work'.batch = work.batch
  /\ work'.revisions = work.revisions
  /\ pending' \in PendingSet /\ pending.queued \subseteq pending'.queued
  /\ pending'.inFlight = pending.inFlight /\ pending'.revision = pending.revision
  /\ pending'.next = pending.next
  /\ ~Flushing => pending' = pending
  /\ UNCHANGED <<startup, verifying, timer, check, reports, applied>>

LEMMA ContentFacts == 0 \in Content /\ Content \subseteq Nat /\ MaxEdits \in Nat /\ MaxForeign \in Nat
BY BoundAssumption DEF Content

LEMMA SpendFacts ==
  ASSUME CountsTyped, NEW what \in {"losses", "stops"}, Spend(what), made' = made
  PROVE  CountsTyped'
<1>1. /\ used' \in [edits : Nat, foreign : Nat, losses : Nat, stops : Nat]
      /\ used'.edits = used.edits /\ used'.foreign = used.foreign
  BY DEF CountsTyped, Spend
<1> QED BY <1>1 DEF CountsTyped

LEMMA JudgedFacts ==
  ASSUME NEW w \in Run, NEW how
  PROVE  /\ Judged(w, how) \in Run /\ Judged(w, how).kind = w.kind /\ Judged(w, how).pc = w.pc
         /\ Judged(w, how).batch = w.batch /\ Judged(w, how).revisions = w.revisions
         /\ Judged(w, how).todo = w.todo /\ Judged(w, how).listed = w.listed
         /\ Judged(w, how).looks = w.looks /\ Judged(w, how).uploads = w.uploads
         /\ Judged(w, how).expect = w.expect /\ Judged(w, how).sending = w.sending
         /\ Judged(w, how).failed = w.failed /\ Judged(w, how).failing = w.failing
         /\ Judged(w, how).clash = w.clash /\ Judged(w, how).conflicts = w.conflicts
         /\ Judged(w, how).settled = w.settled /\ Judged(w, how).seen = w.seen
<1> DEFINE t == w.terminal \/ (Flushing /\ how \in {"refused", "denied", "namespace"})
           d == w.denied \/ (Flushing /\ how = "denied")
           j == Judged(w, how)
<1>1. t \in BOOLEAN /\ d \in BOOLEAN
  BY DEF Run
<1>2. j = [w EXCEPT !.terminal = t, !.denied = d]
  BY DEF Judged
<1> HIDE DEF t, d, j
<1>3. /\ j \in Run /\ j.kind = w.kind /\ j.pc = w.pc /\ j.batch = w.batch /\ j.revisions = w.revisions
      /\ j.todo = w.todo /\ j.listed = w.listed /\ j.looks = w.looks /\ j.uploads = w.uploads
      /\ j.expect = w.expect /\ j.sending = w.sending /\ j.failed = w.failed
      /\ j.conflicts = w.conflicts /\ j.settled = w.settled /\ j.seen = w.seen
  BY <1>1, <1>2 DEF Run
<1>4. j.failing = w.failing /\ j.clash = w.clash
  BY <1>1, <1>2 DEF Run
<1> QED BY <1>3, <1>4 DEF j

LEMMA FailFacts ==
  ASSUME TypeInv, NEW how, Fail(how), UNCHANGED <<startup, verifying, timer, check, reports, applied>>
  PROVE  /\ WorkGoesOn
         /\ work'.pc = "saving" /\ work'.failing /\ work'.conflicts = {}
         /\ work'.settled = work.settled /\ work'.sending = work.sending /\ work'.todo = work.todo
         /\ work'.uploads = work.uploads /\ work'.expect = work.expect
         /\ work'.failed = work.failed /\ work'.clash = work.clash /\ work'.seen = work.seen
         /\ Flushing => pending'.queued = pending.queued \cup (work.batch \ work.settled)
<1> DEFINE j == Judged(work, how)
<1>1. work' = [j EXCEPT !.pc = "saving", !.failing = TRUE, !.conflicts = {}]
  BY DEF Fail
<1>2. work \in Run /\ pending \in PendingSet
  BY DEF TypeInv, QueueTyped
<1>a. /\ j \in Run /\ j.kind = work.kind /\ j.batch = work.batch /\ j.revisions = work.revisions
      /\ j.settled = work.settled /\ j.sending = work.sending /\ j.todo = work.todo
      /\ j.uploads = work.uploads /\ j.expect = work.expect /\ j.failed = work.failed
      /\ j.clash = work.clash /\ j.seen = work.seen
  BY <1>2, JudgedFacts
<1> HIDE DEF j
<1>3. /\ work' \in Run /\ work'.kind = work.kind /\ work'.batch = work.batch
      /\ work'.revisions = work.revisions /\ work'.pc = "saving" /\ work'.conflicts = {}
      /\ work'.settled = work.settled /\ work'.sending = work.sending /\ work'.todo = work.todo
      /\ work'.uploads = work.uploads /\ work'.expect = work.expect
      /\ work'.failed = work.failed /\ work'.seen = work.seen
  BY <1>1, <1>a DEF Run
<1>b. work'.failing /\ work'.clash = work.clash
  BY <1>1, <1>a DEF Run
<1>4. work.batch \ work.settled \in SUBSET Key
  BY <1>2 DEF Run
<1>5. CASE Flushing
  <2>1. pending' = [pending EXCEPT !.queued = @ \cup (work.batch \ work.settled)]
    BY <1>5 DEF Fail
  <2>2. /\ pending' \in PendingSet /\ pending'.inFlight = pending.inFlight
        /\ pending'.revision = pending.revision /\ pending'.next = pending.next
        /\ pending'.queued = pending.queued \cup (work.batch \ work.settled)
    BY <1>2, <1>4, <2>1, RequeueFacts
  <2> QED BY <1>3, <1>b, <1>5, <2>2 DEF WorkGoesOn
<1>6. CASE ~Flushing
  BY <1>2, <1>3, <1>b, <1>6 DEF Fail, WorkGoesOn
<1> QED BY <1>5, <1>6

\* What routeFailure leaves of the work w when these deletes fail.
DeletesFailed(w, paths, conflict) ==
  /\ work'.pc = w.pc /\ work'.sending = {} /\ work'.todo = {} /\ work'.uploads = w.uploads
  /\ work'.settled = w.settled
  /\ work'.failing = (w.failing \/ (paths # {} /\ (Flushing \/ ~conflict)))
  /\ work'.conflicts = w.conflicts \cup (IF conflict THEN {Delete(p) : p \in paths} ELSE {})
  /\ \A p \in Path : work'.expect[p] = IF p \in w.todo \cup w.sending THEN 0 ELSE w.expect[p]
  /\ Flushing => pending'.queued = pending.queued \cup {Delete(p) : p \in paths}

LEMMA DeletesFailFacts ==
  ASSUME TypeInv, NEW w \in Run, NEW paths \in SUBSET Path, NEW conflict \in BOOLEAN,
         w.kind = work.kind, w.batch = work.batch, w.revisions = work.revisions,
         DeletesFail(w, paths, conflict),
         UNCHANGED <<startup, verifying, timer, check, reports, applied>>
  PROVE  /\ WorkGoesOn
         /\ DeletesFailed(w, paths, conflict)
<1> DEFINE keys == {Delete(p) : p \in paths}
           e == [p \in Path |-> IF p \in w.todo \cup w.sending THEN 0 ELSE w.expect[p]]
           f == w.failing \/ (paths # {} /\ (Flushing \/ ~conflict))
           c == w.conflicts \cup (IF conflict THEN keys ELSE {})
           g == w.failed \cup paths
<1>1. keys \in SUBSET Key
  BY KeyFacts
<1>2. e \in [Path -> Content] /\ \A p \in Path : e[p] = IF p \in w.todo \cup w.sending THEN 0 ELSE w.expect[p]
  BY ContentFacts DEF Run
<1>3. c \in SUBSET Key /\ f \in BOOLEAN /\ g \in SUBSET Path
  BY <1>1 DEF Run
<1>4. work' = [w EXCEPT !.failing = f, !.sending = {}, !.todo = {}, !.failed = g, !.expect = e,
                        !.conflicts = c]
  BY DEF DeletesFail
<1>5. pending \in PendingSet
  BY DEF TypeInv, QueueTyped
<1>6. pending' = IF Flushing THEN [pending EXCEPT !.queued = @ \cup keys] ELSE pending
  BY DEF DeletesFail
<1> HIDE DEF keys, e, f, c, g
<1>7. /\ work' \in Run /\ work'.kind = w.kind /\ work'.batch = w.batch
      /\ work'.revisions = w.revisions /\ work'.pc = w.pc /\ work'.sending = {} /\ work'.todo = {}
      /\ work'.uploads = w.uploads /\ work'.settled = w.settled /\ work'.looks = w.looks
      /\ work'.listed = w.listed /\ work'.expect = e /\ work'.conflicts = c
  BY <1>2, <1>3, <1>4 DEF Run
<1>8. work'.failing = f
  BY <1>4 DEF Run
<1>9. /\ pending' \in PendingSet /\ pending.queued \subseteq pending'.queued
      /\ pending'.inFlight = pending.inFlight /\ pending'.revision = pending.revision
      /\ pending'.next = pending.next /\ (~Flushing => pending' = pending)
      /\ Flushing => pending'.queued = pending.queued \cup keys
  BY <1>1, <1>5, <1>6, RequeueFacts
<1>10. WorkGoesOn
  BY <1>7, <1>9 DEF WorkGoesOn
<1>11. work'.expect = e => \A p \in Path : work'.expect[p] = IF p \in w.todo \cup w.sending THEN 0 ELSE w.expect[p]
  BY <1>2
<1> QED BY <1>7, <1>8, <1>9, <1>10, <1>11 DEF keys, f, c, DeletesFailed

LEMMA UploadFailsFacts ==
  ASSUME TypeInv, NEW p \in Path, NEW how \in {"namespace", "conflict"} \cup Failures, UploadFails(p, how),
         UNCHANGED <<startup, verifying, timer, check, reports, applied>>
  PROVE  LET retry == how = "conflict" /\ ~Flushing IN
         /\ WorkGoesOn
         /\ work'.pc = work.pc /\ work'.todo = work.todo /\ work'.uploads = work.uploads
         /\ work'.sending = work.sending \ {p} /\ work'.settled = work.settled
         /\ work'.looks = work.looks /\ work'.listed = work.listed /\ work'.expect = work.expect
         /\ work'.failing = (work.failing \/ ~retry)
         /\ work'.failed = work.failed \cup {p} /\ work'.seen = work.seen
         /\ work'.clash = (work.clash \/ how = "namespace")
         /\ work'.conflicts = work.conflicts \cup (IF how = "conflict" THEN {Upload(p)} ELSE {})
         /\ Flushing => pending'.queued = pending.queued \cup {Upload(p)}
<1> DEFINE f == work.failing \/ ~(how = "conflict" /\ ~Flushing)
           c == work.conflicts \cup (IF how = "conflict" THEN {Upload(p)} ELSE {})
           s == work.sending \ {p}
           g == work.failed \cup {p}
           t == work.clash \/ how = "namespace"
           j == Judged(work, how)
<1>1. Upload(p) \in Key /\ work \in Run /\ pending \in PendingSet
  BY KeyFacts DEF TypeInv, QueueTyped
<1>2. f \in BOOLEAN /\ c \in SUBSET Key /\ s \in SUBSET Path /\ g \in SUBSET Path /\ t \in BOOLEAN
  BY <1>1 DEF Run
<1>a. /\ j \in Run /\ j.kind = work.kind /\ j.batch = work.batch /\ j.revisions = work.revisions
      /\ j.pc = work.pc /\ j.todo = work.todo /\ j.uploads = work.uploads /\ j.settled = work.settled
      /\ j.looks = work.looks /\ j.listed = work.listed /\ j.expect = work.expect
      /\ j.seen = work.seen
  BY <1>1, JudgedFacts
<1>b. /\ j.sending = work.sending /\ j.failing = work.failing /\ j.failed = work.failed
      /\ j.clash = work.clash /\ j.conflicts = work.conflicts
  BY <1>1, JudgedFacts
<1>c. work' = [j EXCEPT !.sending = j.sending \ {p},
                        !.failing = j.failing \/ ~(how = "conflict" /\ ~Flushing),
                        !.failed = j.failed \cup {p},
                        !.clash = j.clash \/ how = "namespace",
                        !.conflicts = IF how = "conflict" THEN j.conflicts \cup {Upload(p)} ELSE j.conflicts]
  BY DEF UploadFails
<1>d. (IF how = "conflict" THEN work.conflicts \cup {Upload(p)} ELSE work.conflicts) = c
  OBVIOUS
<1>4. pending' = IF Flushing THEN [pending EXCEPT !.queued = @ \cup {Upload(p)}] ELSE pending
  BY DEF UploadFails
<1> HIDE DEF c, j
<1>3. work' = [j EXCEPT !.sending = s, !.failing = f, !.failed = g, !.clash = t, !.conflicts = c]
  BY <1>b, <1>c, <1>d
<1> HIDE DEF f, s, g, t
<1>e. work' \in Run
  BY <1>2, <1>3, <1>a DEF Run
<1>5. /\ work' \in Run /\ work'.kind = work.kind /\ work'.batch = work.batch
      /\ work'.revisions = work.revisions /\ work'.pc = work.pc /\ work'.sending = s /\ work'.todo = work.todo
      /\ work'.uploads = work.uploads /\ work'.settled = work.settled /\ work'.looks = work.looks
      /\ work'.listed = work.listed /\ work'.expect = work.expect /\ work'.conflicts = c
      /\ work'.failed = g /\ work'.seen = work.seen
  BY <1>3, <1>a, <1>e DEF Run
<1>6. work'.failing = f /\ work'.clash = t
  BY <1>2, <1>3, <1>a DEF Run
<1>7. /\ pending' \in PendingSet /\ pending.queued \subseteq pending'.queued
      /\ pending'.inFlight = pending.inFlight /\ pending'.revision = pending.revision
      /\ pending'.next = pending.next /\ (~Flushing => pending' = pending)
      /\ Flushing => pending'.queued = pending.queued \cup {Upload(p)}
  BY <1>1, <1>4, RequeueFacts
<1>8. WorkGoesOn
  BY <1>5, <1>7 DEF WorkGoesOn
<1> QED BY <1>5, <1>6, <1>7, <1>8 DEF f, c, s, g, t

-----------------------------------------------------------------------------
(* What the steps of the work under way do. *)

LEMMA WorkTypes ==
  ASSUME TypeInv, WorkGoesOn, FilesTyped', CountsTyped', RenamesTyped', JournalTyped',
         events' \in Seq(Event),
         work'.pc = "uploading" => \A p \in work'.sending : journal'[p] \in Entry
  PROVE  TypeInv'
<1>1. StartupTyped' /\ QueueTyped' /\ check' \in Maybe(Verified) /\ work' \in Run
      /\ reports' \in SUBSET Report /\ applied' \in Maybe(Applied)
  BY DEF TypeInv, WorkGoesOn, StartupTyped, QueueTyped, startup
<1>2. RevisionsBounded'
  BY DEF TypeInv, WorkGoesOn, RevisionsBounded, Bounded
<1> QED BY <1>1, <1>2 DEF TypeInv

LEMMA NoteFacts ==
  ASSUME TypeInv, NEW p \in Path, NEW c \in Content, NoteSynced(p, c)
  PROVE  /\ base' \in [Path -> Content] /\ base'[p] = c /\ \A q \in Path : q # p => base'[q] = base[q]
         /\ RenamesTyped'
<1>1. base \in [Path -> Content] /\ renames \in [Path -> Maybe(Path)] /\ \A q \in Path : renames[q] # q
  BY DEF TypeInv, FilesTyped, RenamesTyped
<1>2. base' = [base EXCEPT ![p] = c]
  BY DEF NoteSynced
<1>3. renames' \in [Path -> Maybe(Path)] /\ \A q \in Path : renames'[q] \in {renames[q], None}
  BY <1>1 DEF NoteSynced, Maybe
<1>4. RenamesTyped'
  BY <1>1, <1>3, PathAssumption DEF RenamesTyped
<1> QED BY <1>1, <1>2, <1>4

LEMMA EntryFacts ==
  ASSUME TypeInv, NEW p \in Path, journal[p] # None
  PROVE  /\ journal[p] \in Entry /\ journal[p].hash \in Content
         /\ journal[p].expected \in Content /\ journal[p].landed \in BOOLEAN
BY DEF TypeInv, JournalTyped, Maybe, Entry

LEMMA RecoverFacts ==
  ASSUME TypeInv, NEW p \in Path, Recover(p)
  PROVE  /\ TypeInv' /\ WorkGoesOn /\ UNCHANGED <<disk, events, pending, work>>
         /\ work.pc = "recover" /\ journal[p] # None /\ journal'[p] = None
         /\ \A q \in Path : q # p => journal'[q] = journal[q]
         /\ \A q \in Path : base'[q] = base[q] \/ (q = p /\ base'[q] = journal[p].hash)
<1>1. /\ work.pc = "recover" /\ journal[p] # None /\ journal' = [journal EXCEPT ![p] = None]
      /\ UNCHANGED <<disk, made, used, events, pending, work, gate, recorded, owed, verifying, timer,
                     check, reports, applied>>
  BY DEF Recover, vault, startup, queue
<1>2. work \in Run /\ pending \in PendingSet /\ journal \in [Path -> Maybe(Entry)]
      /\ base \in [Path -> Content] /\ server \in [Path -> Content] /\ disk \in [Path -> Content]
  BY DEF TypeInv, QueueTyped, JournalTyped, FilesTyped
<1>3. journal'[p] = None /\ (\A q \in Path : q # p => journal'[q] = journal[q]) /\ JournalTyped'
  BY <1>1, <1>2 DEF JournalTyped, Maybe
<1>4. WorkGoesOn
  BY <1>1, <1>2 DEF WorkGoesOn, startup
<1>5. journal[p].hash \in Content
  BY <1>1, EntryFacts
<1>6. CASE NoteSynced(p, journal[p].hash) /\ server' \in [Path -> Content]
  <2>1. /\ base' \in [Path -> Content] /\ RenamesTyped'
        /\ \A q \in Path : base'[q] = base[q] \/ (q = p /\ base'[q] = journal[p].hash)
    BY <1>5, <1>6, NoteFacts
  <2>2. TypeInv'
    BY <1>1, <1>2, <1>3, <1>4, <1>6, <2>1, WorkTypes DEF TypeInv, FilesTyped, CountsTyped
  <2> QED BY <1>1, <1>3, <1>4, <2>1, <2>2
<1>7. CASE UNCHANGED <<base, renames, server>>
  <2>1. TypeInv'
    BY <1>1, <1>2, <1>3, <1>4, <1>7, WorkTypes DEF TypeInv, FilesTyped, CountsTyped, RenamesTyped
  <2> QED BY <1>1, <1>3, <1>4, <1>7, <2>1
<1>8. (NoteSynced(p, journal[p].hash) /\ server' \in [Path -> Content]) \/ UNCHANGED <<base, renames, server>>
  <2>1. [server EXCEPT ![p] = journal[p].hash] \in [Path -> Content]
    BY <1>2, <1>5
  <2> QED BY <1>2, <2>1 DEF Recover
<1> QED BY <1>6, <1>7, <1>8

\* A step that leaves the files, the baselines and the journal alone.
QuietStep == UNCHANGED <<disk, base, journal, events>>

LEMMA QuietTypes ==
  ASSUME TypeInv, WorkGoesOn, QuietStep, CountsTyped', renames' = renames, server' \in [Path -> Content],
         work'.pc = "uploading" => work'.sending = {} \/ (work.pc = "uploading" /\ work'.sending \subseteq work.sending)
  PROVE  TypeInv'
<1>1. FilesTyped' /\ RenamesTyped' /\ JournalTyped' /\ events' \in Seq(Event)
  BY DEF TypeInv, QuietStep, FilesTyped, RenamesTyped, JournalTyped
<1>2. work'.pc = "uploading" => \A p \in work'.sending : journal'[p] \in Entry
  BY DEF TypeInv, QuietStep
<1> QED BY <1>1, <1>2, WorkTypes

LEMMA FailingFacts ==
  ASSUME TypeInv, NEW how, Fail(how), UNCHANGED <<server, manifest, startup, events, verifying, timer, check, reports, applied>>,
         disk' = disk, CountsTyped'
  PROVE  /\ TypeInv' /\ WorkGoesOn /\ QuietStep
         /\ work'.pc = "saving" /\ work'.failing /\ work'.settled = work.settled
         /\ Flushing => pending'.queued = pending.queued \cup (work.batch \ work.settled)
<1>1. /\ WorkGoesOn
      /\ work'.pc = "saving" /\ work'.failing /\ work'.settled = work.settled
      /\ Flushing => pending'.queued = pending.queued \cup (work.batch \ work.settled)
  BY FailFacts
<1>3. QuietStep /\ renames' = renames /\ server' \in [Path -> Content]
  BY DEF QuietStep, manifest, TypeInv, FilesTyped
<1> QED BY <1>1, <1>3, QuietTypes

LEMMA RecoverFailsFacts ==
  ASSUME TypeInv, RecoverFails
  PROVE  /\ TypeInv' /\ WorkGoesOn /\ QuietStep
         /\ work.pc = "recover" /\ work'.pc = "saving" /\ work'.failing /\ work'.settled = work.settled
         /\ Flushing => pending'.queued = pending.queued \cup (work.batch \ work.settled)
<1>1. CountsTyped'
  BY SpendFacts DEF RecoverFails, TypeInv, vault
<1>2. PICK how \in Failures : Fail(how)
  BY DEF RecoverFails
<1>3. /\ work.pc = "recover" /\ disk' = disk
      /\ UNCHANGED <<server, manifest, startup, events, verifying, timer, check, reports, applied>>
  BY DEF RecoverFails, vault
<1> QED BY <1>1, <1>2, <1>3, FailingFacts

LEMMA ScanFailsFacts ==
  ASSUME TypeInv, ScanFails
  PROVE  /\ TypeInv' /\ WorkGoesOn /\ QuietStep
         /\ work.pc = "scan" /\ work'.pc = "saving" /\ work'.failing /\ work'.settled = work.settled
<1>1. CountsTyped'
  BY SpendFacts DEF ScanFails, TypeInv, vault
<1>2. /\ work.pc = "scan" /\ disk' = disk /\ Fail("lost")
      /\ UNCHANGED <<server, manifest, startup, events, verifying, timer, check, reports, applied>>
  BY DEF ScanFails, vault
<1> QED BY <1>1, <1>2, FailingFacts

LEMMA MissedFacts ==
  ASSUME TypeInv, NEW p \in Path, Missed(p)
  PROVE  /\ TypeInv' /\ WorkGoesOn /\ QuietStep
         /\ work.pc = "scan" /\ p \in work.todo /\ ~work.looks /\ ~(p \in work.listed <=> disk[p] # 0)
         /\ \/ work'.pc = "saving" /\ work'.failing /\ work'.settled = work.settled
            \/ work' = [work EXCEPT !.todo = @ \ {p}]
<1>1. CountsTyped' /\ disk' = disk
  BY DEF Missed, TypeInv, vault, CountsTyped
<1>2. work.pc = "scan" /\ p \in work.todo /\ ~work.looks /\ ~(p \in work.listed <=> disk[p] # 0)
  BY DEF Missed, Found
<1>3. CASE Fail("lost")
  BY <1>1, <1>2, <1>3, FailingFacts DEF Missed
<1>4. CASE work' = [work EXCEPT !.todo = @ \ {p}] /\ UNCHANGED pending
  <2>1. work \in Run /\ pending \in PendingSet
    BY DEF TypeInv, QueueTyped
  <2>2. WorkGoesOn /\ work'.pc = work.pc
    BY <1>4, <2>1 DEF Missed, WorkGoesOn, Run
  <2>3. QuietStep /\ renames' = renames /\ server' \in [Path -> Content]
    BY <1>1 DEF Missed, QuietStep, manifest, TypeInv, FilesTyped
  <2>4. TypeInv'
    BY <1>1, <1>2, <2>2, <2>3, QuietTypes
  <2> QED BY <1>2, <1>4, <2>2, <2>3, <2>4
<1> QED BY <1>3, <1>4 DEF Missed

LEMMA PlanFacts ==
  ASSUME TypeInv, Plan
  PROVE  /\ TypeInv' /\ WorkGoesOn /\ QuietStep /\ pending' = pending
         /\ work.pc = "recover" /\ \A p \in Path : journal[p] = None
         /\ work'.failing = work.failing /\ work'.settled = work.settled
         /\ work'.conflicts = work.conflicts /\ work'.sending = work.sending
         /\ Flushing =>
              /\ work'.pc = "clearing"
              /\ work'.uploads = {p \in Path : Upload(p) \in work.batch}
              /\ \A p \in Path : work'.expect[p] = IF Delete(p) \in work.batch THEN base[p] ELSE 0
              /\ \A p \in work'.todo : work'.expect[p] # 0
         /\ ~Flushing =>
              /\ work'.pc = "scan" /\ work'.looks = (work.kind = "reconcile")
              /\ work'.listed = {p \in Path : disk[p] # 0} /\ work'.todo = work.todo
              /\ work'.uploads = work.uploads /\ work'.expect = work.expect
<1>1. /\ work.pc = "recover" /\ (\A p \in Path : journal[p] = None) /\ QuietStep /\ pending' = pending
      /\ UNCHANGED <<made, used, server, renames, startup, verifying, timer, check, reports, applied>>
  BY DEF Plan, QuietStep, vault, manifest, queue
<1>2. work \in Run /\ pending \in PendingSet /\ base \in [Path -> Content] /\ server \in [Path -> Content]
  BY DEF TypeInv, QueueTyped, FilesTyped
<1>3. CountsTyped'
  BY <1>1 DEF TypeInv, CountsTyped
<1>4. CASE Flushing
  <2> DEFINE u == {p \in Path : Upload(p) \in work.batch}
             e == [p \in Path |-> IF Delete(p) \in work.batch THEN base[p] ELSE 0]
             w == [work EXCEPT !.uploads = u, !.expect = e]
  <2>1. u \in SUBSET Path /\ e \in [Path -> Content]
        /\ \A p \in Path : e[p] = IF Delete(p) \in work.batch THEN base[p] ELSE 0
    BY <1>2, ContentFacts
  <2>2. work' = [w EXCEPT !.pc = "clearing", !.todo = Clearing(w)]
    BY <1>4 DEF Plan
  <2> HIDE DEF u, e
  <2>3. w \in Run /\ w.uploads = u /\ w.expect = e
    BY <1>2, <2>1 DEF Run
  <2>4. Clearing(w) \in SUBSET Path /\ \A p \in Clearing(w) : e[p] # 0
    BY <2>3 DEF Clearing
  <2>5. /\ work' \in Run /\ work'.kind = work.kind /\ work'.batch = work.batch
        /\ work'.revisions = work.revisions /\ work'.failing = work.failing /\ work'.settled = work.settled
        /\ work'.conflicts = work.conflicts /\ work'.sending = work.sending
        /\ work'.pc = "clearing" /\ work'.uploads = u /\ work'.expect = e /\ work'.todo = Clearing(w)
    BY <1>2, <2>1, <2>2, <2>4 DEF Run
  <2>6. WorkGoesOn
    BY <1>1, <1>2, <2>5 DEF WorkGoesOn
  <2>7. TypeInv'
    BY <1>1, <1>2, <1>3, <2>5, <2>6, QuietTypes
  <2> QED BY <1>1, <1>4, <2>1, <2>4, <2>5, <2>6, <2>7 DEF u
<1>5. CASE ~Flushing
  <2> DEFINE l == {p \in Path : disk[p] # 0}
             b == work.kind = "reconcile"
  <2>1. work' = [work EXCEPT !.pc = "scan", !.looks = b, !.listed = l]
    BY <1>5 DEF Plan
  <2>2. l \in SUBSET Path /\ b \in BOOLEAN
    OBVIOUS
  <2> HIDE DEF l, b
  <2>3. /\ work' \in Run /\ work'.kind = work.kind /\ work'.batch = work.batch
        /\ work'.revisions = work.revisions /\ work'.failing = work.failing /\ work'.settled = work.settled
        /\ work'.conflicts = work.conflicts /\ work'.sending = work.sending
        /\ work'.pc = "scan" /\ work'.listed = l /\ work'.todo = work.todo
        /\ work'.uploads = work.uploads /\ work'.expect = work.expect
    BY <1>2, <2>1, <2>2 DEF Run
  <2>4. work'.looks = b
    BY <1>2, <2>1 DEF Run
  <2>5. WorkGoesOn
    BY <1>1, <1>2, <2>3 DEF WorkGoesOn
  <2>6. TypeInv'
    BY <1>1, <1>2, <1>3, <2>3, <2>5, QuietTypes
  <2> QED BY <1>1, <1>5, <2>3, <2>4, <2>5, <2>6 DEF l, b
<1> QED BY <1>4, <1>5

LEMMA KeysOfFacts ==
  ASSUME work \in Run, NEW p \in Path, NEW k \in Key, k[2] = p
  PROVE  KeysOf(p, k) \in SUBSET Key /\ \A l \in KeysOf(p, k) : l[2] = p
BY DEF KeysOf, Run

\* The step of a scan which settles the path p of a file that now equals its baseline.
ScanSettles(p) ==
  /\ work' \in Run /\ work'.pc = work.pc /\ work'.todo = work.todo \ {p}
  /\ work'.uploads = work.uploads /\ work'.expect = work.expect /\ work'.sending = work.sending
  /\ work'.failing = work.failing /\ work'.conflicts = work.conflicts
  /\ work'.looks = work.looks /\ work'.listed = work.listed
  /\ work'.kind = work.kind /\ work'.batch = work.batch /\ work'.revisions = work.revisions
  /\ work.settled \subseteq work'.settled /\ \A k \in work'.settled \ work.settled : k[2] = p

LEMMA ScanSettlesFacts ==
  ASSUME work \in Run, NEW p \in Path, NEW keys \in SUBSET Key, \A k \in keys : k[2] = p,
         NEW touched \in SUBSET Path,
         \/ work' = [work EXCEPT !.todo = @ \ {p}]
         \/ work' = [work EXCEPT !.todo = @ \ {p}, !.settled = @ \cup keys]
         \/ work' = [work EXCEPT !.todo = @ \ {p}, !.settled = @ \cup keys, !.touched = touched]
  PROVE  ScanSettles(p)
<1> DEFINE t == work.todo \ {p}
           s == work.settled \cup keys
<1>1. /\ t \in SUBSET Path /\ s \in SUBSET Key
      /\ \/ work' = [work EXCEPT !.todo = t]
         \/ work' = [work EXCEPT !.todo = t, !.settled = s]
         \/ work' = [work EXCEPT !.todo = t, !.settled = s, !.touched = touched]
  BY DEF Run
<1>2. work.settled \subseteq s /\ \A k \in s \ work.settled : k[2] = p
  OBVIOUS
<1> HIDE DEF t, s
<1>3. /\ work' \in Run /\ work'.pc = work.pc /\ work'.todo = t
      /\ work'.uploads = work.uploads /\ work'.expect = work.expect /\ work'.sending = work.sending
      /\ work'.failing = work.failing /\ work'.conflicts = work.conflicts
      /\ work'.looks = work.looks /\ work'.listed = work.listed
      /\ work'.kind = work.kind /\ work'.batch = work.batch /\ work'.revisions = work.revisions
      /\ work'.settled \in {work.settled, s}
  <2>1. CASE work' = [work EXCEPT !.todo = t]
    BY <1>1, <2>1 DEF Run
  <2>2. CASE work' = [work EXCEPT !.todo = t, !.settled = s]
    BY <1>1, <2>2 DEF Run
  <2>3. CASE work' = [work EXCEPT !.todo = t, !.settled = s, !.touched = touched]
    BY <1>1, <2>3 DEF Run
  <2> QED BY <1>1, <2>1, <2>2, <2>3
<1> QED BY <1>2, <1>3 DEF ScanSettles, t

(* The key that says what the file is now. *)
KeyFor(p) == IF disk[p] # 0 THEN Upload(p) ELSE Delete(p)

LEMMA KeyForFacts ==
  \A p \in Path : KeyFor(p) \in Key /\ KeyFor(p)[2] = p
BY KeyFacts DEF KeyFor

LEMMA NotifyFacts ==
  ASSUME events \in Seq(Event), gate # "off", NEW e \in Event, Notify(e)
  PROVE  events' = Append(events, e) /\ events' \in Seq(Event)
BY DEF Notify

LEMMA ScanFacts ==
  ASSUME TypeInv, gate # "off", NEW p \in Path, Scan(p)
  PROVE  /\ TypeInv' /\ WorkGoesOn /\ UNCHANGED <<journal, pending>>
         /\ work.pc = "scan" /\ p \in work.todo /\ work'.pc = "scan"
         /\ \A q \in Path : q # p => disk'[q] = disk[q] /\ base'[q] = base[q]
         /\ \/ /\ QuietStep /\ disk[p] # 0
               /\ work' = [work EXCEPT !.todo = @ \ {p}, !.uploads = @ \cup {p}, !.remote[p] = server[p]]
            \/ /\ QuietStep
               /\ work' = [work EXCEPT !.todo = @ \ {p}, !.expect[p] = server[p]] /\ server[p] # 0
               /\ server[p] \in Content
            \/ /\ ScanSettles(p) /\ base'[p] = disk'[p]
               /\ \/ UNCHANGED <<disk, events>>
                  \/ events' = Append(events, KeyFor(p)')
<1> DEFINE d == Decision(p)
<1>1. /\ work.pc = "scan" /\ p \in work.todo
      /\ UNCHANGED <<made, used, server, journal, startup, pending, verifying, timer, check, reports, applied>>
  BY DEF Scan, queue
<1>2. /\ work \in Run /\ pending \in PendingSet /\ base \in [Path -> Content] /\ server \in [Path -> Content]
      /\ disk \in [Path -> Content] /\ events \in Seq(Event)
  BY DEF TypeInv, QueueTyped, FilesTyped
<1>3. CountsTyped' /\ JournalTyped' /\ server' \in [Path -> Content]
  BY <1>1, <1>2 DEF TypeInv, CountsTyped, JournalTyped
<1>4. /\ Upload(p) \in Key /\ Delete(p) \in Key /\ Upload(p)[2] = p /\ Delete(p)[2] = p
      /\ <<"upload", p>> = Upload(p) /\ <<"delete", p>> = Delete(p)
      /\ Upload(p) \in Event /\ Delete(p) \in Event
  BY KeyFacts, EventFacts DEF Upload, Delete
<1>a. work.touched \cup {p} \in SUBSET Path /\ work.touched \in SUBSET Path
  BY <1>2 DEF Run
<1>5. CASE d = "upload"
  <2>1. /\ work' = [work EXCEPT !.todo = @ \ {p}, !.uploads = @ \cup {p}, !.remote[p] = server[p]]
        /\ QuietStep /\ renames' = renames
    BY <1>1, <1>5 DEF Scan, QuietStep
  <2>2. disk[p] # 0
    BY <1>5 DEF Decision
  <2>3. /\ work' \in Run /\ work'.kind = work.kind /\ work'.batch = work.batch
        /\ work'.revisions = work.revisions /\ work'.pc = work.pc /\ work'.sending = work.sending
    BY <1>2, <2>1 DEF Run
  <2>4. WorkGoesOn
    BY <1>1, <1>2, <2>3 DEF WorkGoesOn
  <2>5. TypeInv'
    BY <1>1, <1>3, <2>1, <2>3, <2>4, QuietTypes
  <2> QED BY <1>1, <2>1, <2>2, <2>3, <2>4, <2>5 DEF QuietStep
<1>6. CASE d = "delete"
  <2>1. /\ work' = [work EXCEPT !.todo = @ \ {p}, !.expect[p] = server[p]]
        /\ QuietStep /\ renames' = renames
    BY <1>1, <1>6 DEF Scan, QuietStep
  <2>2. server[p] # 0 /\ server[p] \in Content
    BY <1>2, <1>6 DEF Decision
  <2>3. /\ work' \in Run /\ work'.kind = work.kind /\ work'.batch = work.batch
        /\ work'.revisions = work.revisions /\ work'.pc = work.pc /\ work'.sending = work.sending
    BY <1>2, <2>1 DEF Run
  <2>4. WorkGoesOn
    BY <1>1, <1>2, <2>3 DEF WorkGoesOn
  <2>5. TypeInv'
    BY <1>1, <1>3, <2>1, <2>3, <2>4, QuietTypes
  <2> QED BY <1>1, <2>1, <2>2, <2>3, <2>4, <2>5 DEF QuietStep
<1>7. ASSUME ScanSettles(p), disk' \in [Path -> Content], events' \in Seq(Event),
             base' \in [Path -> Content], base'[p] = disk'[p],
             \A q \in Path : q # p => disk'[q] = disk[q] /\ base'[q] = base[q], RenamesTyped',
             UNCHANGED <<disk, events>> \/ events' = Append(events, KeyFor(p)')
      PROVE  TypeInv' /\ WorkGoesOn /\ UNCHANGED <<journal, pending>> /\ work'.pc = "scan"
  <2>1. WorkGoesOn
    BY <1>1, <1>2, <1>7 DEF WorkGoesOn, ScanSettles
  <2>2. TypeInv'
    BY <1>1, <1>3, <1>7, <2>1, WorkTypes DEF FilesTyped, ScanSettles
  <2> QED BY <1>1, <1>7, <2>1, <2>2 DEF ScanSettles
<1>8. CASE d = "none"
  <2>1. disk' = disk /\ events' = events /\ NoteSynced(p, disk[p])
    BY <1>8 DEF Scan
  <2>2. \/ work' = [work EXCEPT !.todo = @ \ {p}]
        \/ work' = [work EXCEPT !.todo = @ \ {p}, !.settled = @ \cup KeysOf(p, Upload(p))]
    BY <1>8 DEF Scan
  <2>4. ScanSettles(p)
    <3>1. KeysOf(p, Upload(p)) \in SUBSET Key /\ \A l \in KeysOf(p, Upload(p)) : l[2] = p
      BY <1>2, <1>4, KeysOfFacts
    <3> QED BY <1>2, <1>a, <2>2, <3>1, ScanSettlesFacts
  <2>5. disk[p] \in Content
    BY <1>2
  <2> QED BY <1>1, <1>2, <1>7, <2>1, <2>4, <2>5, NoteFacts
<1>9. CASE d \in {"download", "conflict"}
  <2> DEFINE keys == IF d = "conflict" /\ work.kind # "reconcile" THEN {} ELSE KeysOf(p, Upload(p))
  <2>1. /\ disk' = [disk EXCEPT ![p] = server[p]] /\ NoteSynced(p, server[p]) /\ Notify(Upload(p))
        /\ Reconciled(p, keys)
    BY <1>4, <1>9 DEF Scan
  <2>2. server[p] # 0 /\ server[p] \in Content
    BY <1>2, <1>9 DEF Decision
  <2>3. /\ disk' \in [Path -> Content] /\ disk'[p] = server[p] /\ \A q \in Path : q # p => disk'[q] = disk[q]
        /\ KeyFor(p)' = Upload(p)
    BY <1>2, <2>1, <2>2 DEF KeyFor
  <2>4. ScanSettles(p)
    <3>1. keys \in SUBSET Key /\ \A l \in keys : l[2] = p
      BY <1>2, <1>4, KeysOfFacts
    <3> HIDE DEF keys
    <3> QED BY <1>2, <1>a, <2>1, <3>1, ScanSettlesFacts DEF Reconciled
  <2>5. events' = Append(events, KeyFor(p)') /\ events' \in Seq(Event)
    BY <1>2, <1>4, <2>1, <2>3, NotifyFacts
  <2> QED BY <1>1, <1>7, <2>1, <2>2, <2>3, <2>4, <2>5, NoteFacts
<1>10. CASE d = "delete-local"
  <2>1. /\ disk' = [disk EXCEPT ![p] = 0] /\ NoteSynced(p, 0) /\ Notify(Delete(p))
        /\ Reconciled(p, KeysOf(p, Delete(p)))
    BY <1>4, <1>10 DEF Scan
  <2>3. /\ disk' \in [Path -> Content] /\ disk'[p] = 0 /\ \A q \in Path : q # p => disk'[q] = disk[q]
        /\ KeyFor(p)' = Delete(p)
    BY <1>2, <2>1, ContentFacts DEF KeyFor
  <2>4. ScanSettles(p)
    <3>1. KeysOf(p, Delete(p)) \in SUBSET Key /\ \A l \in KeysOf(p, Delete(p)) : l[2] = p
      BY <1>2, <1>4, KeysOfFacts
    <3> QED BY <1>2, <1>a, <2>1, <3>1, ScanSettlesFacts DEF Reconciled
  <2>5. events' = Append(events, KeyFor(p)') /\ events' \in Seq(Event)
    BY <1>2, <1>4, <2>1, <2>3, NotifyFacts
  <2> QED BY <1>1, <1>7, <2>1, <2>3, <2>4, <2>5, NoteFacts, ContentFacts
<1>11. d \in {"none", "upload", "delete", "download", "conflict", "delete-local"}
  BY DEF Decision
<1> QED BY <1>5, <1>6, <1>8, <1>9, <1>10, <1>11

LEMMA EndScanFacts ==
  ASSUME TypeInv, EndScan
  PROVE  /\ TypeInv' /\ WorkGoesOn /\ QuietStep /\ pending' = pending
         /\ work.pc = "scan" /\ work.todo = {} /\ \A p \in work'.todo : work.expect[p] # 0
         /\ work' = [work EXCEPT !.pc = "clearing", !.todo = work'.todo]
<1>1. /\ work.pc = "scan" /\ work.todo = {} /\ work' = [work EXCEPT !.pc = "clearing", !.todo = Clearing(work)]
      /\ QuietStep /\ pending' = pending
      /\ UNCHANGED <<made, used, server, renames, startup, verifying, timer, check, reports, applied>>
  BY DEF EndScan, QuietStep, vault, manifest, queue
<1>2. work \in Run /\ pending \in PendingSet /\ server \in [Path -> Content]
  BY DEF TypeInv, QueueTyped, FilesTyped
<1>3. Clearing(work) \in SUBSET Path /\ \A p \in Clearing(work) : work.expect[p] # 0
  BY DEF Clearing
<1>4. /\ work' \in Run /\ work'.kind = work.kind /\ work'.batch = work.batch /\ work'.pc = "clearing"
      /\ work'.revisions = work.revisions /\ work'.todo = Clearing(work)
  BY <1>1, <1>2, <1>3 DEF Run
<1>5. WorkGoesOn /\ CountsTyped'
  BY <1>1, <1>2, <1>4 DEF WorkGoesOn, TypeInv, CountsTyped
<1> QED BY <1>1, <1>2, <1>3, <1>4, <1>5, QuietTypes

LEMMA CheckDeletesFacts ==
  ASSUME TypeInv, CheckDeletes
  PROVE  /\ TypeInv' /\ WorkGoesOn /\ QuietStep
         /\ work.pc \in {"clearing", "deleting"} /\ work.todo # {} /\ work.sending = {}
         /\ \/ \E conflict \in BOOLEAN : DeletesFailed(work, work.todo, conflict)
            \/ /\ work' = [work EXCEPT !.sending = work.todo] /\ pending' = pending
               /\ \A p \in work.todo : disk[p] = 0
<1>1. /\ work.pc \in {"clearing", "deleting"} /\ work.todo # {} /\ work.sending = {} /\ QuietStep
      /\ UNCHANGED <<made, used, server, renames, startup, verifying, timer, check, reports, applied>>
  BY DEF CheckDeletes, Deleting, QuietStep, vault, manifest
<1>2. work \in Run /\ pending \in PendingSet /\ server \in [Path -> Content] /\ work.todo \in SUBSET Path
  BY DEF TypeInv, QueueTyped, FilesTyped, Run
<1>3. CountsTyped'
  BY <1>1 DEF TypeInv, CountsTyped
<1>4. ASSUME NEW conflict \in BOOLEAN, DeletesFail(work, work.todo, conflict)
      PROVE  TypeInv' /\ WorkGoesOn /\ DeletesFailed(work, work.todo, conflict)
  <2>1. WorkGoesOn /\ DeletesFailed(work, work.todo, conflict)
    BY <1>1, <1>2, <1>4, DeletesFailFacts
  <2> QED BY <1>1, <1>2, <1>3, <2>1, QuietTypes DEF DeletesFailed
<1>5. CASE work' = [work EXCEPT !.sending = @ \cup work.todo] /\ pending' = pending /\ \A p \in work.todo : disk[p] = 0
  <2>1. work.sending \cup work.todo = work.todo
    BY <1>1
  <2>2. work' = [work EXCEPT !.sending = work.todo]
    BY <1>5, <2>1
  <2>3. /\ work' \in Run /\ work'.kind = work.kind /\ work'.batch = work.batch /\ work'.pc = work.pc
        /\ work'.revisions = work.revisions
    BY <1>2, <2>2 DEF Run
  <2>4. WorkGoesOn
    BY <1>1, <1>2, <1>5, <2>3 DEF WorkGoesOn
  <2> QED BY <1>1, <1>2, <1>3, <1>5, <2>2, <2>3, <2>4, QuietTypes
<1>6. \/ \E conflict \in BOOLEAN : DeletesFail(work, work.todo, conflict)
      \/ work' = [work EXCEPT !.sending = @ \cup work.todo] /\ pending' = pending /\ \A p \in work.todo : disk[p] = 0
  BY DEF CheckDeletes
<1> QED BY <1>1, <1>4, <1>5, <1>6

LEMMA SendDeletesFacts ==
  ASSUME TypeInv, SendDeletes
  PROVE  /\ TypeInv' /\ WorkGoesOn /\ UNCHANGED <<disk, journal, events>>
         /\ work.pc \in {"clearing", "deleting"} /\ work.sending # {}
         /\ work'.pc = work.pc /\ work'.sending = {} /\ work'.todo = {} /\ work'.uploads = work.uploads
         /\ work.settled \subseteq work'.settled
         /\ \A p \in Path : work'.expect[p] = IF p \in work.todo \cup work.sending THEN 0 ELSE work.expect[p]
         /\ \E done \in SUBSET work.sending :
              /\ \A k \in work'.settled \ work.settled : k[2] \in done
              /\ \A p \in Path : base'[p] = IF p \in done THEN 0 ELSE base[p]
              /\ work'.failing = (work.failing \/ (work.sending \ done # {} /\ Flushing))
              /\ work'.conflicts = work.conflicts \cup {Delete(p) : p \in work.sending \ done}
              /\ Flushing => pending'.queued = pending.queued \cup {Delete(p) : p \in work.sending \ done}
<1> DEFINE done == Accepted
           s == work.settled \cup UNION {KeysOf(p, Delete(p)) : p \in done}
           t == work.touched \cup done
           w == [work EXCEPT !.settled = s, !.touched = t]
<1>1. /\ work.pc \in {"clearing", "deleting"} /\ work.sending # {}
      /\ DeletesFail(w, work.sending \ done, TRUE)
      /\ UNCHANGED <<disk, made, used, journal, events, startup, verifying, timer, check, reports, applied>>
  BY DEF SendDeletes, vault
<1>2. work \in Run /\ server \in [Path -> Content] /\ base \in [Path -> Content] /\ done \in SUBSET work.sending
      /\ work.sending \in SUBSET Path /\ work.settled \in SUBSET Key
  BY DEF TypeInv, FilesTyped, Accepted, Run
<1>3. \A p \in done : KeysOf(p, Delete(p)) \in SUBSET Key /\ \A l \in KeysOf(p, Delete(p)) : l[2] = p
  BY <1>2, KeysOfFacts, KeyFacts
<1>4. s \in SUBSET Key /\ work.settled \subseteq s /\ t \in SUBSET Path
  BY <1>2, <1>3 DEF Run
<1>5. \A k \in s \ work.settled : k[2] \in done
  BY <1>3
<1>6. /\ base' \in [Path -> Content] /\ (\A p \in Path : base'[p] = IF p \in done THEN 0 ELSE base[p])
      /\ server' \in [Path -> Content]
  BY <1>2, ContentFacts DEF SendDeletes, Delivered
<1>7. RenamesTyped'
  <2>1. renames' = [p \in Path |-> IF p \in done THEN None ELSE renames[p]]
    BY DEF SendDeletes
  <2> QED BY <2>1, PathAssumption DEF TypeInv, RenamesTyped, Maybe
<1> HIDE DEF s, t
<1>8. /\ w \in Run /\ w.kind = work.kind /\ w.batch = work.batch /\ w.revisions = work.revisions
      /\ w.pc = work.pc /\ w.todo = work.todo /\ w.sending = work.sending /\ w.failing = work.failing
      /\ w.conflicts = work.conflicts /\ w.expect = work.expect /\ w.uploads = work.uploads /\ w.settled = s
  BY <1>2, <1>4 DEF Run
<1> HIDE DEF w, done
<1>9. WorkGoesOn /\ DeletesFailed(w, work.sending \ done, TRUE)
  <2>1. work.sending \ done \in SUBSET Path
    BY <1>2
  <2> QED BY <1>1, <1>8, <2>1, DeletesFailFacts
<1>10. TypeInv'
  <2>1. FilesTyped' /\ CountsTyped' /\ JournalTyped' /\ events' \in Seq(Event)
    BY <1>1, <1>6 DEF TypeInv, FilesTyped, CountsTyped, JournalTyped
  <2> QED BY <1>1, <1>7, <1>8, <1>9, <2>1, WorkTypes DEF DeletesFailed
<1> QED BY <1>1, <1>2, <1>4, <1>5, <1>6, <1>8, <1>9, <1>10 DEF DeletesFailed

LEMMA LoseDeletesFacts ==
  ASSUME TypeInv, LoseDeletes
  PROVE  /\ TypeInv' /\ WorkGoesOn /\ QuietStep
         /\ work.pc \in {"clearing", "deleting"} /\ work.sending # {}
         /\ DeletesFailed(work, work.sending, FALSE)
<1>1. /\ work.pc \in {"clearing", "deleting"} /\ work.sending # {} /\ QuietStep
      /\ UNCHANGED <<made, renames, startup, verifying, timer, check, reports, applied>>
  BY DEF LoseDeletes, QuietStep, vault, manifest
<1>2. work \in Run /\ server \in [Path -> Content] /\ work.sending \in SUBSET Path
  BY DEF TypeInv, FilesTyped, Run
<1>3. CountsTyped'
  BY <1>1, SpendFacts DEF TypeInv, LoseDeletes
<1>4. PICK how \in Failures, paths \in {{}, Accepted} :
        Delivered(paths) /\ DeletesFail(Judged(work, how), work.sending, FALSE)
  BY DEF LoseDeletes
<1>6. server' \in [Path -> Content]
  BY <1>2, <1>4, ContentFacts DEF Delivered
<1>5. WorkGoesOn /\ DeletesFailed(work, work.sending, FALSE)
  <2> DEFINE j == Judged(work, how)
  <2>1. /\ j \in Run /\ j.kind = work.kind /\ j.batch = work.batch /\ j.revisions = work.revisions
        /\ j.pc = work.pc /\ j.uploads = work.uploads /\ j.settled = work.settled
        /\ j.failing = work.failing /\ j.conflicts = work.conflicts /\ j.todo = work.todo
        /\ j.sending = work.sending /\ j.expect = work.expect
    BY <1>2, JudgedFacts
  <2>2. DeletesFail(j, work.sending, FALSE)
    BY <1>4
  <2> HIDE DEF j
  <2>3. WorkGoesOn /\ DeletesFailed(j, work.sending, FALSE)
    BY <1>1, <1>2, <2>1, <2>2, DeletesFailFacts
  <2> QED BY <2>1, <2>3 DEF DeletesFailed
<1> QED BY <1>1, <1>3, <1>6, <1>5, QuietTypes DEF DeletesFailed

\* The lost paths are planned again.
Rescanned(uploads) ==
  /\ work'.pc = "scan" /\ work'.conflicts = {} /\ work'.looks
  /\ work'.todo \subseteq PathsOf(work.conflicts)
  /\ work'.failing = (work.failing \/ work'.todo # PathsOf(work.conflicts))
  /\ work'.uploads = uploads /\ work'.expect = work.expect /\ work'.sending = work.sending
  /\ work'.settled = work.settled

LEMMA RescanFacts ==
  ASSUME TypeInv, NEW uploads \in SUBSET Path, Rescan(uploads), pending' = pending,
         UNCHANGED <<startup, verifying, timer, check, reports, applied>>
  PROVE  WorkGoesOn /\ Rescanned(uploads)
<1> DEFINE c == PathsOf(work.conflicts)
           t == {p \in c : work.tries[p] < Retries}
           f == work.failing \/ t # c
           n == [p \in Path |-> IF p \in t THEN work.tries[p] + 1 ELSE work.tries[p]]
<1>1. work \in Run /\ pending \in PendingSet
  BY DEF TypeInv, QueueTyped
<1>2. t \subseteq c /\ t \in SUBSET Path /\ f \in BOOLEAN
  BY <1>1, KeyFacts DEF PathsOf, Run
<1>a. n \in [Path -> Nat]
  BY <1>1 DEF Run
<1>3. work' = [work EXCEPT !.pc = "scan", !.todo = t, !.failing = f, !.conflicts = {}, !.looks = TRUE,
                           !.uploads = uploads, !.tries = n]
  BY DEF Rescan
<1> HIDE DEF t, f, n, c
<1>4. /\ work' \in Run /\ work'.kind = work.kind /\ work'.batch = work.batch /\ work'.revisions = work.revisions
      /\ work'.pc = "scan" /\ work'.todo = t /\ work'.conflicts = {} /\ work'.looks
      /\ work'.uploads = uploads /\ work'.expect = work.expect /\ work'.sending = work.sending
      /\ work'.settled = work.settled
  BY <1>1, <1>2, <1>a, <1>3 DEF Run
<1>5. work'.failing = f
  BY <1>1, <1>2, <1>a, <1>3 DEF Run
<1> QED BY <1>1, <1>2, <1>4, <1>5 DEF WorkGoesOn, Rescanned, c, f

LEMMA EndClearingFacts ==
  ASSUME TypeInv, EndClearing
  PROVE  /\ TypeInv' /\ WorkGoesOn /\ QuietStep
         /\ work.pc = "clearing" /\ work.todo = {} /\ work.sending = {}
         /\ \/ ~Flushing /\ Rescanned(work.uploads)
            \/ /\ Flushing \/ work.conflicts = {}
               /\ work'.pc = "uploading" /\ work'.uploads = work.uploads /\ work'.expect = work.expect
               /\ work'.sending = {} /\ work'.failing = work.failing /\ work'.settled = work.settled
               /\ work'.conflicts = work.conflicts /\ work'.todo \subseteq work.uploads
               /\ ~Flushing => work'.todo = work.uploads
               /\ \A p \in work.uploads : p \in work'.todo \/ Upload(p) \in pending'.queued
<1>1. /\ work.pc = "clearing" /\ work.todo = {} /\ work.sending = {} /\ QuietStep
      /\ UNCHANGED <<made, used, server, renames, startup, verifying, timer, check, reports, applied>>
  BY DEF EndClearing, QuietStep, vault, manifest
<1>2. work \in Run /\ pending \in PendingSet /\ server \in [Path -> Content] /\ work.uploads \in SUBSET Path
  BY DEF TypeInv, QueueTyped, FilesTyped, Run
<1>3. CountsTyped'
  BY <1>1 DEF TypeInv, CountsTyped
<1>4. Blocked \in SUBSET work.uploads /\ (~Flushing => Blocked = {})
  BY DEF Blocked
<1>5. pending' = [pending EXCEPT !.queued = @ \cup {Upload(p) : p \in Blocked}]
  BY DEF EndClearing
<1>6. {Upload(p) : p \in Blocked} \in SUBSET Key
  BY <1>2, <1>4, KeyFacts
<1>7. /\ pending' \in PendingSet /\ pending'.queued = pending.queued \cup {Upload(p) : p \in Blocked}
      /\ pending'.inFlight = pending.inFlight
      /\ pending'.next = pending.next /\ pending'.revision = pending.revision
  BY <1>2, <1>5, <1>6, RequeueFacts
<1>8. ~Flushing => pending' = pending
  BY <1>2, <1>4, <1>5 DEF PendingSet
<1>9. CASE Again
  <2>1. ~Flushing /\ Rescan(work.uploads)
    BY <1>9 DEF EndClearing, Again
  <2>2. WorkGoesOn /\ Rescanned(work.uploads)
    BY <1>1, <1>2, <1>8, <2>1, RescanFacts
  <2> QED BY <1>1, <1>2, <1>3, <2>1, <2>2, QuietTypes DEF Rescanned
<1>10. CASE ~Again
  <2> DEFINE t == work.uploads \ Blocked
             b == Blocked
  <2>1. work' = [work EXCEPT !.pc = "uploading", !.todo = t, !.failed = b]
    BY <1>10 DEF EndClearing
  <2>2. t \in SUBSET Path /\ b \in SUBSET Path /\ t \subseteq work.uploads
        /\ (~Flushing => t = work.uploads) /\ \A p \in work.uploads : p \in t \/ p \in b
    BY <1>2, <1>4
  <2>3. \A p \in b : Upload(p) \in pending'.queued
    BY <1>7
  <2> HIDE DEF t, b
  <2>4. /\ work' \in Run /\ work'.kind = work.kind /\ work'.batch = work.batch /\ work'.revisions = work.revisions
        /\ work'.pc = "uploading" /\ work'.uploads = work.uploads /\ work'.expect = work.expect
        /\ work'.sending = work.sending /\ work'.failing = work.failing /\ work'.settled = work.settled
        /\ work'.conflicts = work.conflicts /\ work'.todo = t
    BY <1>2, <2>1, <2>2 DEF Run
  <2>5. WorkGoesOn
    BY <1>1, <1>7, <1>8, <2>4 DEF WorkGoesOn
  <2>6. TypeInv'
    BY <1>1, <1>2, <1>3, <2>4, <2>5, QuietTypes
  <2>7. Flushing \/ work.conflicts = {}
    BY <1>10 DEF Again
  <2> QED BY <1>1, <2>2, <2>3, <2>4, <2>5, <2>6, <2>7
<1> QED BY <1>9, <1>10

LEMMA PrepareFacts ==
  ASSUME TypeInv, NEW p \in Path, Prepare(p)
  PROVE  /\ TypeInv' /\ WorkGoesOn /\ UNCHANGED <<disk, base, events, pending>>
         /\ work.pc = "uploading" /\ p \in work.todo
         /\ work'.pc = work.pc /\ work'.todo = work.todo \ {p} /\ work'.uploads = work.uploads
         /\ work'.expect = work.expect /\ work'.conflicts = work.conflicts
         /\ work'.settled = work.settled
         /\ \/ /\ disk[p] = 0 \/ (Flushing /\ disk[p] = base[p])
               /\ UNCHANGED journal /\ work'.sending = work.sending
               /\ work.failing => work'.failing
               /\ Flushing => work'.failing = work.failing
            \/ /\ disk[p] # 0 /\ work'.sending = work.sending \cup {p} /\ work'.failing = work.failing
               /\ journal'[p] \in Entry /\ journal'[p].hash = disk[p]
               /\ \A q \in Path : q # p => journal'[q] = journal[q]
<1>1. /\ work.pc = "uploading" /\ p \in work.todo
      /\ UNCHANGED <<disk, made, used, server, base, renames, events, pending, startup, verifying, timer, check,
                     reports, applied>>
  BY DEF Prepare, vault, queue
<1>2. work \in Run /\ pending \in PendingSet /\ base \in [Path -> Content] /\ server \in [Path -> Content]
      /\ disk \in [Path -> Content] /\ journal \in [Path -> Maybe(Entry)]
  BY DEF TypeInv, QueueTyped, FilesTyped, JournalTyped
<1> DEFINE t == work.todo \ {p}
           s == work.sending \cup {p}
<1>3. t \in SUBSET Path /\ s \in SUBSET Path /\ work.remote[p] \in Content
  BY <1>2 DEF Run
<1>4. FilesTyped' /\ CountsTyped' /\ RenamesTyped' /\ events' \in Seq(Event)
  BY <1>1 DEF TypeInv, FilesTyped, CountsTyped, RenamesTyped
<1>5. CASE disk[p] = 0 \/ (Flushing /\ disk[p] = base[p])
  <2>1. PICK full \in {FALSE, ~Flushing} : work' = [work EXCEPT !.todo = t, !.failing = @ \/ full]
    BY <1>5 DEF Prepare
  <2>2. journal' = journal
    BY <1>5 DEF Prepare
  <2> DEFINE f == work.failing \/ full
  <2>3. work' = [work EXCEPT !.todo = t, !.failing = f] /\ f \in BOOLEAN
    BY <1>2, <2>1 DEF Run
  <2>4. (work.failing => f) /\ (Flushing => f = work.failing)
    <3>1. work.failing \in BOOLEAN
      BY <1>2 DEF Run
    <3> QED BY <3>1
  <2> HIDE DEF t, f
  <2>5. /\ work' \in Run /\ work'.kind = work.kind /\ work'.batch = work.batch /\ work'.revisions = work.revisions
        /\ work'.pc = work.pc /\ work'.uploads = work.uploads /\ work'.expect = work.expect
        /\ work'.sending = work.sending /\ work'.settled = work.settled
        /\ work'.conflicts = work.conflicts /\ work'.todo = t
    BY <1>2, <1>3, <2>3 DEF Run
  <2>6. work'.failing = f
    BY <1>2, <2>3 DEF Run
  <2>7. WorkGoesOn
    BY <1>1, <1>2, <2>5 DEF WorkGoesOn
  <2>8. TypeInv'
    BY <1>1, <1>4, <2>2, <2>5, <2>7, WorkTypes DEF TypeInv, JournalTyped
  <2> QED BY <1>1, <1>5, <2>2, <2>4, <2>5, <2>6, <2>7, <2>8 DEF t
<1>6. CASE ~(disk[p] = 0 \/ (Flushing /\ disk[p] = base[p]))
  <2> DEFINE expected == IF Flushing THEN base[p] ELSE work.remote[p]
             j == [hash |-> disk[p], expected |-> expected, landed |-> FALSE]
  <2>1. work' = [work EXCEPT !.todo = t, !.sending = s] /\ journal' = [journal EXCEPT ![p] = j]
    BY <1>6 DEF Prepare
  <2>2. j \in Entry /\ j.hash = disk[p]
    <3>1. disk[p] \in Content /\ expected \in Content
      BY <1>2, <1>3
    <3> HIDE DEF expected
    <3> QED BY <3>1 DEF Entry
  <2> HIDE DEF j, t, s
  <2>3. /\ journal'[p] = j /\ (\A q \in Path : q # p => journal'[q] = journal[q])
        /\ JournalTyped'
    BY <1>2, <2>1, <2>2 DEF JournalTyped, Maybe
  <2>5. /\ work' \in Run /\ work'.kind = work.kind /\ work'.batch = work.batch /\ work'.revisions = work.revisions
        /\ work'.pc = work.pc /\ work'.uploads = work.uploads /\ work'.expect = work.expect
        /\ work'.sending = s /\ work'.settled = work.settled /\ work'.failing = work.failing
        /\ work'.conflicts = work.conflicts /\ work'.todo = t
    BY <1>2, <1>3, <2>1 DEF Run
  <2>7. WorkGoesOn
    BY <1>1, <1>2, <2>5 DEF WorkGoesOn
  <2>8. \A q \in s : journal'[q] \in Entry
    <3>1. \A q \in work.sending : journal[q] \in Entry
      BY <1>1 DEF TypeInv
    <3> QED BY <1>2, <2>2, <2>3, <3>1 DEF s, Run
  <2>9. TypeInv'
    BY <1>4, <2>3, <2>5, <2>7, <2>8, WorkTypes
  <2> QED BY <1>1, <1>6, <2>2, <2>3, <2>5, <2>7, <2>9 DEF t, s
<1> QED BY <1>5, <1>6

\* What a failed upload leaves.
UploadFailed(p, retry) ==
  /\ work'.pc = work.pc /\ work'.todo = work.todo /\ work'.uploads = work.uploads
  /\ work'.sending = work.sending \ {p} /\ work'.settled = work.settled /\ work'.expect = work.expect
  /\ work'.failing = (work.failing \/ ~retry)
  /\ work.conflicts \subseteq work'.conflicts /\ (retry => Upload(p) \in work'.conflicts)
  /\ Flushing => pending'.queued = pending.queued \cup {Upload(p)}

LEMMA UploadFailedFacts ==
  ASSUME TypeInv, NEW p \in Path, NEW how \in {"namespace", "conflict"} \cup Failures, UploadFails(p, how),
         UNCHANGED <<startup, verifying, timer, check, reports, applied>>
  PROVE  WorkGoesOn /\ UploadFailed(p, how = "conflict" /\ ~Flushing)
<1>1. /\ WorkGoesOn
      /\ work'.pc = work.pc /\ work'.todo = work.todo /\ work'.uploads = work.uploads
      /\ work'.sending = work.sending \ {p} /\ work'.settled = work.settled /\ work'.expect = work.expect
      /\ work'.conflicts = work.conflicts \cup (IF how = "conflict" THEN {Upload(p)} ELSE {})
      /\ Flushing => pending'.queued = pending.queued \cup {Upload(p)}
  BY UploadFailsFacts
<1>2. work'.failing = (work.failing \/ ~(how = "conflict" /\ ~Flushing))
  BY UploadFailsFacts
<1>3. work.conflicts \subseteq work'.conflicts /\ ((how = "conflict" /\ ~Flushing) => Upload(p) \in work'.conflicts)
  BY <1>1
<1> QED BY <1>1, <1>2, <1>3 DEF UploadFailed

LEMMA SendUploadFacts ==
  ASSUME TypeInv, NEW p \in Path, SendUpload(p)
  PROVE  /\ TypeInv' /\ WorkGoesOn /\ UNCHANGED <<disk, events>>
         /\ work.pc = "uploading" /\ p \in work.sending
         /\ journal'[p] = None /\ \A q \in Path : q # p => journal'[q] = journal[q]
         /\ \/ base' = base /\ \E retry \in BOOLEAN : (retry => ~Flushing) /\ UploadFailed(p, retry)
            \/ /\ base'[p] = journal[p].hash /\ \A q \in Path : q # p => base'[q] = base[q]
               /\ pending' = pending
               /\ work'.pc = work.pc /\ work'.todo = work.todo /\ work'.uploads = work.uploads
               /\ work'.expect = work.expect /\ work'.conflicts = work.conflicts
               /\ work'.failing = work.failing /\ work'.sending = work.sending \ {p}
               /\ work.settled \subseteq work'.settled
               /\ \A k \in work'.settled \ work.settled : k[2] = p
<1>1. /\ work.pc = "uploading" /\ p \in work.sending /\ journal' = [journal EXCEPT ![p] = None]
      /\ UNCHANGED <<disk, made, used, events, startup, verifying, timer, check, reports, applied>>
  BY DEF SendUpload, vault
<1>2. work \in Run /\ pending \in PendingSet /\ base \in [Path -> Content] /\ server \in [Path -> Content]
      /\ disk \in [Path -> Content] /\ journal \in [Path -> Maybe(Entry)]
  BY DEF TypeInv, QueueTyped, FilesTyped, JournalTyped
<1>3. journal'[p] = None /\ (\A q \in Path : q # p => journal'[q] = journal[q]) /\ JournalTyped'
  BY <1>1, <1>2 DEF JournalTyped, Maybe
<1>4. journal[p] \in Entry /\ journal[p].hash \in Content
  BY <1>1 DEF TypeInv, Entry
<1>5. \A q \in work.sending \ {p} : journal'[q] \in Entry
  <2>1. \A q \in work.sending : journal[q] \in Entry /\ q \in Path
    BY <1>1, <1>2 DEF TypeInv, Run
  <2> QED BY <1>3, <2>1
<1>6. CountsTyped' /\ events' \in Seq(Event)
  BY <1>1 DEF TypeInv, CountsTyped
<1>7. ASSUME NEW how \in {"namespace", "conflict"}, UploadFails(p, how), UNCHANGED <<server, base, renames>>
      PROVE  /\ TypeInv' /\ WorkGoesOn
             /\ \E retry \in BOOLEAN : (retry => ~Flushing) /\ UploadFailed(p, retry)
  <2>1. WorkGoesOn /\ UploadFailed(p, how = "conflict" /\ ~Flushing)
    BY <1>1, <1>7, UploadFailedFacts
  <2>2. work'.sending = work.sending \ {p}
    BY <2>1 DEF UploadFailed
  <2>3. FilesTyped' /\ RenamesTyped'
    BY <1>1, <1>7 DEF TypeInv, FilesTyped, RenamesTyped
  <2>4. TypeInv'
    BY <1>3, <1>5, <1>6, <2>1, <2>2, <2>3, WorkTypes
  <2>5. PICK retry \in BOOLEAN : retry = (how = "conflict" /\ ~Flushing)
    OBVIOUS
  <2>6. (retry => ~Flushing) /\ UploadFailed(p, retry)
    BY <2>1, <2>5
  <2> QED BY <2>1, <2>4, <2>6
<1>8. CASE server' = [server EXCEPT ![p] = journal[p].hash] /\ NoteSynced(p, journal[p].hash)
           /\ work' = [work EXCEPT !.sending = @ \ {p}, !.settled = @ \cup KeysOf(p, Upload(p))]
           /\ UNCHANGED pending
  <2> DEFINE s == work.sending \ {p}
             k == work.settled \cup KeysOf(p, Upload(p))
  <2>1. KeysOf(p, Upload(p)) \in SUBSET Key /\ \A l \in KeysOf(p, Upload(p)) : l[2] = p
    BY <1>2, KeysOfFacts, KeyFacts
  <2>2. s \in SUBSET Path /\ k \in SUBSET Key /\ work.settled \subseteq k
        /\ (\A l \in k \ work.settled : l[2] = p) /\ work' = [work EXCEPT !.sending = s, !.settled = k]
    BY <1>2, <1>8, <2>1 DEF Run
  <2> HIDE DEF s, k
  <2>3. /\ work' \in Run /\ work'.kind = work.kind /\ work'.batch = work.batch /\ work'.revisions = work.revisions
        /\ work'.pc = work.pc /\ work'.uploads = work.uploads /\ work'.expect = work.expect
        /\ work'.sending = s /\ work'.settled = k /\ work'.failing = work.failing
        /\ work'.conflicts = work.conflicts /\ work'.todo = work.todo
    BY <1>2, <2>2 DEF Run
  <2>4. WorkGoesOn
    BY <1>1, <1>2, <1>8, <2>3 DEF WorkGoesOn
  <2>5. base' \in [Path -> Content] /\ RenamesTyped' /\ base'[p] = journal[p].hash
        /\ \A q \in Path : q # p => base'[q] = base[q]
    BY <1>4, <1>8, NoteFacts
  <2>6. server' \in [Path -> Content]
    BY <1>2, <1>4, <1>8
  <2>7. TypeInv'
    BY <1>1, <1>2, <1>3, <1>5, <1>6, <2>3, <2>4, <2>5, <2>6, WorkTypes DEF FilesTyped, s
  <2> QED BY <1>1, <1>3, <1>8, <2>2, <2>3, <2>4, <2>5, <2>7 DEF s
<1>9. \/ \E how \in {"namespace", "conflict"} : UploadFails(p, how) /\ UNCHANGED <<server, base, renames>>
      \/ /\ server' = [server EXCEPT ![p] = journal[p].hash] /\ NoteSynced(p, journal[p].hash)
         /\ work' = [work EXCEPT !.sending = @ \ {p}, !.settled = @ \cup KeysOf(p, Upload(p))]
         /\ UNCHANGED pending
  BY DEF SendUpload
<1> QED BY <1>1, <1>3, <1>7, <1>8, <1>9

LEMMA LoseUploadFacts ==
  ASSUME TypeInv, NEW p \in Path, LoseUpload(p)
  PROVE  /\ TypeInv' /\ WorkGoesOn /\ UNCHANGED <<disk, base, events>>
         /\ work.pc = "uploading" /\ p \in work.sending /\ UploadFailed(p, FALSE)
         /\ journal'[p] \in Entry /\ journal'[p].hash = journal[p].hash
         /\ \A q \in Path : q # p => journal'[q] = journal[q]
<1>1. /\ work.pc = "uploading" /\ p \in work.sending
      /\ UNCHANGED <<disk, made, base, renames, events, startup, verifying, timer, check, reports, applied>>
  BY DEF LoseUpload, vault
<1>a. PICK how \in Failures : UploadFails(p, how)
  BY DEF LoseUpload, Failures
<1>2. work \in Run /\ base \in [Path -> Content] /\ server \in [Path -> Content]
      /\ disk \in [Path -> Content] /\ journal \in [Path -> Maybe(Entry)] /\ journal[p] \in Entry
  BY <1>1 DEF TypeInv, FilesTyped, JournalTyped
<1>3. WorkGoesOn /\ UploadFailed(p, FALSE)
  <2>1. WorkGoesOn /\ UploadFailed(p, how = "conflict" /\ ~Flushing)
    BY <1>1, <1>a, UploadFailedFacts
  <2>2. (how = "conflict" /\ ~Flushing) = FALSE
    BY DEF Failures
  <2> QED BY <2>1, <2>2
<1>4. CountsTyped'
  BY <1>1, SpendFacts DEF LoseUpload, TypeInv
<1>5. /\ journal' \in [Path -> Maybe(Entry)]
      /\ journal'[p] \in Entry /\ journal'[p].hash = journal[p].hash
      /\ \A q \in Path : q # p => journal'[q] = journal[q]
  <2>1. CASE journal' = journal
    BY <1>2, <2>1
  <2>2. CASE journal' = [journal EXCEPT ![p].landed = TRUE]
    <3>1. [journal[p] EXCEPT !.landed = TRUE] \in Entry
          /\ [journal[p] EXCEPT !.landed = TRUE].hash = journal[p].hash
      BY <1>2 DEF Entry
    <3> QED BY <1>2, <2>2, <3>1 DEF Maybe
  <2> QED BY <2>1, <2>2 DEF LoseUpload
<1>6. server' \in [Path -> Content]
  <2>1. journal[p].hash \in Content
    BY <1>2 DEF Entry
  <2> QED BY <1>2, <2>1 DEF LoseUpload
<1>7. \A q \in work.sending : journal'[q] \in Entry
  <2>1. \A q \in work.sending : journal[q] \in Entry /\ q \in Path
    BY <1>1, <1>2 DEF TypeInv, Run
  <2> QED BY <1>5, <2>1
<1>8. TypeInv'
  <2>1. FilesTyped' /\ RenamesTyped' /\ JournalTyped' /\ events' \in Seq(Event)
    BY <1>1, <1>2, <1>5, <1>6 DEF TypeInv, FilesTyped, RenamesTyped, JournalTyped
  <2> QED BY <1>3, <1>4, <1>7, <2>1, WorkTypes DEF UploadFailed
<1> QED BY <1>1, <1>3, <1>5, <1>8

LEMMA EndUploadsFacts ==
  ASSUME TypeInv, EndUploads
  PROVE  /\ TypeInv' /\ WorkGoesOn /\ QuietStep
         /\ work.pc = "uploading" /\ work.todo = {} /\ work.sending = {}
         /\ \/ ~Flushing /\ Rescanned({})
            \/ /\ Flushing \/ work.conflicts = {}
               /\ work'.pc = "deleting" /\ work'.uploads = {} /\ work'.expect = work.expect
               /\ work'.sending = {} /\ work'.settled = work.settled
               /\ work.failing => work'.failing
               /\ \A p \in work'.todo : work.expect[p] # 0
               /\ \A p \in Path : work.expect[p] # 0 =>
                     \/ p \in work'.todo
                     \/ ~Flushing /\ work.failing
                     \/ Flushing /\ Delete(p) \in pending'.queued
<1>1. /\ work.pc = "uploading" /\ work.todo = {} /\ work.sending = {} /\ QuietStep
      /\ UNCHANGED <<made, used, server, renames, startup, verifying, timer, check, reports, applied>>
  BY DEF EndUploads, QuietStep, vault, manifest
<1>2. work \in Run /\ pending \in PendingSet /\ server \in [Path -> Content] /\ work.conflicts \in SUBSET Key
  BY DEF TypeInv, QueueTyped, FilesTyped, Run
<1>3. CountsTyped'
  BY <1>1 DEF TypeInv, CountsTyped
<1>4. CASE Again
  <2>1. ~Flushing /\ Rescan({}) /\ pending' = pending
    BY <1>4 DEF EndUploads, Again
  <2>2. WorkGoesOn /\ Rescanned({})
    BY <1>1, <2>1, RescanFacts
  <2> QED BY <1>1, <1>2, <1>3, <2>1, <2>2, QuietTypes DEF Rescanned
<1>5. CASE ~Again
  <2> DEFINE keys == {Delete(p) : p \in Deferred}
             d == Deferred
             t == Remaining \ Deferred
             f == work.failing \/ Deferred # {}
             c == IF work.conflicts # {} THEN work.conflicts \cup keys ELSE work.conflicts
  <2>1. work' = [work EXCEPT !.pc = "deleting", !.todo = t, !.failing = f, !.uploads = {}, !.conflicts = c]
    BY <1>5 DEF EndUploads
  <2>2. pending' = IF Flushing THEN [pending EXCEPT !.queued = @ \cup keys] ELSE pending
    BY <1>5 DEF EndUploads
  <2>3. d \in SUBSET Remaining /\ Remaining \in SUBSET Path /\ (~Flushing /\ ~work.failing => d = {})
    BY DEF Deferred, Remaining
  <2>4. keys \in SUBSET Key
    BY <2>3, KeyFacts
  <2>5. t \in SUBSET Path /\ f \in BOOLEAN /\ c \in SUBSET Key /\ (work.failing => f)
    BY <1>2, <2>3, <2>4 DEF Run
  <2>6. /\ \A p \in t : work.expect[p] # 0
        /\ \A p \in Path : work.expect[p] # 0 => p \in t \/ p \in d
    BY <2>3 DEF Remaining
  <2>7. \A p \in d : Delete(p) \in keys
    OBVIOUS
  <2>8. Flushing \/ work.conflicts = {}
    BY <1>5 DEF Again
  <2> HIDE DEF keys, d, t, f, c
  <2>9. /\ pending' \in PendingSet /\ pending.queued \subseteq pending'.queued
        /\ pending'.inFlight = pending.inFlight
        /\ pending'.next = pending.next /\ pending'.revision = pending.revision
        /\ ~Flushing => pending' = pending
        /\ Flushing => keys \subseteq pending'.queued
    BY <1>2, <2>2, <2>4, RequeueFacts
  <2>10. /\ work' \in Run /\ work'.kind = work.kind /\ work'.batch = work.batch /\ work'.revisions = work.revisions
         /\ work'.pc = "deleting" /\ work'.uploads = {} /\ work'.expect = work.expect
         /\ work'.sending = work.sending /\ work'.settled = work.settled /\ work'.todo = t
    BY <1>2, <2>1, <2>5 DEF Run
  <2>11. work'.failing = f
    BY <1>2, <2>1 DEF Run
  <2>12. WorkGoesOn
    BY <1>1, <2>9, <2>10 DEF WorkGoesOn
  <2>13. TypeInv'
    BY <1>1, <1>2, <1>3, <2>10, <2>12, QuietTypes
  <2>14. \A p \in d : (~Flushing /\ work.failing) \/ (Flushing /\ Delete(p) \in pending'.queued)
    BY <2>3, <2>7, <2>9
  <2> QED BY <1>1, <2>5, <2>6, <2>8, <2>10, <2>11, <2>12, <2>13, <2>14
<1> QED BY <1>4, <1>5

LEMMA EndDeletesFacts ==
  ASSUME TypeInv, EndDeletes
  PROVE  /\ TypeInv' /\ WorkGoesOn /\ QuietStep /\ pending' = pending
         /\ work.pc = "deleting" /\ work.todo = {} /\ work.sending = {}
         /\ \/ ~Flushing /\ Rescanned({})
            \/ /\ Flushing \/ work.conflicts = {}
               /\ work' = [work EXCEPT !.pc = "saving"]
<1>1. /\ work.pc = "deleting" /\ work.todo = {} /\ work.sending = {} /\ QuietStep /\ pending' = pending
      /\ UNCHANGED <<made, used, server, renames, startup, verifying, timer, check, reports, applied>>
  BY DEF EndDeletes, QuietStep, vault, manifest, queue
<1>2. work \in Run /\ pending \in PendingSet /\ server \in [Path -> Content]
  BY DEF TypeInv, QueueTyped, FilesTyped
<1>3. CountsTyped'
  BY <1>1 DEF TypeInv, CountsTyped
<1>4. CASE Again
  <2>1. ~Flushing /\ Rescan({})
    BY <1>4 DEF EndDeletes, Again
  <2>2. WorkGoesOn /\ Rescanned({})
    BY <1>1, <2>1, RescanFacts
  <2> QED BY <1>1, <1>2, <1>3, <2>1, <2>2, QuietTypes DEF Rescanned
<1>5. CASE ~Again
  <2>1. work' = [work EXCEPT !.pc = "saving"] /\ (Flushing \/ work.conflicts = {})
    BY <1>5 DEF EndDeletes, Again, Moves
  <2>2. /\ work' \in Run /\ work'.kind = work.kind /\ work'.batch = work.batch /\ work'.revisions = work.revisions
        /\ work'.pc = "saving"
    BY <1>2, <2>1 DEF Run
  <2>3. WorkGoesOn
    BY <1>1, <1>2, <2>2 DEF WorkGoesOn
  <2> QED BY <1>1, <1>2, <1>3, <2>1, <2>2, <2>3, QuietTypes
<1> QED BY <1>4, <1>5

-----------------------------------------------------------------------------
(* Events on their way. *)

(* An event on its way becomes the key. *)
Sent(k) == \E i \in 1..Len(events) : k \in KeysIn(events[i])

Coming(p) == Sent(KeyFor(p))

(* Events come in the order of the changes: of an event that does not say what the file is
   now, a later one does. *)
EventsInOrder ==
  \A p \in Path : \A i \in 1..Len(events) : Opposite(KeyFor(p)) \in KeysIn(events[i]) =>
    \E j \in 1..Len(events) : j > i /\ KeyFor(p) \in KeysIn(events[j])

(* In a step, the key of a changed file comes, and the key of any other file is not lost; it
   is newer than every snapshot when an event just became it. *)
Kept(p) ==
  \/ Coming(p)'
  \/ /\ disk'[p] = disk[p]
     /\ Coming(p) \/ KeyFor(p) \in recorded =>
          \/ KeyFor(p) \in recorded'
          \/ KeyFor(p) \in pending'.queued /\ pending'.revision[KeyFor(p)] > pending.next
     /\ KeyFor(p) \in pending.queued => KeyFor(p) \in pending'.queued
     /\ pending'.revision[KeyFor(p)] >= pending.revision[KeyFor(p)]

LEMMA QueueTypes ==
  ASSUME TypeInv
  PROVE  /\ pending \in PendingSet /\ pending.queued \in SUBSET Key /\ pending.inFlight \in SUBSET Key
         /\ pending.next \in Nat /\ pending.revision \in [Key -> Nat]
         /\ \A k \in Key : pending.revision[k] \in Nat /\ pending.revision[k] <= pending.next
BY DEF TypeInv, QueueTyped, PendingSet, Revisions, RevisionsBounded, Bounded

LEMMA SameKey ==
  \A p \in Path : disk'[p] = disk[p] => KeyFor(p)' = KeyFor(p)
BY DEF KeyFor

\* While no event is delivered and no key is dropped, no key is lost.
LEMMA QueueGrows ==
  ASSUME TypeInv, NEW p \in Path, disk'[p] = disk[p], events' = events, recorded' = recorded,
         pending.queued \subseteq pending'.queued, pending'.revision = pending.revision
  PROVE  Kept(p)
<1>1. pending.revision[KeyFor(p)] \in Nat
  BY QueueTypes, KeyForFacts
<1>2. Coming(p) => Coming(p)'
  BY SameKey DEF Coming, Sent
<1> QED BY <1>1, <1>2 DEF Kept

LEMMA AppendFacts ==
  ASSUME events \in Seq(Event), NEW e \in Event, events' = Append(events, e)
  PROVE  /\ \A k : k \in KeysIn(e) => (\E i \in 1..Len(events') : k \in KeysIn(events'[i]))
         /\ \A k : Sent(k) => (\E i \in 1..Len(events') : k \in KeysIn(events'[i]))
         /\ \A i \in 1..Len(events') : (i \in 1..Len(events) /\ events'[i] = events[i]) \/ events'[i] = e
         /\ Len(events') = Len(events) + 1 /\ Len(events) \in Nat /\ events'[Len(events')] = e
         /\ events' \in Seq(Event)
<1>1. /\ Len(events') = Len(events) + 1 /\ Len(events) \in Nat
      /\ events'[Len(events) + 1] = e /\ \A i \in 1..Len(events) : events'[i] = events[i]
      /\ events' \in Seq(Event)
  OBVIOUS
<1>2. \A k : k \in KeysIn(e) => (\E i \in 1..Len(events') : k \in KeysIn(events'[i]))
  <2>1. Len(events) + 1 \in 1..Len(events')
    BY <1>1
  <2> QED BY <1>1, <2>1
<1>3. \A i \in 1..Len(events) : i \in 1..Len(events')
  BY <1>1
<1>4. \A k : Sent(k) => (\E i \in 1..Len(events') : k \in KeysIn(events'[i]))
  BY <1>1, <1>3 DEF Sent
<1>5. \A i \in 1..Len(events') : i \in 1..Len(events) \/ i = Len(events) + 1
  BY <1>1
<1> QED BY <1>1, <1>2, <1>4, <1>5

LEMMA UserEvent ==
  ASSUME TypeInv, EventsInOrder, gate = "off" => events = <<>>, NEW e \in Event, Notify(e),
         recorded' = recorded, pending' = pending,
         \A q \in Path : \/ KeyFor(q)' \in KeysIn(e)
                         \/ disk'[q] = disk[q] /\ Opposite(KeyFor(q)) \notin KeysIn(e)
  PROVE  /\ events' \in Seq(Event) /\ EventsInOrder'
         /\ gate # "off" => \A q \in Path : Kept(q)
<1>1. events \in Seq(Event)
  BY DEF TypeInv
<1>2. CASE gate = "off"
  <2>1. events' = <<>>
    BY <1>2 DEF Notify
  <2> QED BY <1>2, <2>1 DEF EventsInOrder
<1>3. CASE gate # "off"
  <2>1. events' = Append(events, e)
    BY <1>3 DEF Notify
  <2>2. /\ \A k : k \in KeysIn(e) => (\E i \in 1..Len(events') : k \in KeysIn(events'[i]))
        /\ \A k : Sent(k) => (\E i \in 1..Len(events') : k \in KeysIn(events'[i]))
        /\ \A i \in 1..Len(events') : (i \in 1..Len(events) /\ events'[i] = events[i]) \/ events'[i] = e
        /\ Len(events') = Len(events) + 1 /\ Len(events) \in Nat /\ events'[Len(events')] = e
        /\ events' \in Seq(Event)
    BY <1>1, <2>1, AppendFacts
  <2>3. \A q \in Path : KeyFor(q)' \in KeysIn(e) => Coming(q)'
    BY <2>2 DEF Coming, Sent
  <2>4. ASSUME NEW q \in Path, disk'[q] = disk[q] PROVE Kept(q)
    <3>1. pending.revision[KeyFor(q)] \in Nat
      BY QueueTypes, KeyForFacts
    <3>2. Coming(q) => Coming(q)'
      BY <2>2, <2>4, SameKey DEF Coming, Sent
    <3> QED BY <2>4, <3>1, <3>2 DEF Kept
  <2>5. ASSUME NEW q \in Path, NEW i \in 1..Len(events'), Opposite(KeyFor(q)') \in KeysIn(events'[i])
        PROVE  \E j \in 1..Len(events') : j > i /\ KeyFor(q)' \in KeysIn(events'[j])
    <3>1. KeyFor(q)' \in Key
      BY KeyFacts DEF KeyFor
    <3>2. CASE KeyFor(q)' \in KeysIn(e)
      <4>1. Opposite(KeyFor(q)') \notin KeysIn(e)
        BY <3>2, EventFacts
      <4>2. i \in 1..Len(events)
        BY <2>2, <2>5, <4>1
      <4>3. Len(events') \in 1..Len(events') /\ Len(events') > i
        BY <2>2, <4>2
      <4> QED BY <2>2, <3>2, <4>3
    <3>3. CASE disk'[q] = disk[q] /\ Opposite(KeyFor(q)) \notin KeysIn(e)
      <4>1. KeyFor(q)' = KeyFor(q)
        BY <3>3, SameKey
      <4>2. i \in 1..Len(events) /\ Opposite(KeyFor(q)) \in KeysIn(events[i])
        BY <2>2, <2>5, <3>3, <4>1
      <4>3. PICK j \in 1..Len(events) : j > i /\ KeyFor(q) \in KeysIn(events[j])
        BY <4>2 DEF EventsInOrder
      <4>4. j \in 1..Len(events') /\ events'[j] = events[j]
        <5>1. j \in 1..Len(events')
          BY <2>2
        <5>2. j # Len(events')
          BY <2>2
        <5>3. events'[j] = events[j]
          BY <1>1, <2>1, <5>1, <5>2, <2>2
        <5> QED BY <5>1, <5>3
      <4> QED BY <4>1, <4>3, <4>4
    <3> QED BY <3>2, <3>3
  <2>6. EventsInOrder'
    BY <2>5 DEF EventsInOrder
  <2> QED BY <2>2, <2>3, <2>4, <2>6 DEF Kept
<1> QED BY <1>2, <1>3

LEMMA HeadFacts ==
  ASSUME events \in Seq(Event), events # <<>>, events' = SubSeq(events, 2, Len(events))
  PROVE  /\ Head(events) \in Event /\ events' \in Seq(Event)
         /\ \A k : Sent(k) => k \in KeysIn(Head(events)) \/ (\E i \in 1..Len(events') : k \in KeysIn(events'[i]))
         /\ \A p \in Path : Opposite(KeyFor(p)) \in KeysIn(Head(events)) /\ EventsInOrder =>
              \E i \in 1..Len(events') : KeyFor(p) \in KeysIn(events'[i])
         /\ disk' = disk /\ EventsInOrder => EventsInOrder'
<1>1. /\ Len(events) \in Nat /\ Len(events) >= 1 /\ Head(events) = events[1] /\ Head(events) \in Event
      /\ Len(events') = Len(events) - 1 /\ \A i \in 1..Len(events') : events'[i] = events[i + 1]
      /\ events' \in Seq(Event)
  <2>1. Len(events) \in Nat /\ Len(events) >= 1 /\ Head(events) = events[1] /\ Head(events) \in Event
    OBVIOUS
  <2> DEFINE n == Len(events)
  <2>2. \A i \in 2..n : events[i] \in Event
    OBVIOUS
  <2>3. /\ events' \in Seq(Event) /\ Len(events') = IF 2 <= n THEN n - 2 + 1 ELSE 0
        /\ \A i \in 1..n - 2 + 1 : events'[i] = events[2 + i - 1]
    <3> HIDE DEF n
    <3>1. 2 \in Int /\ n \in Int
      BY <2>1 DEF n
    <3>2. events' = SubSeq(events, 2, n)
      BY DEF n
    <3> QED BY <2>2, <3>1, <3>2, SubSeqProperties
  <2>4. Len(events') = n - 1 /\ \A i \in 1..Len(events') : events'[i] = events[i + 1]
    <3> HIDE DEF n
    <3>1. n \in Nat /\ n >= 1
      BY <2>1 DEF n
    <3>2. Len(events') = n - 1
      BY <2>3, <3>1
    <3>3. \A i \in 1..n - 1 : i \in 1..n - 2 + 1 /\ 2 + i - 1 = i + 1
      BY <3>1
    <3> QED BY <2>3, <3>2, <3>3
  <2> QED BY <2>1, <2>3, <2>4
<1>2. \A i \in 1..Len(events) : i > 1 => i - 1 \in 1..Len(events') /\ events'[i - 1] = events[i]
  BY <1>1
<1>3. \A k : Sent(k) => k \in KeysIn(Head(events)) \/ (\E i \in 1..Len(events') : k \in KeysIn(events'[i]))
  <2> SUFFICES ASSUME NEW k, NEW i \in 1..Len(events), k \in KeysIn(events[i]), k \notin KeysIn(Head(events))
               PROVE  \E j \in 1..Len(events') : k \in KeysIn(events'[j])
    BY DEF Sent
  <2>1. i > 1
    BY <1>1
  <2> QED BY <1>2, <2>1
<1>4. ASSUME NEW p \in Path, Opposite(KeyFor(p)) \in KeysIn(Head(events)), EventsInOrder
      PROVE  \E i \in 1..Len(events') : KeyFor(p) \in KeysIn(events'[i])
  <2>1. PICK j \in 1..Len(events) : j > 1 /\ KeyFor(p) \in KeysIn(events[j])
    BY <1>1, <1>4 DEF EventsInOrder
  <2> QED BY <1>2, <2>1
<1>5. ASSUME disk' = disk, EventsInOrder, NEW p \in Path, NEW i \in 1..Len(events'),
             Opposite(KeyFor(p)) \in KeysIn(events'[i])
      PROVE  \E j \in 1..Len(events') : j > i /\ KeyFor(p) \in KeysIn(events'[j])
  <2>1. i + 1 \in 1..Len(events) /\ events'[i] = events[i + 1]
    BY <1>1
  <2>2. PICK j \in 1..Len(events) : j > i + 1 /\ KeyFor(p) \in KeysIn(events[j])
    BY <1>5, <2>1 DEF EventsInOrder
  <2>3. j - 1 \in 1..Len(events') /\ events'[j - 1] = events[j] /\ j - 1 > i
    BY <1>1, <1>2, <2>2
  <2> QED BY <2>2, <2>3
<1>6. disk' = disk /\ EventsInOrder => EventsInOrder'
  <2> SUFFICES ASSUME disk' = disk, EventsInOrder PROVE EventsInOrder'
    OBVIOUS
  <2> SUFFICES ASSUME NEW p \in Path, NEW i \in 1..Len(events'), Opposite(KeyFor(p)') \in KeysIn(events'[i])
               PROVE  \E j \in 1..Len(events') : j > i /\ KeyFor(p)' \in KeysIn(events'[j])
    BY DEF EventsInOrder
  <2>1. KeyFor(p)' = KeyFor(p)
    BY SameKey
  <2> QED BY <1>5, <2>1
<1> QED BY <1>1, <1>3, <1>4, <1>6

-----------------------------------------------------------------------------
(* What the user, the events and the verification do. *)

LEMMA EventKeys ==
  /\ \A p \in Path : <<"upload", p>> = Upload(p) /\ <<"delete", p>> = Delete(p)
  /\ \A p, q \in Path : KeysIn(<<"rename", p, q>>) = {Delete(p), Upload(q)}
BY DEF Upload, Delete, KeysIn

\* A user's step changes the files and tells, and nothing else.
UserStep ==
  /\ UNCHANGED <<server, base, renames, journal, gate, recorded, owed, pending, verifying, timer, check,
                 work, reports, applied>>
  /\ TypeInv' /\ EventsInOrder'
  /\ gate = "off" => events' = events
  /\ gate # "off" => \A p \in Path : Kept(p)

LEMMA UserStepTypes ==
  ASSUME TypeInv, EventsInOrder, gate = "off" => events = <<>>, NEW e \in Event, Notify(e),
         UNCHANGED <<server, manifest, startup, queue, check, work, reports, applied>>,
         disk' \in [Path -> Content], CountsTyped',
         \A q \in Path : \/ KeyFor(q)' \in KeysIn(e)
                         \/ disk'[q] = disk[q] /\ Opposite(KeyFor(q)) \notin KeysIn(e)
  PROVE  UserStep
<1>1. UNCHANGED <<server, base, renames, journal, gate, recorded, owed, pending, verifying, timer, check,
                  work, reports, applied>>
  BY DEF manifest, startup, queue
<1>2. /\ events' \in Seq(Event) /\ EventsInOrder'
      /\ gate # "off" => \A q \in Path : Kept(q)
  BY <1>1, UserEvent
<1>3. FilesTyped' /\ RenamesTyped' /\ JournalTyped' /\ StartupTyped' /\ QueueTyped' /\ RevisionsBounded'
  BY <1>1 DEF TypeInv, FilesTyped, RenamesTyped, JournalTyped, StartupTyped, QueueTyped, RevisionsBounded, Bounded
<1>4. TypeInv'
  BY <1>1, <1>2, <1>3 DEF TypeInv
<1> QED BY <1>1, <1>2, <1>4 DEF UserStep, Notify

LEMMA EditCounts ==
  ASSUME CountsTyped, used.edits < MaxEdits, Spend("edits"), made' \in {made, made + 1}
  PROVE  CountsTyped' /\ made + 1 \in Content /\ made + 1 # 0
<1>1. /\ used' \in [edits : Nat, foreign : Nat, losses : Nat, stops : Nat]
      /\ used'.edits = used.edits + 1 /\ used'.foreign = used.foreign
      /\ used.edits \in Nat /\ used.foreign \in Nat
  BY DEF CountsTyped, Spend
<1>2. made \in Nat /\ made >= 1 /\ made <= 1 + used.edits + used.foreign /\ used.foreign <= MaxForeign
  BY <1>1 DEF CountsTyped
<1>3. used'.edits <= MaxEdits /\ used'.foreign <= MaxForeign /\ made' \in 1..(1 + used'.edits + used'.foreign)
  BY <1>1, <1>2, ContentFacts
<1>4. made + 1 \in Content /\ made + 1 # 0
  BY <1>1, <1>2, ContentFacts DEF Content
<1> QED BY <1>1, <1>3, <1>4 DEF CountsTyped

LEMMA UserFacts ==
  ASSUME TypeInv, EventsInOrder, gate = "off" => events = <<>>, User
  PROVE  UserStep
<1>0. disk \in [Path -> Content] /\ CountsTyped
  BY DEF TypeInv, FilesTyped
<1>1. ASSUME NEW p \in Path, Write(p) PROVE UserStep
  <2>1. made' = made + 1 /\ disk' = [disk EXCEPT ![p] = made'] /\ Notify(Upload(p))
    BY <1>1, EventKeys DEF Write
  <2>2. CountsTyped' /\ made + 1 \in Content /\ made + 1 # 0
    BY <1>0, <1>1, <2>1, EditCounts DEF Write
  <2>3. disk' \in [Path -> Content] /\ disk'[p] # 0 /\ \A q \in Path : q # p => disk'[q] = disk[q]
    BY <1>0, <2>1, <2>2
  <2>4. KeyFor(p)' = Upload(p)
    BY <2>3 DEF KeyFor
  <2>5. Upload(p) \in Event /\ KeysIn(Upload(p)) = {Upload(p)}
    BY KeyFacts, EventFacts
  <2>6. \A q \in Path : q # p => Opposite(KeyFor(q)) # Upload(p)
    BY KeyForFacts, KeyFacts
  <2>7. \A q \in Path : \/ KeyFor(q)' \in KeysIn(Upload(p))
                        \/ disk'[q] = disk[q] /\ Opposite(KeyFor(q)) \notin KeysIn(Upload(p))
    BY <2>3, <2>4, <2>5, <2>6
  <2> QED BY <1>1, <2>1, <2>2, <2>3, <2>5, <2>7, UserStepTypes DEF Write
<1>2. ASSUME NEW p \in Path, Remove(p) PROVE UserStep
  <2>1. made' = made /\ disk' = [disk EXCEPT ![p] = 0] /\ Notify(Delete(p))
    BY <1>2, EventKeys DEF Remove
  <2>2. CountsTyped'
    BY <1>0, <1>2, <2>1, EditCounts DEF Remove
  <2>3. disk' \in [Path -> Content] /\ disk'[p] = 0 /\ \A q \in Path : q # p => disk'[q] = disk[q]
    BY <1>0, <2>1, ContentFacts
  <2>4. KeyFor(p)' = Delete(p)
    BY <2>3 DEF KeyFor
  <2>5. Delete(p) \in Event /\ KeysIn(Delete(p)) = {Delete(p)}
    BY KeyFacts, EventFacts
  <2>6. \A q \in Path : q # p => Opposite(KeyFor(q)) # Delete(p)
    BY KeyForFacts, KeyFacts
  <2>7. \A q \in Path : \/ KeyFor(q)' \in KeysIn(Delete(p))
                        \/ disk'[q] = disk[q] /\ Opposite(KeyFor(q)) \notin KeysIn(Delete(p))
    BY <2>3, <2>4, <2>5, <2>6
  <2> QED BY <1>2, <2>1, <2>2, <2>3, <2>5, <2>7, UserStepTypes DEF Remove
<1>3. ASSUME NEW p \in Path, NEW q \in Path, Rename(p, q) PROVE UserStep
  <2> DEFINE e == <<"rename", p, q>>
  <2>1. made' = made /\ disk' = [disk EXCEPT ![p] = 0, ![q] = disk[p]] /\ Notify(e) /\ p # q /\ disk[p] # 0
    BY <1>3 DEF Rename
  <2>2. CountsTyped'
    BY <1>0, <1>3, <2>1, EditCounts DEF Rename
  <2>3. /\ disk' \in [Path -> Content] /\ disk'[p] = 0 /\ disk'[q] # 0
        /\ \A r \in Path : r # p /\ r # q => disk'[r] = disk[r]
    BY <1>0, <2>1, ContentFacts
  <2>4. KeyFor(p)' = Delete(p) /\ KeyFor(q)' = Upload(q)
    BY <2>3 DEF KeyFor
  <2>5. e \in Event /\ KeysIn(e) = {Delete(p), Upload(q)}
    BY <2>1, EventFacts, EventKeys
  <2>6. \A r \in Path : r # p /\ r # q => Opposite(KeyFor(r)) \notin {Delete(p), Upload(q)}
    BY KeyForFacts, KeyFacts
  <2> HIDE DEF e
  <2>7. \A r \in Path : \/ KeyFor(r)' \in KeysIn(e)
                        \/ disk'[r] = disk[r] /\ Opposite(KeyFor(r)) \notin KeysIn(e)
    BY <2>3, <2>4, <2>5, <2>6
  <2> QED BY <1>3, <2>1, <2>2, <2>3, <2>5, <2>7, UserStepTypes DEF Rename
<1> QED BY <1>1, <1>2, <1>3 DEF User

\* An event that is delivered or recorded.
HeardStep ==
  /\ UNCHANGED <<disk, base, journal, gate, owed, check, work, reports, applied>>
  /\ pending'.inFlight = pending.inFlight /\ pending'.next >= pending.next
  /\ TypeInv' /\ EventsInOrder'
  /\ \A p \in Path : Kept(p)

\* What PendingSet.add makes of the keys of an event.
LEMMA DeliverKeys ==
  ASSUME TypeInv, NEW e \in Event,
         IF e[1] = "rename" THEN pending' = Add(Add(pending, Delete(e[2])), Upload(e[3]))
                            ELSE pending' = Add(pending, e)
  PROVE  /\ pending' \in PendingSet /\ pending'.inFlight = pending.inFlight
         /\ pending'.next \in Nat /\ pending'.next >= pending.next
         /\ \A k \in Key : pending'.revision[k] \in Nat /\ pending'.revision[k] <= pending'.next
         /\ \A k \in KeysIn(e) : k \in pending'.queued /\ pending'.revision[k] > pending.next
         /\ \A k \in Key : k \notin KeysIn(e) /\ Opposite(k) \notin KeysIn(e) =>
              /\ k \in pending.queued => k \in pending'.queued
              /\ pending'.revision[k] = pending.revision[k]
<1>1. /\ pending \in PendingSet /\ pending.next \in Nat
      /\ \A k \in Key : pending.revision[k] \in Nat /\ pending.revision[k] <= pending.next
  BY QueueTypes
<1>2. CASE e[1] = "rename"
  <2> DEFINE a == Delete(e[2])
             b == Upload(e[3])
             s == Add(pending, a)
  <2>1. e[2] \in Path /\ e[3] \in Path /\ e[2] # e[3] /\ KeysIn(e) = {a, b}
    BY <1>2, EventFacts DEF KeysIn
  <2>2. a \in Key /\ b \in Key /\ a # b /\ a # Opposite(b) /\ b # Opposite(a)
    BY <2>1, KeyFacts
  <2>3. pending' = Add(s, b)
    BY <1>2
  <2> HIDE DEF a, b
  <2>4. /\ s \in PendingSet /\ s.queued = (pending.queued \ {Opposite(a)}) \cup {a}
        /\ s.inFlight = pending.inFlight /\ s.next = pending.next + 1
        /\ s.revision[a] = pending.next + 1 /\ s.revision[Opposite(a)] = 0
        /\ \A l \in Key : l # a /\ l # Opposite(a) => s.revision[l] = pending.revision[l]
    BY <1>1, <2>2, AddFacts
  <2> HIDE DEF s
  <2>5. /\ pending' \in PendingSet /\ pending'.queued = (s.queued \ {Opposite(b)}) \cup {b}
        /\ pending'.inFlight = s.inFlight /\ pending'.next = s.next + 1
        /\ pending'.revision[b] = s.next + 1 /\ pending'.revision[Opposite(b)] = 0
        /\ \A l \in Key : l # b /\ l # Opposite(b) => pending'.revision[l] = s.revision[l]
    BY <2>2, <2>3, <2>4, AddFacts
  <2>6. pending'.next = pending.next + 2
    BY <1>1, <2>4, <2>5
  <2>7. /\ a \in pending'.queued /\ b \in pending'.queued
        /\ pending'.revision[a] = pending.next + 1 /\ pending'.revision[b] = pending.next + 2
    BY <1>1, <2>2, <2>4, <2>5
  <2>8. \A k \in Key : k \notin {a, b} /\ Opposite(k) \notin {a, b} =>
              /\ k \in pending.queued => k \in pending'.queued
              /\ pending'.revision[k] = pending.revision[k]
    <3> SUFFICES ASSUME NEW k \in Key, k \notin {a, b} /\ Opposite(k) \notin {a, b}
                 PROVE  /\ k \in pending.queued => k \in pending'.queued
                        /\ pending'.revision[k] = pending.revision[k]
      OBVIOUS
    <3>1. k # Opposite(a) /\ k # Opposite(b)
      BY <2>2, KeyFacts
    <3> QED BY <2>4, <2>5, <3>1
  <2>9. \A k \in Key : pending'.revision[k] \in Nat /\ pending'.revision[k] <= pending'.next
    <3> SUFFICES ASSUME NEW k \in Key PROVE pending'.revision[k] \in Nat /\ pending'.revision[k] <= pending'.next
      OBVIOUS
    <3>1. s.revision[k] \in {pending.next + 1, 0, pending.revision[k]}
      BY <2>2, <2>4
    <3>2. pending'.revision[k] \in {pending.next + 2, pending.next + 1, 0, pending.revision[k]}
      BY <1>1, <2>2, <2>4, <2>5, <3>1
    <3> QED BY <1>1, <2>6, <3>2
  <2> QED BY <1>1, <2>1, <2>4, <2>5, <2>6, <2>7, <2>8, <2>9
<1>3. CASE e[1] # "rename"
  <2>1. e \in Key /\ KeysIn(e) = {e} /\ pending' = Add(pending, e) /\ Opposite(e) # e
    BY <1>3, EventFacts, KeyFacts
  <2>2. /\ pending' \in PendingSet /\ pending'.queued = (pending.queued \ {Opposite(e)}) \cup {e}
        /\ pending'.inFlight = pending.inFlight /\ pending'.next = pending.next + 1
        /\ pending'.revision[e] = pending.next + 1 /\ pending'.revision[Opposite(e)] = 0
        /\ \A l \in Key : l # e /\ l # Opposite(e) => pending'.revision[l] = pending.revision[l]
    BY <1>1, <2>1, AddFacts
  <2>3. \A k \in Key : k \notin {e} /\ Opposite(k) \notin {e} => k # e /\ k # Opposite(e)
    BY <2>1, KeyFacts
  <2>4. \A k \in Key : pending'.revision[k] \in Nat /\ pending'.revision[k] <= pending'.next
    <3> SUFFICES ASSUME NEW k \in Key PROVE pending'.revision[k] \in Nat /\ pending'.revision[k] <= pending'.next
      OBVIOUS
    <3>1. pending'.revision[k] \in {pending.next + 1, 0, pending.revision[k]}
      BY <2>2
    <3> QED BY <1>1, <2>2, <3>1
  <2> QED BY <1>1, <2>1, <2>2, <2>3, <2>4
<1> QED BY <1>2, <1>3

\* An event that comes off the list is not lost if its keys are taken over.
LEMMA HeardKept ==
  ASSUME TypeInv, EventsInOrder, disk' = disk, events # <<>>, events' = SubSeq(events, 2, Len(events)),
         \A k \in KeysIn(Head(events)) :
            k \in recorded' \/ (k \in pending'.queued /\ pending'.revision[k] > pending.next),
         \A k \in Key : k \notin KeysIn(Head(events)) /\ Opposite(k) \notin KeysIn(Head(events)) =>
            /\ k \in recorded => k \in recorded'
            /\ k \in pending.queued => k \in pending'.queued
            /\ pending'.revision[k] >= pending.revision[k],
         \A k \in KeysIn(Head(events)) : pending'.revision[k] >= pending.revision[k]
                                         /\ (k \in pending.queued => k \in pending'.queued)
  PROVE  (\A p \in Path : Kept(p)) /\ EventsInOrder' /\ events' \in Seq(Event) /\ Head(events) \in Event
<1> DEFINE e == Head(events)
<1>1. /\ e \in Event /\ events' \in Seq(Event)
      /\ \A k : Sent(k) => k \in KeysIn(e) \/ (\E i \in 1..Len(events') : k \in KeysIn(events'[i]))
      /\ \A p \in Path : Opposite(KeyFor(p)) \in KeysIn(e) => \E i \in 1..Len(events') : KeyFor(p) \in KeysIn(events'[i])
      /\ EventsInOrder'
  BY HeadFacts DEF TypeInv
<1> HIDE DEF e
<1>2. ASSUME NEW p \in Path PROVE Kept(p)
  <2>1. KeyFor(p)' = KeyFor(p) /\ KeyFor(p) \in Key
    BY SameKey, KeyForFacts
  <2>2. CASE Opposite(KeyFor(p)) \in KeysIn(e)
    BY <1>1, <2>1, <2>2 DEF Kept, Coming, Sent
  <2>3. CASE KeyFor(p) \in KeysIn(e)
    BY <2>3 DEF Kept, e
  <2>4. CASE KeyFor(p) \notin KeysIn(e) /\ Opposite(KeyFor(p)) \notin KeysIn(e)
    <3>1. Coming(p) => Coming(p)'
      BY <1>1, <2>1, <2>4 DEF Coming, Sent
    <3> QED BY <2>1, <2>4, <3>1 DEF Kept, e
  <2> QED BY <2>2, <2>3, <2>4
<1> QED BY <1>1, <1>2 DEF e

LEMMA DeliverFacts ==
  ASSUME TypeInv, EventsInOrder, Deliver
  PROVE  HeardStep /\ gate = "open" /\ recorded' = recorded
<1> DEFINE e == Head(events)
<1>1. /\ gate = "open" /\ events # <<>> /\ events' = SubSeq(events, 2, Len(events)) /\ timer' = TRUE
      /\ UNCHANGED <<disk, made, used, server, base, journal, gate, recorded, owed, check, work, reports, applied>>
  BY DEF Deliver, vault, startup
<1>2. e \in Event
  BY <1>1, HeadFacts DEF TypeInv
<1>3. /\ e[1] = "rename" => /\ renames' = Renamed(e[2], e[3])
                            /\ pending' = Add(Add(pending, Delete(e[2])), Upload(e[3]))
                            /\ verifying' = (verifying \ {Upload(e[2]), Delete(e[3])}) \cup {Delete(e[2]), Upload(e[3])}
      /\ e[1] # "rename" => /\ pending' = Add(pending, e) /\ renames' = renames
                            /\ verifying' = (verifying \ {Opposite(e)}) \cup {e}
  BY DEF Deliver, Enqueue
<1> HIDE DEF e
<1>4. /\ pending' \in PendingSet /\ pending'.inFlight = pending.inFlight
      /\ pending'.next \in Nat /\ pending'.next >= pending.next
      /\ \A k \in Key : pending'.revision[k] \in Nat /\ pending'.revision[k] <= pending'.next
      /\ \A k \in KeysIn(e) : k \in pending'.queued /\ pending'.revision[k] > pending.next
      /\ \A k \in Key : k \notin KeysIn(e) /\ Opposite(k) \notin KeysIn(e) =>
           /\ k \in pending.queued => k \in pending'.queued
           /\ pending'.revision[k] = pending.revision[k]
  BY <1>2, <1>3, DeliverKeys
<1>5. KeysIn(e) \subseteq Key
  BY <1>2, EventFacts
<1>6. \A k \in Key : pending.revision[k] \in Nat /\ pending.revision[k] <= pending.next /\ pending.next \in Nat
  BY QueueTypes
<1>7. \A k \in KeysIn(e) : pending'.revision[k] >= pending.revision[k] /\ (k \in pending.queued => k \in pending'.queued)
  BY <1>4, <1>5, <1>6
<1>8. (\A p \in Path : Kept(p)) /\ EventsInOrder' /\ events' \in Seq(Event)
  <2>1. \A k \in Key : k \notin KeysIn(e) /\ Opposite(k) \notin KeysIn(e) =>
            /\ k \in recorded => k \in recorded'
            /\ k \in pending.queued => k \in pending'.queued
            /\ pending'.revision[k] >= pending.revision[k]
    BY <1>1, <1>4, <1>6
  <2> QED BY <1>1, <1>4, <1>7, <2>1, HeardKept DEF e
<1>9. RenamesTyped'
  <2>1. CASE e[1] # "rename"
    BY <1>3, <2>1 DEF TypeInv, RenamesTyped
  <2>2. CASE e[1] = "rename"
    <3>1. e[2] \in Path /\ e[3] \in Path /\ e[2] # e[3]
      BY <1>2, <2>2, EventFacts
    <3> DEFINE p == e[2]
               q == e[3]
               moved == [o \in Path |-> IF renames[o] = p THEN IF o = q THEN None ELSE q ELSE renames[o]]
    <3>2. renames \in [Path -> Maybe(Path)] /\ \A o \in Path : renames[o] # o
      BY DEF TypeInv, RenamesTyped
    <3>3. moved \in [Path -> Maybe(Path)] /\ \A o \in Path : moved[o] # o
      BY <3>1, <3>2, PathAssumption DEF Maybe
    <3>4. renames' = moved \/ renames' = [moved EXCEPT ![p] = q]
      BY <1>3, <2>2 DEF Renamed
    <3> HIDE DEF moved
    <3> QED BY <3>1, <3>3, <3>4 DEF RenamesTyped, Maybe
  <2> QED BY <2>1, <2>2
<1>10. verifying' \in SUBSET Key
  <2>1. verifying \in SUBSET Key
    BY DEF TypeInv, QueueTyped
  <2>2. CASE e[1] = "rename"
    <3>1. Delete(e[2]) \in Key /\ Upload(e[3]) \in Key
      BY <1>2, <2>2, EventFacts, KeyFacts
    <3> QED BY <1>3, <2>1, <2>2, <3>1
  <2>3. CASE e[1] # "rename"
    <3>1. e \in Key
      BY <1>2, <2>3, EventFacts
    <3> QED BY <1>3, <2>1, <2>3, <3>1
  <2> QED BY <2>2, <2>3
<1>11. RevisionsBounded'
  <2>1. Bounded(work.revisions) /\ (check # None => Bounded(check.revisions)) /\ (applied # None => Bounded(applied.revisions))
    BY DEF TypeInv, RevisionsBounded
  <2>2. \A k \in Key : work.revisions[k] \in Nat
    BY DEF TypeInv, Run, Revisions
  <2>3. check # None => \A k \in Key : check.revisions[k] \in Nat
    BY DEF TypeInv, Verified, Revisions, Maybe
  <2>4. applied # None => \A k \in Key : applied.revisions[k] \in Nat
    BY DEF TypeInv, Applied, Revisions, Maybe
  <2>5. pending.next \in Nat
    BY QueueTypes
  <2>6. \A n \in Nat : n <= pending.next => n <= pending'.next
    BY <1>4, <2>5
  <2> QED BY <1>1, <1>4, <2>1, <2>2, <2>3, <2>4, <2>6 DEF RevisionsBounded, Bounded
<1>12. TypeInv'
  <2>1. FilesTyped' /\ CountsTyped' /\ JournalTyped' /\ StartupTyped' /\ QueueTyped'
    BY <1>1, <1>4, <1>10 DEF TypeInv, FilesTyped, CountsTyped, JournalTyped, StartupTyped, QueueTyped
  <2> QED BY <1>1, <1>8, <1>9, <1>11, <2>1 DEF TypeInv
<1> QED BY <1>1, <1>4, <1>8, <1>12 DEF HeardStep

LEMMA RecordFacts ==
  ASSUME TypeInv, EventsInOrder, Record
  PROVE  HeardStep /\ gate = "recording" /\ UNCHANGED <<pending, verifying>>
<1> DEFINE e == Head(events)
<1>1. /\ gate = "recording" /\ events # <<>> /\ events' = SubSeq(events, 2, Len(events))
      /\ UNCHANGED <<disk, made, used, server, base, renames, journal, gate, owed, pending, verifying, timer, check,
                     work, reports, applied>>
  BY DEF Record, vault, manifest, queue
<1>2. e \in Event
  BY <1>1, HeadFacts DEF TypeInv
<1>3. /\ e[1] = "rename" => recorded' = (recorded \ {Upload(e[2]), Delete(e[3])}) \cup {Delete(e[2]), Upload(e[3])}
      /\ e[1] # "rename" => recorded' = (recorded \ {Opposite(e)}) \cup {e}
  BY DEF Record
<1> HIDE DEF e
<1>4. /\ KeysIn(e) \subseteq recorded'
      /\ \A k \in Key : k \notin KeysIn(e) /\ Opposite(k) \notin KeysIn(e) => (k \in recorded => k \in recorded')
      /\ recorded' \in SUBSET Key
  <2>1. recorded \in SUBSET Key
    BY DEF TypeInv, StartupTyped
  <2>2. CASE e[1] = "rename"
    <3>1. e[2] \in Path /\ e[3] \in Path /\ KeysIn(e) = {Delete(e[2]), Upload(e[3])}
      BY <1>2, <2>2, EventFacts DEF KeysIn
    <3>2. Delete(e[2]) \in Key /\ Upload(e[3]) \in Key /\ Opposite(Upload(e[2])) = Delete(e[2])
          /\ Opposite(Delete(e[3])) = Upload(e[3])
      BY <3>1, KeyFacts
    <3> QED BY <1>3, <2>1, <2>2, <3>1, <3>2
  <2>3. CASE e[1] # "rename"
    <3>1. e \in Key /\ KeysIn(e) = {e} /\ Opposite(Opposite(e)) = e
      BY <1>2, <2>3, EventFacts, KeyFacts
    <3> QED BY <1>3, <2>1, <2>3, <3>1
  <2> QED BY <2>2, <2>3
<1>5. /\ KeysIn(e) \subseteq Key /\ pending.next \in Nat /\ pending'.next >= pending.next
      /\ \A k \in Key : pending'.revision[k] >= pending.revision[k]
  BY <1>1, <1>2, EventFacts, QueueTypes
<1>6. (\A p \in Path : Kept(p)) /\ EventsInOrder' /\ events' \in Seq(Event)
  <2>1. \A k \in Key : k \notin KeysIn(e) /\ Opposite(k) \notin KeysIn(e) =>
            /\ k \in recorded => k \in recorded'
            /\ k \in pending.queued => k \in pending'.queued
            /\ pending'.revision[k] >= pending.revision[k]
    BY <1>1, <1>4, <1>5
  <2>2. \A k \in KeysIn(e) : /\ k \in recorded' /\ pending'.revision[k] >= pending.revision[k]
                             /\ (k \in pending.queued => k \in pending'.queued)
    BY <1>1, <1>4, <1>5
  <2> QED BY <1>1, <2>1, <2>2, HeardKept DEF e
<1>7. TypeInv'
  <2>1. /\ FilesTyped' /\ CountsTyped' /\ RenamesTyped' /\ JournalTyped' /\ StartupTyped' /\ QueueTyped'
        /\ RevisionsBounded'
    BY <1>1, <1>4 DEF TypeInv, FilesTyped, CountsTyped, RenamesTyped, JournalTyped, StartupTyped, QueueTyped,
                      RevisionsBounded, Bounded
  <2> QED BY <1>1, <1>6, <2>1 DEF TypeInv
<1> QED BY <1>1, <1>5, <1>6, <1>7 DEF HeardStep

\* A step beside the files, the queue's keys and the work under way.
AsideStep ==
  /\ UNCHANGED <<disk, base, journal, gate, recorded, owed, events, pending, work, applied>>
  /\ TypeInv'

LEMMA AsideTypes ==
  ASSUME TypeInv, UNCHANGED <<disk, base, renames, journal, gate, recorded, owed, events, pending, work, applied>>,
         server' \in [Path -> Content], CountsTyped', verifying' \in SUBSET Key, timer' \in BOOLEAN,
         check' \in Maybe(Verified), check' # None => Bounded(check'.revisions), reports' \in SUBSET Report
  PROVE  AsideStep
<1>1. FilesTyped' /\ RenamesTyped' /\ JournalTyped' /\ StartupTyped' /\ QueueTyped'
  BY DEF TypeInv, FilesTyped, RenamesTyped, JournalTyped, StartupTyped, QueueTyped
<1>2. RevisionsBounded'
  BY DEF TypeInv, RevisionsBounded, Bounded
<1> QED BY <1>1, <1>2 DEF TypeInv, AsideStep

LEMMA ForeignFacts ==
  ASSUME TypeInv, NEW p \in Path, Foreign(p)
  PROVE  AsideStep /\ UNCHANGED <<verifying, check, reports>>
<1>1. UNCHANGED <<disk, base, renames, journal, gate, recorded, owed, events, pending, verifying, timer, check,
                  work, reports, applied>>
  BY DEF Foreign, manifest, startup, queue
<1>2. used.foreign < MaxForeign /\ Spend("foreign") /\ CountsTyped /\ server \in [Path -> Content] /\ made' \in {made, made + 1}
  BY DEF Foreign, TypeInv, FilesTyped
<1>3. /\ used' \in [edits : Nat, foreign : Nat, losses : Nat, stops : Nat]
      /\ used'.edits = used.edits /\ used'.foreign = used.foreign + 1
      /\ used.edits \in Nat /\ used.foreign \in Nat
  BY <1>2 DEF CountsTyped, Spend
<1>4. made \in Nat /\ made >= 1 /\ made <= 1 + used.edits + used.foreign /\ used.edits <= MaxEdits
  BY <1>2, <1>3 DEF CountsTyped
<1>5. used'.edits <= MaxEdits /\ used'.foreign <= MaxForeign /\ made' \in 1..(1 + used'.edits + used'.foreign)
  BY <1>2, <1>3, <1>4, ContentFacts
<1>6. CountsTyped'
  BY <1>3, <1>5 DEF CountsTyped
<1>7. made + 1 \in Content
  BY <1>2, <1>3, <1>4, ContentFacts DEF Content
<1>8. server' \in [Path -> Content]
  BY <1>2, <1>7, ContentFacts DEF Foreign
<1>9. /\ verifying' \in SUBSET Key /\ timer' \in BOOLEAN /\ check' \in Maybe(Verified)
      /\ check' # None => Bounded(check'.revisions)
      /\ reports' \in SUBSET Report
  BY <1>1 DEF TypeInv, QueueTyped, RevisionsBounded
<1> QED BY <1>1, <1>6, <1>8, <1>9, AsideTypes

LEMMA BeginVerifyFacts ==
  ASSUME TypeInv, BeginVerify
  PROVE  /\ AsideStep /\ UNCHANGED reports /\ verifying' = {} /\ verifying # {} /\ ~Syncing
         /\ check' \in Verified /\ check'.matches = {}
<1> DEFINE c == [todo |-> verifying, revisions |-> pending.revision, active |-> TRUE, matches |-> {}]
<1>1. /\ UNCHANGED <<disk, made, used, server, base, renames, journal, gate, recorded, owed, events, pending, timer,
                     work, reports, applied>>
      /\ verifying' = {} /\ verifying # {} /\ ~Syncing /\ check' = c
  BY DEF BeginVerify, vault, manifest, startup
<1>2. c \in Verified /\ c.matches = {} /\ c.revisions = pending.revision
  <2>1. verifying \in SUBSET Key /\ pending.revision \in Revisions
    BY DEF TypeInv, QueueTyped, PendingSet
  <2> QED BY <2>1 DEF Verified
<1>3. Bounded(pending.revision) /\ server' \in [Path -> Content] /\ CountsTyped' /\ timer' \in BOOLEAN
      /\ reports' \in SUBSET Report
  BY <1>1 DEF TypeInv, RevisionsBounded, FilesTyped, CountsTyped, QueueTyped
<1> HIDE DEF c
<1>4. AsideStep
  BY <1>1, <1>2, <1>3, AsideTypes DEF Maybe
<1> QED BY <1>1, <1>2, <1>4

LEMMA CheckFacts ==
  ASSUME TypeInv, check # None
  PROVE  check \in Verified /\ Bounded(check.revisions)
         /\ \A k \in Key : check.revisions[k] \in Nat /\ check.revisions[k] <= pending.next
<1>1. check \in Verified /\ Bounded(check.revisions)
  BY DEF TypeInv, Maybe, RevisionsBounded
<1> QED BY <1>1 DEF Verified, Revisions, Bounded

LEMMA VerifyFacts ==
  ASSUME TypeInv, NEW k \in Key, Verify(k)
  PROVE  /\ AsideStep /\ UNCHANGED <<verifying, reports>> /\ check # None /\ check' \in Verified
         /\ check'.active = check.active /\ check'.revisions = check.revisions
         /\ \A m \in check'.matches : m \in check.matches \/ (m[1][2] = k[2] /\ disk[k[2]] = base[k[2]])
<1> DEFINE t == check.todo \ {k}
           m == check.matches \cup (IF Current(k) /\ Matches(k) THEN {<<k, base[k[2]]>>} ELSE {})
<1>1. /\ UNCHANGED <<disk, made, used, server, base, renames, journal, gate, recorded, owed, events, pending, timer,
                     verifying, work, reports, applied>>
      /\ check # None /\ check' = [check EXCEPT !.todo = t, !.matches = m]
  BY DEF Verify, vault, manifest, startup, queue
<1>2. check \in Verified /\ Bounded(check.revisions)
  BY <1>1, CheckFacts
<1>3. t \in SUBSET Key /\ m \in SUBSET (Key \X Content)
  <2>1. k[2] \in Path /\ base[k[2]] \in Content
    BY KeyFacts DEF TypeInv, FilesTyped
  <2>2. <<k, base[k[2]]>> \in Key \X Content
    BY <2>1
  <2> HIDE DEF t
  <2>3. check.matches \in SUBSET (Key \X Content) /\ check.todo \in SUBSET Key
    BY <1>2 DEF Verified
  <2> QED BY <2>2, <2>3 DEF t
<1>4. \A n \in m : n \in check.matches \/ (n[1][2] = k[2] /\ disk[k[2]] = base[k[2]])
  <2>1. Matches(k) => disk[k[2]] = base[k[2]]
    BY DEF Matches
  <2> QED BY <2>1
<1> HIDE DEF t, m
<1>5. check' \in Verified /\ check'.revisions = check.revisions /\ check'.matches = m
  BY <1>1, <1>2, <1>3 DEF Verified
<1>6. check'.active = check.active
  BY <1>1, <1>2 DEF Verified
<1>7. /\ server' \in [Path -> Content] /\ CountsTyped' /\ verifying' \in SUBSET Key /\ timer' \in BOOLEAN
      /\ reports' \in SUBSET Report
  BY <1>1 DEF TypeInv, FilesTyped, CountsTyped, QueueTyped
<1>8. AsideStep
  BY <1>1, <1>2, <1>5, <1>7, AsideTypes DEF Maybe
<1> QED BY <1>1, <1>4, <1>5, <1>6, <1>8

\* A verification that ends settles what still matches.
LEMMA EndVerifyFacts ==
  ASSUME TypeInv, EndVerify
  PROVE  /\ TypeInv' /\ UNCHANGED <<disk, base, journal, gate, recorded, owed, events, verifying, work, reports, applied>>
         /\ check # None /\ check' = None
         /\ pending'.inFlight = pending.inFlight /\ pending'.next = pending.next
         /\ pending'.queued \subseteq pending.queued
         /\ \A k \in Key :
              \/ /\ k \in pending.queued => k \in pending'.queued
                 /\ pending'.revision[k] = pending.revision[k]
              \/ /\ check.active /\ ~Syncing /\ (\A p \in Path : journal[p] = None)
                 /\ \E m \in check.matches : m[1] = k
                 /\ pending.revision[k] = check.revisions[k]
<1> DEFINE settled == {m[1] : m \in {n \in check.matches : Current(n[1]) /\ base[n[1][2]] = n[2]}}
<1>1. /\ UNCHANGED <<disk, made, used, server, base, renames, journal, gate, recorded, owed, events, verifying,
                     work, reports, applied>>
      /\ check # None /\ check' = None /\ pending' = Settle(pending, settled, check.revisions)
      /\ timer' = (timer /\ pending'.queued # {})
  BY DEF EndVerify, vault, manifest, startup
<1>2. check \in Verified /\ pending \in PendingSet
  BY <1>1, CheckFacts, QueueTypes
<1>3. settled \in SUBSET Key
  BY <1>2 DEF Verified
<1>4. \A k \in settled : /\ check.active /\ ~Syncing /\ \A p \in Path : journal[p] = None
                         /\ \E m \in check.matches : m[1] = k
                         /\ pending.revision[k] = check.revisions[k]
  BY DEF Current
<1> HIDE DEF settled
<1>5. /\ pending' \in PendingSet /\ pending'.inFlight = pending.inFlight /\ pending'.next = pending.next
      /\ pending'.queued \subseteq pending.queued
      /\ \A k \in Key :
           \/ /\ k \in pending.queued => k \in pending'.queued
              /\ pending'.revision[k] = pending.revision[k]
           \/ /\ k \in settled /\ pending.revision[k] = check.revisions[k]
              /\ pending'.revision[k] = 0 \/ pending'.revision[k] = pending.revision[k]
  <2>1. SettledFrom(pending', pending, settled, check.revisions)
    BY <1>1, <1>2, <1>3, SettleFacts
  <2> QED BY <2>1 DEF SettledFrom
<1>7. RevisionsBounded'
  <2>1. \A k \in Key : pending.revision[k] \in Nat /\ pending.revision[k] <= pending.next /\ pending.next \in Nat
    BY QueueTypes
  <2>2. \A k \in Key : pending'.revision[k] <= pending'.next
    BY <1>5, <2>1
  <2> QED BY <1>1, <1>5, <2>2 DEF TypeInv, RevisionsBounded, Bounded
<1>8. TypeInv'
  <2>1. FilesTyped' /\ CountsTyped' /\ RenamesTyped' /\ JournalTyped' /\ StartupTyped'
    BY <1>1 DEF TypeInv, FilesTyped, CountsTyped, RenamesTyped, JournalTyped, StartupTyped
  <2>2. QueueTyped'
    BY <1>1, <1>5 DEF TypeInv, QueueTyped
  <2> QED BY <1>1, <1>7, <2>1, <2>2 DEF TypeInv, Maybe
<1> QED BY <1>1, <1>4, <1>5, <1>8

-----------------------------------------------------------------------------
(* How work starts and ends. *)

LEMMA IdleFacts ==
  /\ Idle \in Run /\ Idle.kind = "none" /\ Idle.pc = "idle" /\ Idle.batch = {} /\ Idle.uploads = {}
  /\ Idle.sending = {} /\ Idle.settled = {} /\ Idle.conflicts = {} /\ Idle.expect = NoExpectation
  /\ Idle.revisions = NoRevisions /\ Idle.failed = {} /\ Idle.clash = FALSE
<1>1. NoRevisions \in Revisions /\ NoExpectation \in [Path -> Content]
  BY ContentFacts DEF NoRevisions, Revisions, NoExpectation
<1>2. [p \in Path |-> 0] \in [Path -> Nat]
  OBVIOUS
<1> QED BY <1>1, <1>2 DEF Idle, Run

\* Work of this kind has just begun.
Begun(kind, batch) ==
  /\ work' \in Run /\ work'.kind = kind /\ work'.pc = "recover" /\ work'.batch = batch
  /\ work'.revisions = pending.revision /\ work'.uploads = {} /\ work'.expect = NoExpectation
  /\ work'.sending = {} /\ work'.settled = {} /\ work'.conflicts = {}
  /\ work'.clash = FALSE /\ work'.seen = used.edits - Len(events)
  /\ check' \in Maybe(Verified)
  /\ check' # None => check # None /\ ~check'.active /\ check'.revisions = check.revisions

LEMMA EnterFacts ==
  ASSUME TypeInv, NEW w \in Run, w.pc = "recover", w.revisions = pending.revision, w.uploads = {},
         w.expect = NoExpectation, w.sending = {}, w.settled = {}, w.conflicts = {},
         w.clash = FALSE, Enter(w)
  PROVE  Begun(w.kind, w.batch) /\ work'.todo = w.todo
<1> DEFINE n == used.edits - Len(events)
<1>1. n \in Int
  <2>1. used.edits \in Nat /\ events \in Seq(Event)
    BY DEF TypeInv, CountsTyped
  <2>2. Len(events) \in Nat
    BY <2>1
  <2> QED BY <2>1, <2>2
<1>2. work' = [w EXCEPT !.seen = n] /\ check' = IF check = None THEN None ELSE [check EXCEPT !.active = FALSE]
  BY DEF Enter
<1> HIDE DEF n
<1>4. /\ work' \in Run /\ work'.kind = w.kind /\ work'.pc = w.pc /\ work'.batch = w.batch
      /\ work'.revisions = w.revisions
      /\ work'.uploads = w.uploads /\ work'.expect = w.expect /\ work'.sending = w.sending
      /\ work'.settled = w.settled /\ work'.todo = w.todo /\ work'.conflicts = w.conflicts
      /\ work'.seen = n
  BY <1>1, <1>2 DEF Run
<1>6. work'.clash = w.clash
  BY <1>1, <1>2 DEF Run
<1>5. /\ check' \in Maybe(Verified)
      /\ check' # None => check # None /\ ~check'.active /\ check'.revisions = check.revisions
  <2>1. CASE check = None
    BY <1>2, <2>1 DEF Maybe
  <2>2. CASE check # None
    <3>1. check \in Verified /\ check' = [check EXCEPT !.active = FALSE]
      BY <1>2, <2>2, CheckFacts
    <3>2. check' \in Verified /\ check'.active = FALSE /\ check'.revisions = check.revisions
      BY <3>1 DEF Verified
    <3> QED BY <2>2, <3>2 DEF Maybe
  <2> QED BY <2>1, <2>2
<1> QED BY <1>4, <1>5, <1>6 DEF Begun, n

\* A run that begins: its kind, the keys and the paths it is given.
NewRun(w, kind, batch, todo) ==
  \/ /\ batch = {}
     /\ w = [Idle EXCEPT !.kind = kind, !.pc = "recover", !.todo = todo, !.revisions = pending.revision]
  \/ /\ todo = {}
     /\ w = [Idle EXCEPT !.kind = kind, !.pc = "recover", !.batch = batch, !.revisions = pending.revision]
  \/ w = [Idle EXCEPT !.kind = kind, !.pc = "recover", !.batch = batch, !.todo = todo,
                      !.revisions = pending.revision]

LEMMA NewRunFacts ==
  ASSUME TypeInv, NEW kind \in {"flush", "reconcile", "sync", "startup"}, NEW batch \in SUBSET Key,
         NEW todo \in SUBSET Path, NEW w, NewRun(w, kind, batch, todo),
         Enter(w)
  PROVE  Begun(kind, batch) /\ work'.todo = todo
<1> DEFINE r == pending.revision
<1>1. r \in Revisions
  BY DEF TypeInv, QueueTyped, PendingSet
<1>2. Idle.todo = {}
  BY DEF Idle
<1>3. \/ batch = {} /\ w = [Idle EXCEPT !.kind = kind, !.pc = "recover", !.todo = todo, !.revisions = r]
      \/ todo = {} /\ w = [Idle EXCEPT !.kind = kind, !.pc = "recover", !.batch = batch, !.revisions = r]
      \/ w = [Idle EXCEPT !.kind = kind, !.pc = "recover", !.batch = batch, !.todo = todo, !.revisions = r]
  BY DEF NewRun
<1> HIDE DEF r
<1>4. /\ w \in Run /\ w.kind = kind /\ w.pc = "recover" /\ w.batch = batch /\ w.revisions = r
      /\ w.uploads = {} /\ w.expect = NoExpectation /\ w.sending = {} /\ w.settled = {} /\ w.todo = todo
      /\ w.conflicts = {}
  <2>1. CASE batch = {} /\ w = [Idle EXCEPT !.kind = kind, !.pc = "recover", !.todo = todo, !.revisions = r]
    BY <1>1, <1>2, <2>1, IdleFacts DEF Run
  <2>2. CASE todo = {} /\ w = [Idle EXCEPT !.kind = kind, !.pc = "recover", !.batch = batch, !.revisions = r]
    BY <1>1, <1>2, <2>2, IdleFacts DEF Run
  <2>3. CASE w = [Idle EXCEPT !.kind = kind, !.pc = "recover", !.batch = batch, !.todo = todo, !.revisions = r]
    BY <1>1, <1>2, <2>3, IdleFacts DEF Run
  <2> QED BY <1>3, <2>1, <2>2, <2>3
<1>5. w.clash = FALSE
  BY <1>1, <1>3, IdleFacts DEF Run
<1> QED BY <1>4, <1>5, EnterFacts DEF r

LEMMA BeginTypes ==
  ASSUME TypeInv, NEW kind, NEW batch, Begun(kind, batch),
         UNCHANGED <<vault, server, manifest, used, events, applied>>,
         StartupTyped', QueueTyped', reports' \in SUBSET Report,
         pending'.revision = pending.revision, pending'.next = pending.next
  PROVE  TypeInv'
<1>1. UNCHANGED <<disk, made, server, base, renames, journal>>
  BY DEF vault, manifest
<1>2. FilesTyped' /\ CountsTyped' /\ RenamesTyped' /\ JournalTyped'
  BY <1>1 DEF TypeInv, FilesTyped, CountsTyped, RenamesTyped, JournalTyped
<1>3. RevisionsBounded'
  BY DEF TypeInv, RevisionsBounded, Bounded, Begun
<1>4. work' \in Run /\ check' \in Maybe(Verified) /\ work'.pc # "uploading"
  BY DEF Begun
<1> QED BY <1>2, <1>3, <1>4 DEF TypeInv

LEMMA BeginFlushFacts ==
  ASSUME TypeInv, BeginFlush
  PROVE  /\ ~Syncing /\ UNCHANGED <<disk, base, journal, gate, recorded, owed, events, verifying, reports, applied>>
         /\ TypeInv'
         /\ \/ UNCHANGED <<pending, work, check>>
            \/ /\ Begun("flush", pending.queued) /\ pending.queued # {}
               /\ pending'.queued = {} /\ pending'.inFlight = pending.inFlight \cup pending.queued
               /\ pending'.revision = pending.revision /\ pending'.next = pending.next
<1>1. /\ ~Syncing /\ timer' = FALSE
      /\ UNCHANGED <<disk, made, used, server, base, renames, journal, gate, recorded, owed, events, verifying, reports,
                     applied>>
  BY DEF BeginFlush, vault, manifest, startup
<1>2. pending \in PendingSet /\ pending.queued \in SUBSET Key
  BY QueueTypes
<1>3. StartupTyped' /\ reports' \in SUBSET Report
  BY <1>1 DEF TypeInv, StartupTyped
<1>4. CASE pending.queued = {}
  <2>1. UNCHANGED <<pending, work, check>>
    BY <1>4 DEF BeginFlush
  <2>2. FilesTyped' /\ CountsTyped' /\ RenamesTyped' /\ JournalTyped' /\ QueueTyped' /\ RevisionsBounded'
    BY <1>1, <2>1 DEF TypeInv, FilesTyped, CountsTyped, RenamesTyped, JournalTyped, QueueTyped, RevisionsBounded, Bounded
  <2> QED BY <1>1, <1>3, <2>1, <2>2 DEF TypeInv
<1>5. CASE pending.queued # {}
  <2> DEFINE q == pending.queued
             f == pending.inFlight \cup pending.queued
  <2>1. Enter([Idle EXCEPT !.kind = "flush", !.pc = "recover", !.batch = q, !.revisions = pending.revision])
    BY <1>5 DEF BeginFlush
  <2>3. Begun("flush", q)
    <3> DEFINE w == [Idle EXCEPT !.kind = "flush", !.pc = "recover", !.batch = q, !.revisions = pending.revision]
    <3>1. NewRun(w, "flush", q, {}) /\ Enter(w)
      BY <2>1 DEF NewRun
    <3>2. {} \in SUBSET Path
      OBVIOUS
    <3> HIDE DEF w
    <3> QED BY <1>2, <3>1, <3>2, NewRunFacts
  <2>4. f \in SUBSET Key /\ pending' = [pending EXCEPT !.queued = {}, !.inFlight = f]
    BY <1>2, <1>5, QueueTypes DEF BeginFlush
  <2> HIDE DEF f
  <2>5. /\ pending' \in PendingSet /\ pending'.queued = {} /\ pending'.inFlight = f
        /\ pending'.revision = pending.revision /\ pending'.next = pending.next
    BY <1>2, <2>4 DEF PendingSet
  <2>6. QueueTyped'
    BY <1>1, <2>5 DEF TypeInv, QueueTyped
  <2>7. TypeInv'
    BY <1>1, <1>3, <2>3, <2>5, <2>6, BeginTypes DEF vault, manifest, BeginFlush
  <2> QED BY <1>1, <1>5, <2>3, <2>5, <2>7 DEF f
<1> QED BY <1>4, <1>5

LEMMA PeriodicSyncFacts ==
  ASSUME TypeInv, PeriodicSync
  PROVE  /\ ~Syncing /\ gate = "open" /\ TypeInv'
         /\ UNCHANGED <<disk, base, journal, gate, recorded, owed, events, pending, verifying, reports, applied>>
         /\ Begun("sync", {}) /\ work'.todo = Path
<1>1. /\ ~Syncing /\ gate = "open" /\ Enter(Sync("sync"))
      /\ UNCHANGED <<disk, vault, server, base, journal, manifest, gate, recorded, owed, events, pending, verifying, timer,
                     reports, applied, used>>
  BY DEF PeriodicSync, vault, manifest, startup, queue
<1>2. NewRun(Sync("sync"), "sync", {}, Path)
  BY DEF NewRun, Sync
<1>3. Begun("sync", {}) /\ work'.todo = Path
  <2>1. {} \in SUBSET Key /\ Path \in SUBSET Path
    OBVIOUS
  <2> QED BY <1>1, <1>2, <2>1, NewRunFacts
<1>4. StartupTyped' /\ QueueTyped' /\ reports' \in SUBSET Report
  BY <1>1 DEF TypeInv, StartupTyped, QueueTyped
<1>5. TypeInv'
  BY <1>1, <1>3, <1>4, BeginTypes
<1> QED BY <1>1, <1>3, <1>5

LEMMA StartFacts ==
  ASSUME TypeInv, Start
  PROVE  /\ gate = "off" /\ gate' = "recording" /\ TypeInv'
         /\ owed' = {p \in Path : disk[p] # base[p] \/ journal[p] # None}
         /\ UNCHANGED <<disk, base, journal, recorded, events, pending, verifying, reports, applied>>
         /\ Begun("startup", {}) /\ work'.todo = Path
<1>1. /\ gate = "off" /\ gate' = "recording" /\ Enter(Sync("startup"))
      /\ owed' = {p \in Path : disk[p] # base[p] \/ journal[p] # None}
      /\ UNCHANGED <<disk, vault, server, base, journal, manifest, recorded, events, pending, verifying, timer,
                     reports, applied, used>>
  BY DEF Start, vault, manifest, queue
<1>2. NewRun(Sync("startup"), "startup", {}, Path)
  BY DEF NewRun, Sync
<1>3. Begun("startup", {}) /\ work'.todo = Path
  <2>1. {} \in SUBSET Key /\ Path \in SUBSET Path
    OBVIOUS
  <2> QED BY <1>1, <1>2, <2>1, NewRunFacts
<1>4. StartupTyped' /\ QueueTyped' /\ reports' \in SUBSET Report
  BY <1>1 DEF TypeInv, StartupTyped, QueueTyped
<1>5. TypeInv'
  BY <1>1, <1>3, <1>4, BeginTypes
<1> QED BY <1>1, <1>3, <1>5

LEMMA EndReportFacts ==
  ASSUME TypeInv, NEW r \in reports, EndReport(r)
  PROVE  /\ TypeInv' /\ reports' \subseteq reports
         /\ UNCHANGED <<disk, base, journal, gate, recorded, owed, events, pending, verifying, applied>>
         /\ \/ UNCHANGED <<work, check>>
            \/ ~Syncing /\ \E batch \in SUBSET Key : Begun("reconcile", batch)
<1>2. r \in Report /\ timer \in BOOLEAN
  BY DEF TypeInv, QueueTyped
<1>1. /\ reports' = reports \ {r}
      /\ UNCHANGED <<disk, made, renames, vault, server, base, journal, manifest, gate, recorded, owed, events, pending,
                     verifying, applied, used>>
  <2>1. r.released = TRUE
    BY <1>2 DEF Report
  <2> QED BY <2>1 DEF EndReport, Finalize, vault, manifest, startup
<1>3. StartupTyped' /\ QueueTyped' /\ reports' \in SUBSET Report
  <2>1. timer' \in BOOLEAN
    BY <1>2 DEF EndReport
  <2> QED BY <1>1, <2>1 DEF TypeInv, StartupTyped, QueueTyped
<1>4. CASE UNCHANGED <<work, check>>
  <2>1. FilesTyped' /\ CountsTyped' /\ RenamesTyped' /\ JournalTyped' /\ RevisionsBounded'
    BY <1>1, <1>4 DEF TypeInv, FilesTyped, CountsTyped, RenamesTyped, JournalTyped, RevisionsBounded, Bounded
  <2> QED BY <1>1, <1>3, <1>4, <2>1 DEF TypeInv
<1>5. CASE ~Syncing /\ Enter(Reconciliation(r.conflicts))
  <2> DEFINE c == r.conflicts
  <2>1. c \in SUBSET Key /\ PathsOf(c) \in SUBSET Path
    <3>1. c \in SUBSET Key
      BY <1>2 DEF Report
    <3> QED BY <3>1, KeyFacts DEF PathsOf
  <2>2. NewRun(Reconciliation(c), "reconcile", c, PathsOf(c)) /\ Enter(Reconciliation(c))
    BY <1>5 DEF NewRun, Reconciliation
  <2>3. Begun("reconcile", c)
    BY <2>1, <2>2, NewRunFacts
  <2>4. TypeInv'
    BY <1>1, <1>3, <2>3, BeginTypes
  <2> QED BY <1>1, <1>5, <2>1, <2>3, <2>4
<1> QED BY <1>4, <1>5 DEF EndReport

LEMMA StopFacts ==
  ASSUME TypeInv, Stop
  PROVE  /\ TypeInv' /\ gate' = "off" /\ recorded' = {} /\ events' = <<>> /\ verifying' = {} /\ check' = None
         /\ work' = Idle /\ reports' = {} /\ applied' = None /\ pending'.queued = {} /\ pending'.inFlight = {}
<1>1. /\ gate' = "off" /\ recorded' = {} /\ events' = <<>> /\ verifying' = {} /\ check' = None /\ timer' = FALSE
      /\ work' = Idle /\ reports' = {} /\ applied' = None
      /\ pending' = [queued |-> {}, inFlight |-> {}, revision |-> NoRevisions, next |-> 0]
      /\ UNCHANGED <<disk, made, server, base, renames, journal, owed>>
  BY DEF Stop, vault, manifest
<1>2. pending' \in PendingSet /\ pending'.queued = {} /\ pending'.inFlight = {} /\ pending'.next = 0
      /\ \A k \in Key : pending'.revision[k] = 0 /\ work'.revisions[k] = 0
  <2>1. NoRevisions \in Revisions /\ \A k \in Key : NoRevisions[k] = 0
    BY DEF NoRevisions, Revisions
  <2> QED BY <1>1, <2>1, IdleFacts DEF PendingSet
<1>3. CountsTyped'
  BY <1>1, SpendFacts DEF Stop, TypeInv
<1>4. FilesTyped' /\ RenamesTyped' /\ JournalTyped' /\ StartupTyped' /\ QueueTyped'
  BY <1>1, <1>2 DEF TypeInv, FilesTyped, RenamesTyped, JournalTyped, StartupTyped, QueueTyped
<1>5. RevisionsBounded'
  BY <1>1, <1>2 DEF RevisionsBounded, Bounded
<1>6. events' \in Seq(Event) /\ check' \in Maybe(Verified) /\ applied' \in Maybe(Applied) /\ work' \in Run
      /\ work'.pc = "idle" /\ reports' \in SUBSET Report
  BY <1>1, IdleFacts DEF Maybe
<1> QED BY <1>1, <1>2, <1>3, <1>4, <1>5, <1>6 DEF TypeInv

LEMMA AppliedFacts ==
  ASSUME TypeInv, applied # None
  PROVE  /\ applied \in Applied /\ Bounded(applied.revisions)
         /\ \A k \in Key : applied.revisions[k] \in Nat /\ applied.revisions[k] <= pending.next
<1>1. applied \in Applied /\ Bounded(applied.revisions)
  BY DEF TypeInv, Maybe, RevisionsBounded
<1>2. \A k \in Key : applied.revisions[k] \in Nat
  BY <1>1 DEF Applied, Revisions
<1> QED BY <1>1, <1>2 DEF Bounded

\* The revisions of the pending set only go down to 0, and the snapshots stay.
LEMMA SnapshotsBounded ==
  ASSUME TypeInv, pending' \in PendingSet, pending'.next = pending.next,
         \A k \in Key : pending'.revision[k] = pending.revision[k] \/ pending'.revision[k] = 0,
         work'.revisions = work.revisions \/ work'.revisions = NoRevisions,
         check' = None \/ check' = check, applied' = None \/ applied' = applied \/ applied'.revisions = pending'.revision
  PROVE  RevisionsBounded'
<1>1. pending.next \in Nat /\ \A k \in Key : pending.revision[k] \in Nat /\ pending.revision[k] <= pending.next
  BY QueueTypes
<1>2. Bounded(pending.revision)'
  BY <1>1 DEF Bounded
<1>3. Bounded(work.revisions)'
  BY <1>1 DEF TypeInv, RevisionsBounded, Bounded, NoRevisions
<1>4. check' # None => Bounded(check.revisions)'
  BY DEF TypeInv, RevisionsBounded, Bounded
<1>5. applied' # None => Bounded(applied.revisions)'
  <2>1. CASE applied' = applied
    BY <2>1 DEF TypeInv, RevisionsBounded, Bounded
  <2>2. CASE applied'.revisions = pending'.revision
    BY <1>2, <2>2 DEF Bounded
  <2> QED BY <2>1, <2>2
<1> QED BY <1>2, <1>3, <1>4, <1>5 DEF RevisionsBounded, Bounded

LEMMA EndTypes ==
  ASSUME TypeInv, UNCHANGED <<disk, made, used, server, base, renames, journal, events, check>>,
         StartupTyped', QueueTyped', RevisionsBounded', work' \in Run, work'.pc # "uploading" \/ work' = work,
         reports' \in SUBSET Report, applied' \in Maybe(Applied)
  PROVE  TypeInv'
<1>1. FilesTyped' /\ CountsTyped' /\ RenamesTyped' /\ JournalTyped'
  BY DEF TypeInv, FilesTyped, CountsTyped, RenamesTyped, JournalTyped
<1>2. work'.pc = "uploading" => \A p \in work'.sending : journal'[p] \in Entry
  BY DEF TypeInv
<1> QED BY <1>1, <1>2 DEF TypeInv

LEMMA EndFlushFacts ==
  ASSUME TypeInv, EndFlush
  PROVE  /\ TypeInv' /\ Flushing /\ work.pc = "saving" /\ work' = Idle
         /\ UNCHANGED <<disk, base, journal, gate, recorded, owed, events, check, applied>>
         /\ pending'.queued = pending.queued /\ pending'.inFlight = pending.inFlight \ work.batch
         /\ pending'.next = pending.next
         /\ \A k \in Key : k \in pending.queued => pending'.revision[k] = pending.revision[k]
<1>1. /\ Flushing /\ work.pc = "saving" /\ work' = Idle /\ timer' = timer /\ verifying' = verifying \cup pending'.queued
      /\ UNCHANGED <<disk, made, used, server, base, renames, journal, gate, recorded, owed, events, check, applied>>
      /\ pending' = Release(pending, work.batch, work.revisions)
  BY DEF EndFlush, vault, manifest, startup
<1>2. pending \in PendingSet /\ work \in Run /\ work.batch \in SUBSET Key
  BY QueueTypes DEF TypeInv, Run
<1>3. /\ pending' \in PendingSet /\ pending'.queued = pending.queued
      /\ pending'.inFlight = pending.inFlight \ work.batch /\ pending'.next = pending.next
      /\ \A k \in Key : \/ pending'.revision[k] = pending.revision[k]
                        \/ pending'.revision[k] = 0 /\ k \notin pending.queued
  <2>1. ReleasedFrom(pending', pending, work.batch)
    BY <1>1, <1>2, ReleaseFacts
  <2> QED BY <2>1 DEF ReleasedFrom
<1>4. QueueTyped' /\ StartupTyped'
  <2>1. verifying' \in SUBSET Key
    BY <1>1, <1>3 DEF TypeInv, QueueTyped, PendingSet
  <2> QED BY <1>1, <1>3, <2>1 DEF TypeInv, QueueTyped, StartupTyped
<1>5. reports' \in SUBSET Report
  <2>1. /\ work.terminal \in BOOLEAN /\ work.conflicts \in SUBSET Key /\ work.batch \in SUBSET Key
        /\ work.revisions \in Revisions
    BY <1>2 DEF Run
  <2>2. [terminal |-> work.terminal, conflicts |-> work.conflicts, batch |-> work.batch,
         revisions |-> work.revisions, released |-> TRUE] \in Report
    BY <2>1 DEF Report
  <2> QED BY <2>2 DEF EndFlush, TypeInv
<1>6. RevisionsBounded'
  BY <1>1, <1>3, IdleFacts, SnapshotsBounded
<1>7. TypeInv'
  <2>1. work' \in Run /\ work'.pc # "uploading" /\ applied' \in Maybe(Applied)
    BY <1>1, IdleFacts DEF TypeInv
  <2> QED BY <1>1, <1>4, <1>5, <1>6, <2>1, EndTypes
<1> QED BY <1>1, <1>3, <1>7

LEMMA EndSyncFacts ==
  ASSUME TypeInv, EndSync
  PROVE  /\ TypeInv' /\ Syncing /\ ~Flushing /\ work.pc = "saving" /\ applied = None
         /\ UNCHANGED <<disk, base, journal, gate, recorded, events, check, reports>>
         /\ work.failing => pending' = pending /\ applied'.paths = {}
         /\ SettledFrom(pending', pending, work.settled, work.revisions)
         /\ applied'.kind = work.kind /\ applied'.revisions = pending'.revision
         /\ owed' = IF work.failing \/ work.kind = "reconcile" THEN owed ELSE {}
         /\ work.kind = "reconcile" => work' = [work EXCEPT !.pc = "applying"] /\ verifying' = verifying
         /\ work.kind # "reconcile" => work' = Idle /\ verifying' = verifying \cup pending'.queued
<1>1. /\ Syncing /\ ~Flushing /\ work.pc = "saving" /\ applied = None
      /\ UNCHANGED <<disk, made, used, server, base, renames, journal, gate, recorded, events, check, reports>>
      /\ pending' = IF work.failing THEN pending ELSE Settle(pending, work.settled, work.revisions)
      /\ timer' = (timer /\ pending'.queued # {})
      /\ applied' = [paths |-> IF work.failing THEN {} ELSE work.touched,
                     revisions |-> pending'.revision, kind |-> work.kind]
      /\ owed' = IF work.failing \/ work.kind = "reconcile" THEN owed ELSE {}
      /\ work.kind = "reconcile" => work' = [work EXCEPT !.pc = "applying"] /\ verifying' = verifying
      /\ work.kind # "reconcile" => work' = Idle /\ verifying' = verifying \cup pending'.queued
  BY DEF EndSync, vault, manifest, Moves
<1>2. pending \in PendingSet /\ work \in Run /\ work.settled \in SUBSET Key
  BY QueueTypes DEF TypeInv, Run
<1>3. SettledFrom(pending', pending, work.settled, work.revisions)
  <2>1. CASE work.failing
    <3>1. pending' = pending
      BY <1>1, <2>1
    <3> QED BY <1>2, <3>1 DEF SettledFrom
  <2>2. CASE ~work.failing
    <3>1. SettledFrom(Settle(pending, work.settled, work.revisions), pending, work.settled, work.revisions)
      BY <1>2, SettleFacts
    <3> QED BY <1>1, <2>2, <3>1
  <2> QED BY <2>1, <2>2
<1>4. /\ pending' \in PendingSet /\ pending'.next = pending.next /\ pending'.queued \in SUBSET Key
      /\ \A k \in Key : pending'.revision[k] = pending.revision[k] \/ pending'.revision[k] = 0
  BY <1>3 DEF SettledFrom, PendingSet
<1>5. /\ applied'.kind = work.kind /\ applied'.revisions = pending'.revision
      /\ work.failing => applied'.paths = {}
      /\ applied' \in Applied
  <2>1. /\ (IF work.failing THEN {} ELSE work.touched) \in SUBSET Path /\ pending'.revision \in Revisions
        /\ work.kind \in {"none", "flush", "reconcile", "sync", "startup"}
    BY <1>2, <1>4 DEF Run, PendingSet
  <2> DEFINE t == IF work.failing THEN {} ELSE work.touched
  <2>2. /\ work.failing => t = {}
        /\ t \in SUBSET Path
        /\ applied' = [paths |-> t, revisions |-> pending'.revision, kind |-> work.kind]
    BY <1>1, <2>1
  <2> HIDE DEF t
  <2> QED BY <2>1, <2>2 DEF Applied
<1>6. StartupTyped' /\ QueueTyped'
  <2>1. owed' \in SUBSET Path /\ verifying' \in SUBSET Key /\ timer' \in BOOLEAN
    BY <1>1, <1>4 DEF TypeInv, StartupTyped, QueueTyped
  <2> QED BY <1>1, <1>4, <2>1 DEF TypeInv, StartupTyped, QueueTyped
<1>7. work' \in Run /\ work'.pc # "uploading" /\ (work'.revisions = work.revisions \/ work'.revisions = NoRevisions)
  <2>1. CASE work.kind = "reconcile"
    BY <1>1, <1>2, <2>1 DEF Run
  <2>2. CASE work.kind # "reconcile"
    BY <1>1, <2>2, IdleFacts
  <2> QED BY <2>1, <2>2
<1>8. RevisionsBounded'
  BY <1>1, <1>4, <1>5, <1>7, SnapshotsBounded
<1>9. TypeInv'
  <2>1. applied' \in Maybe(Applied) /\ reports' \in SUBSET Report
    BY <1>1, <1>5 DEF TypeInv, Maybe
  <2> QED BY <1>1, <1>6, <1>7, <1>8, <2>1, EndTypes
<1> QED BY <1>1, <1>3, <1>5, <1>9

\* Keys of the files that hold what the sync wrote.
Written == {k \in pending.queued \cup pending.inFlight : k[2] \in applied.paths /\ disk[k[2]] = base[k[2]]}

LEMMA EndAppliedFacts ==
  ASSUME TypeInv, EndApplied, applied.kind = "startup" => pending.queued = {}
  PROVE  /\ TypeInv' /\ applied # None /\ applied' = None
         /\ UNCHANGED <<disk, base, journal, owed, events, check, reports>>
         /\ pending'.inFlight = pending.inFlight
         /\ work' = IF work.pc = "applying" THEN Idle ELSE work
         /\ applied.kind = "startup" =>
              /\ gate' = "open" /\ recorded' = {} /\ pending'.queued = recorded /\ pending'.next = pending.next + 1
              /\ \A k \in Key : pending'.revision[k]
                                  = IF k \in recorded THEN pending.next + 1 ELSE pending.revision[k]
         /\ applied.kind # "startup" =>
              /\ UNCHANGED <<gate, recorded>>
              /\ SettledFrom(pending', pending, Written, applied.revisions)
              /\ verifying' \subseteq verifying \cup pending'.queued
<1> DEFINE settled == Settle(pending, Written, applied.revisions)
           opening == applied.kind = "startup"
<1>1. /\ applied # None /\ applied' = None
      /\ UNCHANGED <<disk, made, used, server, base, renames, journal, owed, events, check, reports>>
      /\ pending' = IF opening THEN Restore(settled, recorded) ELSE settled
      /\ timer' = IF opening /\ recorded # {} THEN TRUE ELSE timer /\ pending'.queued # {}
      /\ gate' = IF opening THEN "open" ELSE gate
      /\ recorded' = IF opening THEN {} ELSE recorded
      /\ work' = IF work.pc = "applying" THEN Idle ELSE work
      /\ verifying' = verifying \cup IF opening THEN recorded \cap pending'.queued
                                     ELSE IF work.pc = "applying" THEN pending'.queued ELSE {}
  BY DEF EndApplied, vault, manifest, Written
<1>2. /\ pending \in PendingSet /\ Written \in SUBSET Key /\ recorded \in SUBSET Key /\ pending.next \in Nat
      /\ verifying \in SUBSET Key /\ timer \in BOOLEAN /\ work \in Run
  BY QueueTypes DEF TypeInv, StartupTyped, QueueTyped, Written
<1>3. SettledFrom(settled, pending, Written, applied.revisions)
  BY <1>2, SettleFacts
<1> HIDE DEF settled
<1>4. /\ settled \in PendingSet /\ settled.inFlight = pending.inFlight /\ settled.next = pending.next
      /\ settled.queued \subseteq pending.queued
      /\ \A k \in Key : settled.revision[k] = pending.revision[k] \/ settled.revision[k] = 0
  BY <1>3 DEF SettledFrom
<1>5. work' \in Run /\ (work'.pc # "uploading" \/ work' = work)
      /\ (work'.revisions = work.revisions \/ work'.revisions = NoRevisions)
  BY <1>1, <1>2, IdleFacts
<1>6. CASE opening
  <2>1. settled = pending
    BY <1>6 DEF settled, Settle
  <2>2. /\ pending' \in PendingSet /\ pending'.queued = recorded /\ pending'.inFlight = pending.inFlight
        /\ pending'.next = pending.next + 1
        /\ \A k \in Key : pending'.revision[k] = IF k \in recorded THEN pending.next + 1 ELSE pending.revision[k]
    <3>1. pending' = Restore(pending, recorded)
      BY <1>1, <1>6, <2>1
    <3>2. pending.queued = {}
      BY <1>6
    <3> QED BY <1>2, <3>1, <3>2, RestoreFacts
  <2>3. QueueTyped' /\ StartupTyped'
    <3>1. verifying' \in SUBSET Key /\ timer' \in BOOLEAN
      BY <1>1, <1>2, <1>6, <2>2
    <3> QED BY <1>1, <1>6, <2>2, <3>1 DEF TypeInv, QueueTyped, StartupTyped
  <2>4. RevisionsBounded'
    <3>1. /\ \A k \in Key : pending.revision[k] \in Nat /\ pending.revision[k] <= pending.next
          /\ \A k \in Key : work.revisions[k] \in Nat /\ work.revisions[k] <= pending.next
      BY QueueTypes, <1>2 DEF TypeInv, RevisionsBounded, Bounded, Run, Revisions
    <3>2. Bounded(pending.revision)'
      BY <1>2, <2>2, <3>1 DEF Bounded
    <3>3. Bounded(work.revisions)'
      BY <1>2, <1>5, <2>2, <3>1 DEF Bounded, NoRevisions
    <3>4. check' # None => Bounded(check.revisions)'
      <4>1. check # None => \A k \in Key : check.revisions[k] \in Nat /\ check.revisions[k] <= pending.next
        BY CheckFacts
      <4> QED BY <1>1, <1>2, <2>2, <4>1 DEF Bounded
    <3> QED BY <1>1, <3>2, <3>3, <3>4 DEF RevisionsBounded, Bounded
  <2>5. TypeInv'
    <3>1. reports' \in SUBSET Report /\ applied' \in Maybe(Applied)
      BY <1>1 DEF TypeInv, Maybe
    <3> QED BY <1>1, <1>5, <2>3, <2>4, <3>1, EndTypes
  <2> QED BY <1>1, <1>6, <2>2, <2>5
<1>7. CASE ~opening
  <2>1. pending' = settled
    BY <1>1, <1>7
  <2>2. QueueTyped' /\ StartupTyped' /\ verifying' \subseteq verifying \cup pending'.queued
    <3>1. verifying' \subseteq verifying \cup pending'.queued /\ timer' \in BOOLEAN /\ pending'.queued \in SUBSET Key
      BY <1>1, <1>2, <1>4, <1>7, <2>1 DEF PendingSet
    <3> QED BY <1>1, <1>2, <1>4, <1>7, <2>1, <3>1 DEF TypeInv, QueueTyped, StartupTyped
  <2>3. RevisionsBounded'
    BY <1>1, <1>4, <1>5, <2>1, SnapshotsBounded
  <2>4. TypeInv'
    <3>1. reports' \in SUBSET Report /\ applied' \in Maybe(Applied)
      BY <1>1 DEF TypeInv, Maybe
    <3> QED BY <1>1, <1>5, <2>2, <2>3, <3>1, EndTypes
  <2> QED BY <1>1, <1>3, <1>4, <1>7, <2>1, <2>2, <2>4
<1> QED BY <1>6, <1>7

-----------------------------------------------------------------------------
(* The inductive invariant. *)

(* Before the gate opens nothing is queued, and nothing runs but the start-up sync. *)
GateInv ==
  /\ gate # "open" => /\ reports = {} /\ pending.queued = {} /\ verifying = {} /\ check = None
                      /\ work.kind \in {"none", "startup"}
                      /\ applied # None => applied.kind = "startup"
  /\ gate = "off" => work.kind = "none" /\ events = <<>> /\ recorded = {} /\ applied = None
  /\ gate = "open" => recorded = {}
  /\ applied # None /\ applied.kind = "startup" => gate = "recording"
  /\ work.kind = "startup" => gate = "recording" /\ applied = None

(* The phases of each kind of work, and what is empty in them. *)
PhasesInv ==
  /\ work.kind = "none" <=> work.pc = "idle"
  /\ work.pc = "applying" => work.kind = "reconcile"
  /\ Flushing => work.pc # "scan"
  /\ work.pc = "recover" => /\ work.settled = {} /\ work.uploads = {} /\ work.expect = NoExpectation
                            /\ work.kind \in {"sync", "startup"} => work.todo = Path
  /\ work.pc \in {"recover", "scan"} => work.sending = {}
  /\ work.pc \in {"clearing", "deleting"} =>
       /\ work.sending = {} \/ work.todo = work.sending
       /\ \A p \in work.todo : work.expect[p] # 0

(* A flush sends what its batch names. *)
BatchInv ==
  Flushing =>
    /\ \A p \in work.uploads : Upload(p) \in work.batch
    /\ work.pc = "uploading" => \A p \in work.todo \cup work.sending : Upload(p) \in work.batch
    /\ \A p \in Path : work.expect[p] # 0 => Delete(p) \in work.batch

\* The key has changed since the snapshot.
After(revisions, k) == \A l \in Key : pending.revision[k] > revisions[l]

\* What the file is now is still to come to the queue, or came after every snapshot.
Fresh(p) ==
  /\ KeyFor(p) \in pending.queued /\ After(work.revisions, KeyFor(p))
  /\ applied # None => After(applied.revisions, KeyFor(p))

Later(p) == Coming(p) \/ KeyFor(p) \in recorded \/ Fresh(p)

\* No settlement of what a sync wrote takes the key of the file away.
Unwritten(p) == applied # None /\ p \in applied.paths => After(applied.revisions, KeyFor(p))

Safe(p) ==
  \/ p \in owed \/ Coming(p) \/ KeyFor(p) \in recorded
  \/ KeyFor(p) \in pending.queued /\ Unwritten(p)

Held(p) == p \in owed \/ Coming(p) \/ KeyFor(p) \in recorded \cup pending.queued

\* The flush under way has still to send the file, or its delete.
FlushHas(p) ==
  \/ work.pc = "recover" /\ KeyFor(p) \in work.batch
  \/ work.pc = "clearing" /\ IF disk[p] # 0 THEN p \in work.uploads ELSE work.expect[p] # 0
  \/ work.pc = "uploading" /\ IF disk[p] # 0 THEN p \in work.todo \cup work.sending ELSE work.expect[p] # 0
  \/ work.pc = "deleting" /\ disk[p] = 0 /\ p \in work.todo

(* A file that differs from its baseline has the key that says what it is now. *)
KeyInv ==
  gate # "off" => \A p \in Path : disk[p] # base[p] => Held(p) \/ (Flushing /\ FlushHas(p))

(* A journalled upload of another content than the file's does not outlive the key. *)
JournalInv ==
  gate # "off" => \A p \in Path : journal[p] # None /\ journal[p].hash # disk[p] =>
    Safe(p) \/ (work.pc = "recover" /\ KeyFor(p) \in pending.inFlight /\ Unwritten(p))

(* After the recovery only this run's uploads are in the journal, unless it fails. *)
JournalOpen ==
  work.kind # "none" /\ work.pc \notin {"recover", "applying"} => \A p \in Path : journal[p] # None =>
     work.failing \/ (work.pc = "uploading" /\ p \in work.sending)

(* A request that is out says what the file is, or a newer event comes. *)
SendingInv ==
  /\ work.pc \in {"clearing", "deleting"} => \A p \in work.sending : disk[p] = 0 \/ Later(p)
  /\ work.pc = "uploading" => \A p \in work.sending : journal[p].hash = disk[p] \/ Later(p)

(* A file the listing of a sync does not know right changed after it. *)
MissedInv ==
  work.pc = "scan" /\ ~work.looks => \A p \in work.todo : ~(p \in work.listed <=> disk[p] # 0) => Later(p)

(* A file a sync is to upload is there, or its delete comes. *)
UploadsInv ==
  work.kind # "flush" =>
    /\ work.pc \in {"scan", "clearing"} => \A p \in work.uploads : disk[p] # 0 \/ Later(p)
    /\ work.pc = "uploading" => \A p \in work.todo : disk[p] # 0 \/ Later(p)

\* The sync under way has still to decide or to send the file.
SyncHas(p) ==
  \/ work.pc = "scan" /\ (p \in work.todo \cup work.uploads \/ work.expect[p] # 0)
  \/ work.pc = "clearing" /\ (p \in work.uploads \cup PathsOf(work.conflicts) \/ work.expect[p] # 0)
  \/ work.pc = "uploading" /\ (p \in work.todo \cup work.sending \cup PathsOf(work.conflicts) \/ work.expect[p] # 0)
  \/ work.pc = "deleting" /\ p \in work.todo \cup PathsOf(work.conflicts)

\* The sync under way settles the file.
Covers(p) == work.kind # "reconcile" \/ p \in PathsOf(work.settled)

(* What a sync settles is what the file is, or a newer event comes. *)
SyncInv ==
  work.kind \in {"sync", "startup", "reconcile"} /\ work.pc \notin {"recover", "applying"} /\ ~work.failing =>
    \A p \in Path : Covers(p) /\ disk[p] # base[p] => Later(p) \/ SyncHas(p)

(* What a verification settles matches its baseline, or a newer event comes. *)
CheckInv ==
  check # None /\ check.active =>
    /\ ~Syncing
    /\ \A m \in check.matches : LET p == m[1][2] IN
         \/ disk[p] = base[p] \/ Coming(p) \/ KeyFor(p) \in recorded
         \/ KeyFor(p) \in pending.queued /\ After(check.revisions, KeyFor(p))

WorkInv ==
  /\ PhasesInv /\ BatchInv /\ KeyInv /\ JournalInv /\ JournalOpen /\ SendingInv /\ MissedInv
  /\ UploadsInv /\ SyncInv

Inv == TypeInv /\ EventsInOrder /\ GateInv /\ InFlightIsTheFlush /\ CheckInv /\ WorkInv

-----------------------------------------------------------------------------
(* What stays true of a file in a step. *)

Stay(p) ==
  /\ Later(p) => Later(p)' /\ Safe(p)' /\ Held(p)'
  /\ Safe(p) => Safe(p)'
  /\ Held(p) => Held(p)'
  /\ disk'[p] = disk[p] \/ (Later(p)' /\ Safe(p)' /\ Held(p)')

LEMMA Bounds ==
  ASSUME TypeInv
  PROVE  /\ \A l \in Key : work.revisions[l] \in Nat /\ work.revisions[l] <= pending.next
         /\ applied # None => \A l \in Key : applied.revisions[l] \in Nat /\ applied.revisions[l] <= pending.next
         /\ check # None => \A l \in Key : check.revisions[l] \in Nat /\ check.revisions[l] <= pending.next
<1>1. pending.next \in Nat
  BY QueueTypes
<1>2. \A l \in Key : work.revisions[l] \in Nat /\ work.revisions[l] <= pending.next
  BY DEF TypeInv, Run, Revisions, RevisionsBounded, Bounded
<1> QED BY <1>1, <1>2, AppliedFacts, CheckFacts

LEMMA Stays ==
  ASSUME TypeInv, TypeInv', NEW p \in Path, Kept(p), work'.revisions = work.revisions,
         UNCHANGED <<applied, owed>>
  PROVE  Stay(p)
<1>1. CASE Coming(p)'
  BY <1>1 DEF Stay, Later, Safe, Held
<1>2. CASE ~Coming(p)'
  <2> DEFINE k == KeyFor(p)
             new == pending'.revision[k]
             old == pending.revision[k]
  <2>1. /\ disk'[p] = disk[p] /\ k \in Key
        /\ Coming(p) \/ k \in recorded => k \in recorded' \/ (k \in pending'.queued /\ new > pending.next)
        /\ k \in pending.queued => k \in pending'.queued
        /\ new >= old
    BY <1>2, KeyForFacts DEF Kept
  <2>2. KeyFor(p)' = k
    BY <2>1, SameKey
  <2>3. new \in Nat /\ old \in Nat /\ pending.next \in Nat
    <3>1. \A l \in Key : pending'.revision[l] \in Nat
      BY DEF TypeInv, QueueTyped, PendingSet, Revisions
    <3> QED BY <2>1, <3>1, QueueTypes
  <2>4. /\ new > pending.next => \A l \in Key : new > work'.revisions[l]
        /\ applied' # None /\ new > pending.next => \A l \in Key : new > applied'.revisions[l]
    <3> HIDE DEF k, new, old
    <3> QED BY <2>3, Bounds
  <2>5. /\ After(work.revisions, k) => \A l \in Key : new > work'.revisions[l]
        /\ applied # None /\ After(applied.revisions, k) => \A l \in Key : new > applied'.revisions[l]
    <3>1. /\ After(work.revisions, k) => \A l \in Key : old > work.revisions[l]
          /\ After(applied.revisions, k) => \A l \in Key : old > applied.revisions[l]
      BY DEF After
    <3> HIDE DEF k, new, old
    <3> QED BY <2>1, <2>3, <3>1, Bounds
  <2>6. /\ After(work.revisions, KeyFor(p))' = \A l \in Key : new > work'.revisions[l]
        /\ After(applied.revisions, KeyFor(p))' = \A l \in Key : new > applied'.revisions[l]
    BY <2>2 DEF After
  <2> HIDE DEF new, old
  <2>7. (Coming(p) \/ k \in recorded) => Later(p)' /\ Safe(p)' /\ Held(p)'
    BY <2>1, <2>2, <2>4, <2>6 DEF Later, Fresh, Safe, Held, Unwritten
  <2>8. Fresh(p) => Later(p)' /\ Safe(p)' /\ Held(p)'
    BY <2>1, <2>2, <2>5, <2>6 DEF Later, Fresh, Safe, Held, Unwritten
  <2>9. Safe(p) => Safe(p)'
    BY <2>1, <2>2, <2>5, <2>6, <2>7 DEF Safe, Unwritten
  <2>10. Held(p) => Held(p)'
    BY <2>1, <2>2, <2>7 DEF Held
  <2> QED BY <2>1, <2>7, <2>8, <2>9, <2>10 DEF Stay, Later
<1> QED BY <1>1, <1>2

LEMMA LaterFacts ==
  \A p \in Path : (Later(p) => Safe(p)) /\ (Safe(p) => Held(p))
BY DEF Later, Fresh, Safe, Held, Unwritten

LEMMA Shape ==
  ASSUME Inv
  PROVE  /\ TypeInv /\ work \in Run
         /\ gate = "off" => events = <<>> /\ work.kind = "none"
         /\ Syncing => gate # "off" /\ work.pc # "idle" /\ (check # None => ~check.active)
         /\ work.pc # "idle" => Syncing
         /\ Flushing => Syncing
BY DEF Inv, TypeInv, GateInv, WorkInv, PhasesInv, CheckInv, Syncing, Flushing

\* What a step of the work under way keeps whatever it does.
WorkFrame ==
  EventsInOrder' /\ GateInv' /\ InFlightIsTheFlush' /\ CheckInv' /\ \A p \in Path : Stay(p)

LEMMA FrameFacts ==
  ASSUME Inv, Syncing, TypeInv', WorkGoesOn, EventsInOrder', \A p \in Path : Kept(p)
  PROVE  WorkFrame
<1>1. /\ UNCHANGED <<gate, recorded, owed, verifying, check, reports, applied>>
      /\ work'.kind = work.kind /\ work'.revisions = work.revisions /\ work'.batch = work.batch
      /\ pending'.inFlight = pending.inFlight
      /\ ~Flushing => pending' = pending
  BY DEF WorkGoesOn, startup
<1>2. GateInv'
  <2>1. gate # "off" /\ (gate # "open" => pending' = pending)
    BY <1>1, Shape DEF Inv, GateInv, Flushing
  <2> QED BY <1>1, <2>1 DEF Inv, GateInv
<1>3. InFlightIsTheFlush'
  BY <1>1 DEF Inv, InFlightIsTheFlush, Flushing
<1>4. CheckInv'
  BY <1>1, Shape DEF CheckInv
<1>5. \A p \in Path : Stay(p)
  BY <1>1, Stays DEF Inv
<1> QED BY <1>2, <1>3, <1>4, <1>5 DEF WorkFrame

\* A step of the work that leaves the vault and its events alone.
LEMMA QuietFrame ==
  ASSUME Inv, Syncing, TypeInv', WorkGoesOn, UNCHANGED <<disk, events>>
  PROVE  WorkFrame
<1>1. UNCHANGED <<recorded>> /\ pending.queued \subseteq pending'.queued /\ pending'.revision = pending.revision
  BY DEF WorkGoesOn, startup
<1>2. \A p \in Path : Kept(p)
  BY <1>1, QueueGrows DEF Inv
<1>3. EventsInOrder'
  BY DEF Inv, EventsInOrder, KeyFor
<1> QED BY <1>2, <1>3, FrameFacts

LEMMA ScanFrame ==
  ASSUME Inv, Syncing, TypeInv', WorkGoesOn, pending' = pending, NEW p \in Path,
         \A q \in Path : q # p => disk'[q] = disk[q],
         UNCHANGED <<disk, events>> \/ events' = Append(events, KeyFor(p)')
  PROVE  WorkFrame
<1>1. CASE UNCHANGED <<disk, events>>
  BY <1>1, QuietFrame
<1>2. CASE events' = Append(events, KeyFor(p)')
  <2> DEFINE e == KeyFor(p)'
  <2>1. e \in Key /\ e \in Event /\ KeysIn(e) = {e} /\ e[2] = p
    <3>1. e \in Key /\ e[2] = p
      BY KeyFacts DEF KeyFor
    <3> HIDE DEF e
    <3> QED BY <3>1, EventFacts
  <2>2. Notify(e)
    BY <1>2, Shape DEF Notify
  <2>3. \A q \in Path : \/ KeyFor(q)' \in KeysIn(e)
                        \/ disk'[q] = disk[q] /\ Opposite(KeyFor(q)) \notin KeysIn(e)
    <3> SUFFICES ASSUME NEW q \in Path, q # p
                 PROVE  disk'[q] = disk[q] /\ Opposite(KeyFor(q)) \notin KeysIn(e)
      BY <2>1
    <3>1. Opposite(KeyFor(q))[2] = q
      BY KeyForFacts, KeyFacts
    <3> QED BY <2>1, <3>1
  <2>4. UNCHANGED recorded
    BY DEF WorkGoesOn, startup
  <2>5. EventsInOrder' /\ \A q \in Path : Kept(q)
    <3>1. gate = "off" => events = <<>>
      BY Shape
    <3>2. gate # "off"
      BY Shape
    <3> HIDE DEF e
    <3> QED BY <2>1, <2>2, <2>3, <2>4, <3>1, <3>2, UserEvent DEF Inv
  <2> QED BY <2>5, FrameFacts
<1> QED BY <1>1, <1>2

\* A step that takes no entry back into the journal keeps JournalInv.
LEMMA JournalKept ==
  ASSUME Inv, Syncing, WorkFrame, WorkGoesOn,
         \A p \in Path : journal'[p] \in {journal[p], None} \/ journal'[p].hash = disk'[p] \/ Safe(p)',
         work.pc = "recover" /\ work'.pc # "recover" /\ Flushing =>
            pending'.queued = pending.queued \cup work.batch
  PROVE  JournalInv'
<1> SUFFICES ASSUME NEW p \in Path, journal'[p] = journal[p], journal'[p] # None, journal'[p].hash # disk'[p],
                    disk'[p] = disk[p], ~Safe(p)
             PROVE  Safe(p)' \/ (work'.pc = "recover" /\ KeyFor(p)' \in pending'.inFlight /\ Unwritten(p)')
  BY DEF JournalInv, WorkFrame, Stay
<1>1. work.pc = "recover" /\ KeyFor(p) \in pending.inFlight /\ Unwritten(p)
  BY Shape DEF Inv, WorkInv, JournalInv
<1>2. KeyFor(p)' = KeyFor(p) /\ Unwritten(p)'
  <2>1. KeyFor(p)' = KeyFor(p) /\ applied' = applied /\ pending'.revision = pending.revision
    BY SameKey DEF WorkGoesOn
  <2> QED BY <1>1, <2>1 DEF Unwritten, After
<1>3. CASE work'.pc = "recover"
  BY <1>1, <1>2, <1>3 DEF WorkGoesOn
<1>4. CASE work'.pc # "recover"
  BY <1>1, <1>2, <1>4 DEF Inv, InFlightIsTheFlush, Safe
<1> QED BY <1>1, <1>3, <1>4

LEMMA StayFacts ==
  ASSUME WorkFrame
  PROVE  \A p \in Path : /\ ~Later(p)' => disk'[p] = disk[p] /\ ~Later(p)
                         /\ ~Held(p)' => disk'[p] = disk[p] /\ ~Held(p) /\ ~Safe(p) /\ ~Later(p)
BY LaterFacts DEF WorkFrame, Stay

LEMMA InvFrom ==
  ASSUME TypeInv', WorkFrame, WorkInv'
  PROVE  Inv'
BY DEF Inv, WorkFrame

-----------------------------------------------------------------------------
(* The steps of the work under way. *)

LEMMA RecoverKeeps ==
  ASSUME Inv, NEW p \in Path, Recover(p)
  PROVE  Inv'
<1>1. /\ TypeInv' /\ WorkGoesOn /\ UNCHANGED <<disk, events, pending, work>> /\ Syncing
      /\ work.pc = "recover" /\ journal[p] # None /\ journal'[p] = None /\ gate' = gate
      /\ \A q \in Path : q # p => journal'[q] = journal[q]
      /\ \A q \in Path : base'[q] = base[q] \/ (q = p /\ base'[q] = journal[p].hash)
  BY RecoverFacts, Shape DEF WorkGoesOn, startup
<1>2. WorkFrame
  BY <1>1, QuietFrame
<1>3. PhasesInv' /\ BatchInv' /\ JournalOpen' /\ SendingInv' /\ MissedInv' /\ UploadsInv' /\ SyncInv'
  BY <1>1 DEF Inv, WorkInv, PhasesInv, BatchInv, JournalOpen, SendingInv, MissedInv, UploadsInv, SyncInv, Flushing
<1>4. KeyInv'
  <2> SUFFICES ASSUME NEW q \in Path, disk'[q] # base'[q], ~Held(q)' PROVE Flushing' /\ FlushHas(q)'
    BY DEF KeyInv
  <2>1. ~Held(q) /\ ~Safe(q) /\ KeyFor(q)' = KeyFor(q) /\ gate # "off"
    BY <1>1, <1>2, StayFacts, SameKey, Shape
  <2>2. Flushing /\ KeyFor(q) \in work.batch
    <3>1. CASE base'[q] = base[q]
      <4>1. Flushing /\ FlushHas(q)
        BY <1>1, <2>1, <3>1 DEF Inv, WorkInv, KeyInv
      <4> QED BY <1>1, <4>1 DEF FlushHas
    <3>2. CASE q = p /\ base'[q] = journal[p].hash
      <4>1. KeyFor(q) \in pending.inFlight
        BY <1>1, <2>1, <3>2 DEF Inv, WorkInv, JournalInv
      <4> QED BY <4>1 DEF Inv, InFlightIsTheFlush
    <3> QED BY <1>1, <3>1, <3>2
  <2> QED BY <1>1, <2>1, <2>2 DEF FlushHas, Flushing
<1>5. JournalInv'
  BY <1>1, <1>2, JournalKept
<1> QED BY <1>1, <1>2, <1>3, <1>4, <1>5, InvFrom DEF WorkInv

LEMMA RecoverFailsKeeps ==
  ASSUME Inv, RecoverFails
  PROVE  Inv'
<1>1. /\ TypeInv' /\ WorkGoesOn /\ UNCHANGED <<disk, base, journal, events>> /\ Syncing /\ gate' = gate
      /\ work.pc = "recover" /\ work'.pc = "saving" /\ work'.failing /\ work.settled = {}
      /\ work'.kind = work.kind /\ work'.batch = work.batch
      /\ Flushing => pending'.queued = pending.queued \cup work.batch
  BY RecoverFailsFacts, Shape DEF WorkGoesOn, startup, QuietStep, Inv, WorkInv, PhasesInv
<1>2. WorkFrame
  BY <1>1, QuietFrame
<1>3. PhasesInv' /\ JournalOpen' /\ SendingInv' /\ MissedInv' /\ UploadsInv' /\ SyncInv'
  BY <1>1 DEF PhasesInv, JournalOpen, SendingInv, MissedInv, UploadsInv, SyncInv, Flushing, Syncing
<1>4. BatchInv'
  <2>1. PICK how \in Failures : Fail(how)
    BY DEF RecoverFails
  <2>2. work'.uploads = work.uploads /\ work'.expect = work.expect
    BY <2>1, FailFacts DEF RecoverFails, Inv
  <2> QED BY <1>1, <2>2 DEF Inv, WorkInv, BatchInv, Flushing
<1>5. KeyInv'
  <2> SUFFICES ASSUME NEW q \in Path, disk'[q] # base'[q], ~Held(q)' PROVE FALSE
    BY DEF KeyInv
  <2>1. ~Held(q) /\ KeyFor(q)' = KeyFor(q) /\ gate # "off"
    BY <1>1, <1>2, StayFacts, SameKey, Shape
  <2>2. Flushing /\ KeyFor(q) \in work.batch
    BY <1>1, <2>1 DEF Inv, WorkInv, KeyInv, FlushHas
  <2> QED BY <1>1, <2>1, <2>2 DEF Held
<1>6. JournalInv'
  BY <1>1, <1>2, JournalKept
<1> QED BY <1>1, <1>2, <1>3, <1>4, <1>5, <1>6, InvFrom DEF WorkInv

\* A sync or a reconciliation fails: nothing is settled.
LEMMA ScanFailure ==
  ASSUME Inv, TypeInv', WorkGoesOn, QuietStep, work.pc = "scan", work'.pc = "saving", work'.failing
  PROVE  Inv'
<1>1. /\ UNCHANGED <<disk, base, journal, events>> /\ Syncing /\ ~Flushing /\ gate' = gate /\ work'.kind = work.kind
  BY Shape DEF WorkGoesOn, startup, QuietStep, Inv, WorkInv, PhasesInv
<1>2. WorkFrame
  BY <1>1, QuietFrame
<1>3. /\ PhasesInv' /\ BatchInv' /\ JournalOpen' /\ SendingInv' /\ MissedInv' /\ UploadsInv' /\ SyncInv'
  BY <1>1 DEF PhasesInv, BatchInv, JournalOpen, SendingInv, MissedInv, UploadsInv, SyncInv, Flushing, Syncing
<1>4. KeyInv'
  BY <1>1, <1>2, StayFacts DEF Inv, WorkInv, KeyInv
<1>5. JournalInv'
  BY <1>1, <1>2, JournalKept
<1> QED BY <1>2, <1>3, <1>4, <1>5, InvFrom DEF WorkInv

LEMMA ScanFailsKeeps ==
  ASSUME Inv, ScanFails
  PROVE  Inv'
BY ScanFailsFacts, ScanFailure DEF Inv

LEMMA MissedKeeps ==
  ASSUME Inv, NEW p \in Path, Missed(p)
  PROVE  Inv'
<1>1. /\ TypeInv' /\ WorkGoesOn /\ QuietStep /\ UNCHANGED <<disk, base, journal, events>> /\ Syncing /\ ~Flushing
      /\ gate' = gate /\ work \in Run /\ work'.kind = work.kind
      /\ work.pc = "scan" /\ p \in work.todo /\ ~work.looks /\ ~(p \in work.listed <=> disk[p] # 0)
      /\ \/ work'.pc = "saving" /\ work'.failing
         \/ work' = [work EXCEPT !.todo = @ \ {p}]
  BY MissedFacts, Shape DEF WorkGoesOn, startup, QuietStep, Inv, WorkInv, PhasesInv
<1>2. CASE work'.pc = "saving" /\ work'.failing
  BY <1>1, <1>2, ScanFailure
<1>3. CASE work' = [work EXCEPT !.todo = @ \ {p}]
  <2>1. WorkFrame
    BY <1>1, QuietFrame
  <2>2. /\ work'.pc = "scan" /\ work'.todo = work.todo \ {p} /\ work'.uploads = work.uploads
        /\ work'.expect = work.expect /\ work'.sending = work.sending /\ work'.settled = work.settled
        /\ work'.failing = work.failing /\ work'.looks = work.looks /\ work'.listed = work.listed
    BY <1>1, <1>3 DEF Run
  <2>3. PhasesInv' /\ BatchInv' /\ JournalOpen' /\ SendingInv'
    BY <1>1, <2>2 DEF Inv, WorkInv, PhasesInv, BatchInv, JournalOpen, SendingInv, Flushing
  <2>4. KeyInv'
    BY <1>1, <2>1, StayFacts DEF Inv, WorkInv, KeyInv
  <2>5. JournalInv'
    BY <1>1, <2>1, JournalKept
  <2>6. MissedInv' /\ UploadsInv'
    <3>1. \A q \in Path : disk'[q] = disk[q] /\ (Later(q) => Later(q)')
      BY <1>1, <2>1 DEF WorkFrame, Stay
    <3>2. work'.todo \subseteq work.todo /\ work.todo \subseteq Path /\ work.uploads \subseteq Path
      BY <1>1, <2>2 DEF Run
    <3>3. MissedInv'
      BY <1>1, <2>2, <3>1, <3>2 DEF Inv, WorkInv, MissedInv
    <3>4. UploadsInv'
      BY <1>1, <2>2, <3>1, <3>2 DEF Inv, WorkInv, UploadsInv
    <3> QED BY <3>3, <3>4
  <2>7. SyncInv'
    <3> SUFFICES ASSUME NEW q \in Path, Covers(q)', disk'[q] # base'[q], ~Later(q)', ~work'.failing,
                        work'.kind \in {"sync", "startup", "reconcile"}
                 PROVE  SyncHas(q)'
      BY DEF SyncInv
    <3>1. disk'[q] = disk[q] /\ ~Later(q)
      BY <2>1, StayFacts
    <3>2. Covers(q)
      BY <1>1, <2>2 DEF Covers
    <3>3. SyncHas(q)
      BY <1>1, <2>2, <3>1, <3>2 DEF Inv, WorkInv, SyncInv
    <3>4. q # p
      BY <1>1, <3>1 DEF Inv, WorkInv, MissedInv
    <3> QED BY <1>1, <2>2, <3>3, <3>4 DEF SyncHas
  <2> QED BY <1>1, <2>1, <2>3, <2>4, <2>5, <2>6, <2>7, InvFrom DEF WorkInv
<1> QED BY <1>1, <1>2, <1>3

LEMMA PlanKeeps ==
  ASSUME Inv, Plan
  PROVE  Inv'
<1>1. /\ TypeInv' /\ WorkGoesOn /\ UNCHANGED <<disk, base, journal, events, pending>> /\ Syncing
      /\ gate' = gate /\ work \in Run /\ work'.kind = work.kind /\ work'.batch = work.batch
      /\ work.pc = "recover" /\ (\A p \in Path : journal[p] = None)
      /\ work.settled = {} /\ work.uploads = {} /\ work.sending = {} /\ work.expect = NoExpectation
      /\ work'.settled = work.settled /\ work'.sending = work.sending
  BY PlanFacts, Shape DEF WorkGoesOn, startup, QuietStep, Inv, WorkInv, PhasesInv
<1>2. Flushing =>
        /\ work'.pc = "clearing" /\ work'.uploads = {p \in Path : Upload(p) \in work.batch}
        /\ \A p \in Path : work'.expect[p] = IF Delete(p) \in work.batch THEN base[p] ELSE 0
        /\ \A p \in work'.todo : work'.expect[p] # 0
  BY PlanFacts DEF Inv
<1>3. ~Flushing =>
        /\ work'.pc = "scan" /\ work'.looks = (work.kind = "reconcile")
        /\ work'.listed = {p \in Path : disk[p] # 0} /\ work'.todo = work.todo
        /\ work'.uploads = {} /\ work'.expect = NoExpectation
  BY <1>1, PlanFacts DEF Inv
<1>4. WorkFrame
  BY <1>1, QuietFrame
<1>5. PhasesInv'
  BY <1>1, <1>2, <1>3 DEF PhasesInv, Flushing, Syncing
<1>6. BatchInv'
  BY <1>1, <1>2 DEF BatchInv, Flushing
<1>7. JournalOpen' /\ SendingInv' /\ JournalInv'
  BY <1>1, <1>2, <1>3 DEF JournalOpen, SendingInv, JournalInv
<1>8. KeyInv'
  <2> SUFFICES ASSUME NEW q \in Path, disk'[q] # base'[q], ~Held(q)' PROVE Flushing' /\ FlushHas(q)'
    BY DEF KeyInv
  <2>1. ~Held(q) /\ gate # "off" /\ disk[q] # base[q]
    BY <1>1, <1>4, StayFacts, Shape
  <2>2. Flushing /\ KeyFor(q) \in work.batch
    BY <1>1, <2>1 DEF Inv, WorkInv, KeyInv, FlushHas
  <2>3. IF disk'[q] # 0 THEN q \in work'.uploads ELSE work'.expect[q] # 0
    BY <1>1, <1>2, <2>1, <2>2 DEF KeyFor
  <2> QED BY <1>1, <1>2, <2>2, <2>3 DEF FlushHas, Flushing
<1>9. MissedInv'
  BY <1>1, <1>2, <1>3 DEF MissedInv, Inv, TypeInv, Run
<1>10. UploadsInv'
  BY <1>1, <1>3 DEF UploadsInv, Flushing
<1>11. SyncInv'
  <2> SUFFICES ASSUME NEW q \in Path, Covers(q)', work'.kind \in {"sync", "startup", "reconcile"}
               PROVE  SyncHas(q)'
    BY DEF SyncInv
  <2>1. ~Flushing /\ work.kind # "reconcile"
    BY <1>1 DEF Covers, Flushing, PathsOf
  <2>2. work'.pc = "scan" /\ q \in work'.todo
    BY <1>1, <1>3, <2>1 DEF Inv, WorkInv, PhasesInv
  <2> QED BY <2>2 DEF SyncHas
<1> QED BY <1>1, <1>4, <1>5, <1>6, <1>7, <1>8, <1>9, <1>10, <1>11, InvFrom DEF WorkInv

\* What the scan of a path leaves of the work: it is planned, or it is settled.
ScanLeaves(p) ==
  /\ work'.pc = "scan" /\ work'.todo = work.todo \ {p} /\ work'.sending = work.sending
  /\ work'.failing = work.failing /\ work'.looks = work.looks /\ work'.listed = work.listed
  /\ \A q \in Path : q # p => work'.expect[q] = work.expect[q]
  /\ \/ /\ UNCHANGED <<disk, base, events>> /\ disk[p] # 0 /\ work'.uploads = work.uploads \cup {p}
        /\ work'.settled = work.settled
     \/ /\ UNCHANGED <<disk, base, events>> /\ work'.expect[p] # 0 /\ work'.uploads = work.uploads
        /\ work'.settled = work.settled
     \/ /\ base'[p] = disk'[p] /\ work'.uploads = work.uploads
        /\ \A k \in work'.settled \ work.settled : k[2] = p
        /\ UNCHANGED <<disk, events>> \/ events' = Append(events, KeyFor(p)')

LEMMA ScanLeavesFacts ==
  ASSUME Inv, NEW p \in Path, Scan(p)
  PROVE  /\ ScanLeaves(p) /\ TypeInv' /\ WorkGoesOn /\ UNCHANGED <<journal, pending, gate>>
         /\ Syncing /\ ~Flushing /\ work.pc = "scan" /\ p \in work.todo /\ work \in Run
         /\ \A q \in Path : q # p => disk'[q] = disk[q] /\ base'[q] = base[q]
<1>1. gate # "off"
  <2>1. work.pc = "scan"
    BY DEF Scan
  <2> QED BY <2>1, Shape
<1>2. /\ TypeInv' /\ WorkGoesOn /\ UNCHANGED <<journal, pending>>
      /\ work.pc = "scan" /\ p \in work.todo /\ work'.pc = "scan"
      /\ \A q \in Path : q # p => disk'[q] = disk[q] /\ base'[q] = base[q]
      /\ \/ /\ QuietStep /\ disk[p] # 0
            /\ work' = [work EXCEPT !.todo = @ \ {p}, !.uploads = @ \cup {p}, !.remote[p] = server[p]]
         \/ /\ QuietStep
            /\ work' = [work EXCEPT !.todo = @ \ {p}, !.expect[p] = server[p]] /\ server[p] # 0
            /\ server[p] \in Content
         \/ /\ ScanSettles(p) /\ base'[p] = disk'[p]
            /\ \/ UNCHANGED <<disk, events>>
               \/ events' = Append(events, KeyFor(p)')
  BY <1>1, ScanFacts DEF Inv
<1>3. work \in Run /\ Syncing /\ ~Flushing /\ gate' = gate
  BY <1>2, Shape DEF Inv, WorkInv, PhasesInv, WorkGoesOn, startup
<1>4. CASE /\ QuietStep /\ disk[p] # 0
           /\ work' = [work EXCEPT !.todo = @ \ {p}, !.uploads = @ \cup {p}, !.remote[p] = server[p]]
  <2>1. /\ work'.pc = "scan" /\ work'.todo = work.todo \ {p} /\ work'.sending = work.sending
        /\ work'.failing = work.failing /\ work'.looks = work.looks /\ work'.listed = work.listed
        /\ work'.expect = work.expect /\ work'.uploads = work.uploads \cup {p} /\ work'.settled = work.settled
    BY <1>2, <1>3, <1>4 DEF Run
  <2> QED BY <1>2, <1>3, <1>4, <2>1 DEF ScanLeaves, QuietStep
<1>5. CASE /\ QuietStep
           /\ work' = [work EXCEPT !.todo = @ \ {p}, !.expect[p] = server[p]] /\ server[p] # 0
           /\ server[p] \in Content
  <2>1. /\ work'.pc = "scan" /\ work'.todo = work.todo \ {p} /\ work'.sending = work.sending
        /\ work'.failing = work.failing /\ work'.looks = work.looks /\ work'.listed = work.listed
        /\ work'.expect = [work.expect EXCEPT ![p] = server[p]] /\ work'.uploads = work.uploads
        /\ work'.settled = work.settled
    BY <1>2, <1>3, <1>5 DEF Run
  <2>2. work'.expect[p] # 0 /\ \A q \in Path : q # p => work'.expect[q] = work.expect[q]
    BY <1>3, <1>5, <2>1 DEF Run
  <2> QED BY <1>2, <1>3, <1>5, <2>1, <2>2 DEF ScanLeaves, QuietStep
<1>6. CASE /\ ScanSettles(p) /\ base'[p] = disk'[p]
           /\ UNCHANGED <<disk, events>> \/ events' = Append(events, KeyFor(p)')
  BY <1>2, <1>3, <1>6 DEF ScanLeaves, ScanSettles
<1> QED BY <1>2, <1>3, <1>4, <1>5, <1>6

LEMMA ScanKeeps ==
  ASSUME Inv, NEW p \in Path, Scan(p)
  PROVE  Inv'
<1>1. /\ ScanLeaves(p) /\ TypeInv' /\ WorkGoesOn /\ UNCHANGED <<journal, pending, gate>>
      /\ Syncing /\ ~Flushing /\ work.pc = "scan" /\ p \in work.todo /\ work \in Run
      /\ \A q \in Path : q # p => disk'[q] = disk[q] /\ base'[q] = base[q]
  BY ScanLeavesFacts
<1>2. work'.kind = work.kind /\ work'.batch = work.batch /\ work'.revisions = work.revisions
  BY <1>1 DEF WorkGoesOn
<1>3. /\ work'.pc = "scan" /\ work'.todo = work.todo \ {p} /\ work'.sending = work.sending
      /\ work'.failing = work.failing /\ work'.looks = work.looks /\ work'.listed = work.listed
      /\ \A q \in Path : q # p => work'.expect[q] = work.expect[q]
      /\ work.uploads \subseteq work'.uploads
      /\ \A k \in work'.settled \ work.settled : k[2] = p \/ UNCHANGED disk
  BY <1>1 DEF ScanLeaves
<1>4. WorkFrame
  <2>1. UNCHANGED <<disk, events>> \/ events' = Append(events, KeyFor(p)')
    BY <1>1 DEF ScanLeaves
  <2> QED BY <1>1, <2>1, ScanFrame
<1>5. PhasesInv' /\ BatchInv' /\ SendingInv'
  BY <1>1, <1>2, <1>3 DEF Inv, WorkInv, PhasesInv, BatchInv, SendingInv, Flushing
<1>6. JournalOpen'
  BY <1>1, <1>2, <1>3 DEF Inv, WorkInv, JournalOpen
<1>7. KeyInv'
  <2> SUFFICES ASSUME NEW q \in Path, disk'[q] # base'[q], ~Held(q)' PROVE FALSE
    BY DEF KeyInv
  <2>1. ~Held(q) /\ disk'[q] = disk[q] /\ gate # "off"
    BY <1>1, <1>4, StayFacts, Shape
  <2>2. disk[q] # base[q]
    BY <1>1, <2>1 DEF ScanLeaves
  <2> QED BY <1>1, <2>1, <2>2 DEF Inv, WorkInv, KeyInv
<1>8. JournalInv'
  BY <1>1, <1>4, JournalKept
<1>9. MissedInv'
  <2> SUFFICES ASSUME ~work'.looks, NEW q \in work'.todo, ~(q \in work'.listed <=> disk'[q] # 0), ~Later(q)'
               PROVE  FALSE
    BY DEF MissedInv
  <2>1. q \in Path /\ q \in work.todo
    BY <1>1, <1>3 DEF Run
  <2>2. disk'[q] = disk[q] /\ ~Later(q)
    BY <1>4, <2>1, StayFacts
  <2> QED BY <1>1, <1>3, <2>1, <2>2 DEF Inv, WorkInv, MissedInv
<1>10. UploadsInv'
  <2> SUFFICES ASSUME NEW q \in work'.uploads, disk'[q] = 0, ~Later(q)' PROVE FALSE
    BY <1>1, <1>3 DEF UploadsInv
  <2>1. q \in Path
    BY <1>1 DEF Inv, TypeInv, Run
  <2>2. disk'[q] = disk[q] /\ ~Later(q)
    BY <1>4, <2>1, StayFacts
  <2>3. q \in work.uploads
    BY <1>1, <2>2 DEF ScanLeaves
  <2> QED BY <1>1, <2>2, <2>3 DEF Inv, WorkInv, UploadsInv, Flushing
<1>11. SyncInv'
  <2> SUFFICES ASSUME NEW q \in Path, Covers(q)', disk'[q] # base'[q], ~Later(q)', ~work'.failing,
                      work'.kind \in {"sync", "startup", "reconcile"}
               PROVE  SyncHas(q)'
    BY DEF SyncInv
  <2>1. disk'[q] = disk[q] /\ ~Later(q)
    BY <1>4, StayFacts
  <2>2. CASE q = p
    BY <1>1, <1>3, <2>2 DEF ScanLeaves, SyncHas
  <2>3. CASE q # p
    <3>1. Covers(q)
      <4>1. work'.settled \subseteq work.settled \/ \A k \in work'.settled \ work.settled : k[2] = p
        BY <1>1 DEF ScanLeaves
      <4> QED BY <1>2, <2>3, <4>1 DEF Covers, PathsOf
    <3>2. SyncHas(q)
      BY <1>1, <1>2, <1>3, <2>1, <2>3, <3>1 DEF Inv, WorkInv, SyncInv
    <3> QED BY <1>1, <1>3, <2>3, <3>2 DEF SyncHas
  <2> QED BY <2>2, <2>3
<1> QED BY <1>1, <1>4, <1>5, <1>6, <1>7, <1>8, <1>9, <1>10, <1>11, InvFrom DEF WorkInv

LEMMA EndScanKeeps ==
  ASSUME Inv, EndScan
  PROVE  Inv'
<1>1. /\ TypeInv' /\ WorkGoesOn /\ UNCHANGED <<disk, base, journal, events, pending, gate>> /\ Syncing
      /\ ~Flushing /\ work \in Run /\ work'.kind = work.kind
      /\ work.pc = "scan" /\ work.todo = {} /\ work.sending = {} /\ (\A p \in work'.todo : work.expect[p] # 0)
  BY EndScanFacts, Shape DEF WorkGoesOn, startup, QuietStep, Inv, WorkInv, PhasesInv
<1>2. /\ work'.pc = "clearing" /\ work'.uploads = work.uploads /\ work'.expect = work.expect
      /\ work'.sending = work.sending /\ work'.settled = work.settled /\ work'.failing = work.failing
  <2>1. work' = [work EXCEPT !.pc = "clearing", !.todo = work'.todo]
    BY EndScanFacts DEF Inv
  <2> DEFINE t == work'.todo
  <2>2. work' = [work EXCEPT !.pc = "clearing", !.todo = t]
    BY <2>1
  <2> HIDE DEF t
  <2> QED BY <1>1, <2>2 DEF Run
<1>3. WorkFrame
  BY <1>1, QuietFrame
<1>4. PhasesInv' /\ BatchInv' /\ SendingInv' /\ MissedInv'
  BY <1>1, <1>2 DEF PhasesInv, BatchInv, SendingInv, MissedInv, Flushing, Syncing
<1>5. JournalOpen'
  BY <1>1, <1>2 DEF Inv, WorkInv, JournalOpen, Syncing
<1>6. KeyInv'
  BY <1>1, <1>3, StayFacts DEF Inv, WorkInv, KeyInv
<1>7. JournalInv'
  BY <1>1, <1>3, JournalKept
<1>8. UploadsInv'
  <2> SUFFICES ASSUME NEW q \in work'.uploads, disk'[q] = 0, ~Later(q)' PROVE FALSE
    BY <1>1, <1>2 DEF UploadsInv
  <2>1. q \in Path /\ q \in work.uploads
    BY <1>1, <1>2 DEF Run
  <2> QED BY <1>1, <1>3, <2>1, StayFacts DEF Inv, WorkInv, UploadsInv, Flushing
<1>9. SyncInv'
  <2> SUFFICES ASSUME NEW q \in Path, Covers(q)', disk'[q] # base'[q], ~Later(q)', ~work'.failing,
                      work'.kind \in {"sync", "startup", "reconcile"}
               PROVE  SyncHas(q)'
    BY DEF SyncInv
  <2>1. ~Later(q) /\ Covers(q)
    BY <1>1, <1>2, <1>3, StayFacts DEF Covers
  <2>2. SyncHas(q)
    BY <1>1, <1>2, <2>1 DEF Inv, WorkInv, SyncInv
  <2> QED BY <1>1, <1>2, <2>2 DEF SyncHas
<1> QED BY <1>1, <1>3, <1>4, <1>5, <1>6, <1>7, <1>8, <1>9, InvFrom DEF WorkInv

LEMMA PathsOfFacts ==
  /\ \A S, T : S \subseteq T => PathsOf(S) \subseteq PathsOf(T)
  /\ \A S : \A p \in Path : Upload(p) \in S \/ Delete(p) \in S => p \in PathsOf(S)
  /\ \A p \in Path : p \notin PathsOf({})
<1>1. \A S, T : S \subseteq T => PathsOf(S) \subseteq PathsOf(T)
  BY DEF PathsOf
<1>2. \A S : \A p \in Path : Upload(p) \in S \/ Delete(p) \in S => p \in PathsOf(S)
  BY KeyFacts DEF PathsOf
<1>3. \A p \in Path : p \notin PathsOf({})
  BY DEF PathsOf
<1> QED BY <1>1, <1>2, <1>3

\* The batch of deletes fails, before or after it was sent.
LEMMA DeletesFailure ==
  ASSUME Inv, TypeInv', WorkGoesOn, QuietStep, work.pc \in {"clearing", "deleting"}, work.todo # {},
         NEW conflict \in BOOLEAN, DeletesFailed(work, work.todo, conflict)
  PROVE  Inv'
<1>1. /\ UNCHANGED <<disk, base, journal, events, gate>> /\ Syncing /\ work \in Run
      /\ work'.kind = work.kind /\ work'.batch = work.batch
      /\ work.todo \cup work.sending = work.todo /\ work.todo \subseteq Path
  BY Shape DEF WorkGoesOn, startup, QuietStep, Inv, WorkInv, PhasesInv, Run
<1>2. /\ work'.pc = work.pc /\ work'.sending = {} /\ work'.todo = {} /\ work'.uploads = work.uploads
      /\ work'.settled = work.settled
      /\ work'.failing = (work.failing \/ Flushing \/ ~conflict)
      /\ work'.conflicts = work.conflicts \cup (IF conflict THEN {Delete(p) : p \in work.todo} ELSE {})
      /\ \A p \in Path : work'.expect[p] = IF p \in work.todo THEN 0 ELSE work.expect[p]
      /\ Flushing => pending'.queued = pending.queued \cup {Delete(p) : p \in work.todo}
  BY <1>1 DEF DeletesFailed
<1>3. WorkFrame
  BY <1>1, QuietFrame
<1>4. PhasesInv' /\ BatchInv' /\ SendingInv' /\ MissedInv'
  BY <1>1, <1>2 DEF Inv, WorkInv, PhasesInv, BatchInv, SendingInv, MissedInv, Flushing, Syncing
<1>5. JournalOpen'
  BY <1>1, <1>2 DEF Inv, WorkInv, JournalOpen, Syncing
<1>6. KeyInv'
  <2> SUFFICES ASSUME NEW q \in Path, disk'[q] # base'[q], ~Held(q)' PROVE Flushing' /\ FlushHas(q)'
    BY DEF KeyInv
  <2>1. ~Held(q) /\ KeyFor(q)' = KeyFor(q) /\ gate # "off"
    BY <1>1, <1>3, StayFacts, SameKey, Shape
  <2>2. Flushing /\ FlushHas(q)
    BY <1>1, <2>1 DEF Inv, WorkInv, KeyInv
  <2>3. disk[q] = 0 => q \notin work.todo
    <3>1. KeyFor(q) \notin pending'.queued
      BY <2>1 DEF Held
    <3> QED BY <1>2, <2>2, <3>1 DEF KeyFor
  <2> QED BY <1>1, <1>2, <2>2, <2>3 DEF FlushHas, Flushing
<1>7. JournalInv'
  BY <1>1, <1>3, JournalKept
<1>8. UploadsInv'
  <2> SUFFICES ASSUME work'.kind # "flush", work'.pc = "clearing", NEW q \in work'.uploads, disk'[q] = 0, ~Later(q)'
               PROVE  FALSE
    BY <1>1, <1>2 DEF UploadsInv
  <2>1. q \in Path /\ q \in work.uploads
    BY <1>1, <1>2 DEF Run
  <2> QED BY <1>1, <1>2, <1>3, <2>1, StayFacts DEF Inv, WorkInv, UploadsInv, Flushing
<1>9. SyncInv'
  <2> SUFFICES ASSUME NEW q \in Path, Covers(q)', disk'[q] # base'[q], ~Later(q)', ~work'.failing,
                      work'.kind \in {"sync", "startup", "reconcile"}
               PROVE  SyncHas(q)'
    BY DEF SyncInv
  <2>1. ~Later(q) /\ Covers(q)
    BY <1>1, <1>2, <1>3, StayFacts DEF Covers
  <2>2. SyncHas(q) /\ conflict
    BY <1>1, <1>2, <2>1 DEF Inv, WorkInv, SyncInv
  <2>3. q \in PathsOf(work.conflicts) \/ q \in work.todo => q \in PathsOf(work'.conflicts)
    BY <1>2, <2>2, PathsOfFacts
  <2> QED BY <1>1, <1>2, <2>2, <2>3 DEF SyncHas
<1> QED BY <1>1, <1>3, <1>4, <1>5, <1>6, <1>7, <1>8, <1>9, InvFrom DEF WorkInv

LEMMA CheckDeletesKeeps ==
  ASSUME Inv, CheckDeletes
  PROVE  Inv'
<1>1. /\ TypeInv' /\ WorkGoesOn /\ QuietStep
      /\ work.pc \in {"clearing", "deleting"} /\ work.todo # {} /\ work.sending = {}
      /\ \/ \E conflict \in BOOLEAN : DeletesFailed(work, work.todo, conflict)
         \/ /\ work' = [work EXCEPT !.sending = work.todo] /\ pending' = pending
            /\ \A p \in work.todo : disk[p] = 0
  BY CheckDeletesFacts DEF Inv
<1>2. CASE \E conflict \in BOOLEAN : DeletesFailed(work, work.todo, conflict)
  BY <1>1, <1>2, DeletesFailure
<1>3. CASE /\ work' = [work EXCEPT !.sending = work.todo] /\ pending' = pending
           /\ \A p \in work.todo : disk[p] = 0
  <2>1. /\ UNCHANGED <<disk, base, journal, events, gate, pending>> /\ Syncing /\ work \in Run
        /\ work'.kind = work.kind /\ work'.batch = work.batch
    BY <1>1, <1>3, Shape DEF WorkGoesOn, startup, QuietStep
  <2>2. /\ work'.pc = work.pc /\ work'.todo = work.todo /\ work'.sending = work.todo
        /\ work'.uploads = work.uploads /\ work'.expect = work.expect /\ work'.settled = work.settled
        /\ work'.failing = work.failing /\ work'.conflicts = work.conflicts
    BY <1>3, <2>1 DEF Run
  <2>3. WorkFrame
    BY <1>1, <2>1, QuietFrame
  <2>4. PhasesInv' /\ BatchInv' /\ SendingInv' /\ MissedInv'
    BY <1>1, <1>3, <2>1, <2>2 DEF Inv, WorkInv, PhasesInv, BatchInv, SendingInv, MissedInv, Flushing, Syncing
  <2>5. JournalOpen'
    BY <1>1, <2>1, <2>2 DEF Inv, WorkInv, JournalOpen, Syncing
  <2>6. KeyInv'
    <3> SUFFICES ASSUME NEW q \in Path, disk'[q] # base'[q], ~Held(q)' PROVE Flushing' /\ FlushHas(q)'
      BY DEF KeyInv
    <3>1. ~Held(q) /\ gate # "off"
      BY <2>1, <2>3, StayFacts, Shape
    <3>2. Flushing /\ FlushHas(q)
      BY <2>1, <3>1 DEF Inv, WorkInv, KeyInv
    <3> QED BY <1>1, <2>1, <2>2, <3>2 DEF FlushHas, Flushing
  <2>7. JournalInv'
    BY <1>1, <2>1, <2>3, JournalKept
  <2>8. UploadsInv'
    <3> SUFFICES ASSUME work'.kind # "flush", work'.pc = "clearing", NEW q \in work'.uploads, disk'[q] = 0, ~Later(q)'
                 PROVE  FALSE
      BY <1>1, <2>2 DEF UploadsInv
    <3>1. q \in Path /\ q \in work.uploads
      BY <2>1, <2>2 DEF Run
    <3> QED BY <2>1, <2>2, <2>3, <3>1, StayFacts DEF Inv, WorkInv, UploadsInv, Flushing
  <2>9. SyncInv'
    <3> SUFFICES ASSUME NEW q \in Path, Covers(q)', disk'[q] # base'[q], ~Later(q)', ~work'.failing,
                        work'.kind \in {"sync", "startup", "reconcile"}
                 PROVE  SyncHas(q)'
      BY DEF SyncInv
    <3>1. ~Later(q) /\ Covers(q)
      BY <2>1, <2>2, <2>3, StayFacts DEF Covers
    <3>2. SyncHas(q)
      BY <1>1, <2>1, <2>2, <3>1 DEF Inv, WorkInv, SyncInv
    <3> QED BY <1>1, <2>1, <2>2, <3>2 DEF SyncHas
  <2> QED BY <1>1, <2>3, <2>4, <2>5, <2>6, <2>7, <2>8, <2>9, InvFrom DEF WorkInv
<1> QED BY <1>1, <1>2, <1>3

LEMMA LoseDeletesKeeps ==
  ASSUME Inv, LoseDeletes
  PROVE  Inv'
<1>1. /\ TypeInv' /\ WorkGoesOn /\ QuietStep
      /\ work.pc \in {"clearing", "deleting"} /\ work.sending # {}
      /\ DeletesFailed(work, work.sending, FALSE)
  BY LoseDeletesFacts DEF Inv
<1>2. work.todo = work.sending
  BY <1>1 DEF Inv, WorkInv, PhasesInv
<1> QED BY <1>1, <1>2, DeletesFailure

LEMMA SendDeletesKeeps ==
  ASSUME Inv, SendDeletes
  PROVE  Inv'
<1>1. /\ TypeInv' /\ WorkGoesOn /\ UNCHANGED <<disk, journal, events, gate>> /\ Syncing /\ work \in Run
      /\ work'.kind = work.kind /\ work'.batch = work.batch
      /\ work.pc \in {"clearing", "deleting"} /\ work.sending # {}
      /\ work'.pc = work.pc /\ work'.sending = {} /\ work'.todo = {} /\ work'.uploads = work.uploads
      /\ work.settled \subseteq work'.settled
      /\ \A p \in Path : work'.expect[p] = IF p \in work.todo \cup work.sending THEN 0 ELSE work.expect[p]
  BY SendDeletesFacts, Shape DEF WorkGoesOn, startup, Inv
<1>2. PICK done \in SUBSET work.sending :
        /\ \A k \in work'.settled \ work.settled : k[2] \in done
        /\ \A p \in Path : base'[p] = IF p \in done THEN 0 ELSE base[p]
        /\ work'.failing = (work.failing \/ (work.sending \ done # {} /\ Flushing))
        /\ work'.conflicts = work.conflicts \cup {Delete(p) : p \in work.sending \ done}
        /\ Flushing => pending'.queued = pending.queued \cup {Delete(p) : p \in work.sending \ done}
  BY SendDeletesFacts DEF Inv
<1>3. /\ work.todo = work.sending /\ work.sending \subseteq Path
      /\ \A p \in work.sending : disk[p] = 0 \/ Later(p)
  BY <1>1 DEF Inv, WorkInv, PhasesInv, SendingInv, Run
<1>4. WorkFrame
  BY <1>1, QuietFrame
<1>5. PhasesInv' /\ BatchInv' /\ SendingInv' /\ MissedInv'
  BY <1>1 DEF Inv, WorkInv, PhasesInv, BatchInv, SendingInv, MissedInv, Flushing, Syncing
<1>6. JournalOpen'
  BY <1>1, <1>2 DEF Inv, WorkInv, JournalOpen, Syncing
<1>7. KeyInv'
  <2> SUFFICES ASSUME NEW q \in Path, disk'[q] # base'[q], ~Held(q)' PROVE Flushing' /\ FlushHas(q)'
    BY DEF KeyInv
  <2>1. ~Held(q) /\ ~Later(q) /\ KeyFor(q)' = KeyFor(q) /\ gate # "off"
    BY <1>1, <1>4, StayFacts, SameKey, Shape
  <2>2. q \notin done
    BY <1>1, <1>2, <1>3, <2>1
  <2>3. Flushing /\ FlushHas(q)
    BY <1>1, <1>2, <2>1, <2>2 DEF Inv, WorkInv, KeyInv
  <2>4. disk[q] = 0 => q \notin work.todo
    <3>1. KeyFor(q) \notin pending'.queued
      BY <2>1 DEF Held
    <3> QED BY <1>2, <1>3, <2>2, <2>3, <3>1 DEF KeyFor
  <2> QED BY <1>1, <1>3, <2>3, <2>4 DEF FlushHas, Flushing
<1>8. JournalInv'
  BY <1>1, <1>4, JournalKept
<1>9. UploadsInv'
  <2> SUFFICES ASSUME work'.kind # "flush", work'.pc = "clearing", NEW q \in work'.uploads, disk'[q] = 0, ~Later(q)'
               PROVE  FALSE
    BY <1>1 DEF UploadsInv
  <2>1. q \in Path /\ q \in work.uploads
    BY <1>1 DEF Run
  <2> QED BY <1>1, <1>4, <2>1, StayFacts DEF Inv, WorkInv, UploadsInv, Flushing
<1>10. SyncInv'
  <2> SUFFICES ASSUME NEW q \in Path, Covers(q)', disk'[q] # base'[q], ~Later(q)', ~work'.failing,
                      work'.kind \in {"sync", "startup", "reconcile"}
               PROVE  SyncHas(q)'
    BY DEF SyncInv
  <2>1. ~Later(q)
    BY <1>4, StayFacts
  <2>2. q \notin done
    BY <1>1, <1>2, <1>3, <2>1
  <2>3. Covers(q)
    BY <1>1, <1>2, <2>2 DEF Covers, PathsOf
  <2>4. SyncHas(q)
    BY <1>1, <1>2, <2>1, <2>2, <2>3 DEF Inv, WorkInv, SyncInv
  <2>5. q \in PathsOf(work.conflicts) \/ q \in work.todo => q \in PathsOf(work'.conflicts)
    BY <1>2, <1>3, <2>2, PathsOfFacts
  <2> QED BY <1>1, <1>3, <2>4, <2>5 DEF SyncHas
<1> QED BY <1>1, <1>4, <1>5, <1>6, <1>7, <1>8, <1>9, <1>10, InvFrom DEF WorkInv

\* The paths that lost a race are planned again.
LEMMA RescanKeeps ==
  ASSUME Inv, TypeInv', WorkGoesOn, QuietStep, ~Flushing, work.pc \in {"clearing", "uploading", "deleting"},
         work.todo = {}, work.sending = {}, NEW uploads, Rescanned(uploads),
         uploads = IF work.pc = "clearing" THEN work.uploads ELSE {}
  PROVE  Inv'
<1>1. /\ UNCHANGED <<disk, base, journal, events, gate>> /\ Syncing /\ work \in Run
      /\ work'.kind = work.kind /\ work'.pc = "scan" /\ work'.looks
      /\ work'.uploads = uploads /\ work'.expect = work.expect /\ work'.sending = {}
      /\ work'.settled = work.settled
      /\ ~work'.failing => ~work.failing /\ work'.todo = PathsOf(work.conflicts)
      /\ work.failing => work'.failing
  BY Shape DEF WorkGoesOn, startup, QuietStep, Rescanned
<1>2. WorkFrame
  BY <1>1, QuietFrame
<1>3. PhasesInv' /\ BatchInv' /\ SendingInv' /\ MissedInv'
  BY <1>1 DEF PhasesInv, BatchInv, SendingInv, MissedInv, Flushing, Syncing
<1>4. JournalOpen'
  BY <1>1 DEF Inv, WorkInv, JournalOpen, Syncing
<1>5. KeyInv'
  BY <1>1, <1>2, StayFacts DEF Inv, WorkInv, KeyInv
<1>6. JournalInv'
  BY <1>1, <1>2, JournalKept
<1>7. UploadsInv'
  <2> SUFFICES ASSUME NEW q \in work'.uploads, disk'[q] = 0, ~Later(q)' PROVE FALSE
    BY <1>1 DEF UploadsInv
  <2>1. work.pc = "clearing" /\ q \in Path /\ q \in work.uploads
    BY <1>1 DEF Run
  <2> QED BY <1>1, <1>2, <2>1, StayFacts DEF Inv, WorkInv, UploadsInv, Flushing
<1>8. SyncInv'
  <2> SUFFICES ASSUME NEW q \in Path, Covers(q)', disk'[q] # base'[q], ~Later(q)', ~work'.failing,
                      work'.kind \in {"sync", "startup", "reconcile"}
               PROVE  SyncHas(q)'
    BY DEF SyncInv
  <2>1. ~Later(q) /\ Covers(q)
    BY <1>1, <1>2, StayFacts DEF Covers
  <2>2. SyncHas(q)
    BY <1>1, <2>1 DEF Inv, WorkInv, SyncInv
  <2> QED BY <1>1, <2>2 DEF SyncHas
<1> QED BY <1>2, <1>3, <1>4, <1>5, <1>6, <1>7, <1>8, InvFrom DEF WorkInv

LEMMA EndClearingKeeps ==
  ASSUME Inv, EndClearing
  PROVE  Inv'
<1>1. /\ TypeInv' /\ WorkGoesOn /\ QuietStep
      /\ work.pc = "clearing" /\ work.todo = {} /\ work.sending = {}
      /\ \/ ~Flushing /\ Rescanned(work.uploads)
         \/ /\ Flushing \/ work.conflicts = {}
            /\ work'.pc = "uploading" /\ work'.uploads = work.uploads /\ work'.expect = work.expect
            /\ work'.sending = {} /\ work'.failing = work.failing /\ work'.settled = work.settled
            /\ work'.conflicts = work.conflicts /\ work'.todo \subseteq work.uploads
            /\ ~Flushing => work'.todo = work.uploads
            /\ \A p \in work.uploads : p \in work'.todo \/ Upload(p) \in pending'.queued
  BY EndClearingFacts DEF Inv
<1>2. CASE ~Flushing /\ Rescanned(work.uploads)
  BY <1>1, <1>2, RescanKeeps
<1>3. CASE /\ Flushing \/ work.conflicts = {}
           /\ work'.pc = "uploading" /\ work'.uploads = work.uploads /\ work'.expect = work.expect
           /\ work'.sending = {} /\ work'.failing = work.failing /\ work'.settled = work.settled
           /\ work'.conflicts = work.conflicts /\ work'.todo \subseteq work.uploads
           /\ ~Flushing => work'.todo = work.uploads
           /\ \A p \in work.uploads : p \in work'.todo \/ Upload(p) \in pending'.queued
  <2>1. /\ UNCHANGED <<disk, base, journal, events, gate>> /\ Syncing /\ work \in Run
        /\ work'.kind = work.kind /\ work'.batch = work.batch
    BY <1>1, Shape DEF WorkGoesOn, startup, QuietStep
  <2>2. WorkFrame
    BY <1>1, <2>1, QuietFrame
  <2>3. PhasesInv' /\ BatchInv' /\ SendingInv' /\ MissedInv'
    BY <1>1, <1>3, <2>1 DEF Inv, WorkInv, PhasesInv, BatchInv, SendingInv, MissedInv, Flushing, Syncing
  <2>4. JournalOpen'
    BY <1>1, <1>3, <2>1 DEF Inv, WorkInv, JournalOpen, Syncing
  <2>5. KeyInv'
    <3> SUFFICES ASSUME NEW q \in Path, disk'[q] # base'[q], ~Held(q)' PROVE Flushing' /\ FlushHas(q)'
      BY DEF KeyInv
    <3>1. ~Held(q) /\ KeyFor(q)' = KeyFor(q) /\ KeyFor(q) \notin pending'.queued /\ gate # "off"
      BY <2>1, <2>2, StayFacts, SameKey, Shape DEF Held
    <3>2. Flushing /\ FlushHas(q)
      BY <2>1, <3>1 DEF Inv, WorkInv, KeyInv
    <3>3. disk[q] # 0 => q \in work'.todo
      BY <1>1, <1>3, <3>1, <3>2 DEF FlushHas, KeyFor
    <3> QED BY <1>1, <1>3, <2>1, <3>2, <3>3 DEF FlushHas, Flushing
  <2>6. JournalInv'
    BY <1>1, <2>1, <2>2, JournalKept
  <2>7. UploadsInv'
    <3> SUFFICES ASSUME work'.kind # "flush", NEW q \in work'.todo, disk'[q] = 0, ~Later(q)' PROVE FALSE
      BY <1>3 DEF UploadsInv
    <3>1. q \in Path /\ q \in work.uploads
      BY <1>3, <2>1 DEF Run
    <3> QED BY <1>1, <2>1, <2>2, <3>1, StayFacts DEF Inv, WorkInv, UploadsInv, Flushing
  <2>8. SyncInv'
    <3> SUFFICES ASSUME NEW q \in Path, Covers(q)', disk'[q] # base'[q], ~Later(q)', ~work'.failing,
                        work'.kind \in {"sync", "startup", "reconcile"}
                 PROVE  SyncHas(q)'
      BY DEF SyncInv
    <3>1. ~Later(q) /\ Covers(q)
      BY <1>3, <2>1, <2>2, StayFacts DEF Covers
    <3>2. SyncHas(q) /\ ~Flushing
      BY <1>1, <1>3, <2>1, <3>1 DEF Inv, WorkInv, SyncInv, Flushing
    <3> QED BY <1>1, <1>3, <3>2 DEF SyncHas
  <2> QED BY <1>1, <2>2, <2>3, <2>4, <2>5, <2>6, <2>7, <2>8, InvFrom DEF WorkInv
<1> QED BY <1>1, <1>2, <1>3

LEMMA EndDeletesKeeps ==
  ASSUME Inv, EndDeletes
  PROVE  Inv'
<1>1. /\ TypeInv' /\ WorkGoesOn /\ QuietStep
      /\ work.pc = "deleting" /\ work.todo = {} /\ work.sending = {}
      /\ \/ ~Flushing /\ Rescanned({})
         \/ /\ Flushing \/ work.conflicts = {}
            /\ work' = [work EXCEPT !.pc = "saving"]
  BY EndDeletesFacts DEF Inv
<1>2. CASE ~Flushing /\ Rescanned({})
  BY <1>1, <1>2, RescanKeeps
<1>3. CASE (Flushing \/ work.conflicts = {}) /\ work' = [work EXCEPT !.pc = "saving"]
  <2>1. /\ UNCHANGED <<disk, base, journal, events, gate>> /\ Syncing /\ work \in Run
        /\ work'.kind = work.kind /\ work'.batch = work.batch
    BY <1>1, Shape DEF WorkGoesOn, startup, QuietStep
  <2>2. /\ work'.pc = "saving" /\ work'.uploads = work.uploads /\ work'.expect = work.expect
        /\ work'.failing = work.failing /\ work'.settled = work.settled
    BY <1>3, <2>1 DEF Run
  <2>3. WorkFrame
    BY <1>1, <2>1, QuietFrame
  <2>4. PhasesInv' /\ BatchInv' /\ SendingInv' /\ MissedInv' /\ UploadsInv'
    BY <1>1, <2>1, <2>2 DEF Inv, WorkInv, PhasesInv, BatchInv, SendingInv, MissedInv, UploadsInv, Flushing, Syncing
  <2>5. JournalOpen'
    BY <1>1, <2>1, <2>2 DEF Inv, WorkInv, JournalOpen, Syncing
  <2>6. KeyInv'
    <3> SUFFICES ASSUME NEW q \in Path, disk'[q] # base'[q], ~Held(q)' PROVE FALSE
      BY DEF KeyInv
    <3>1. ~Held(q) /\ gate # "off"
      BY <2>1, <2>3, StayFacts, Shape
    <3> QED BY <1>1, <2>1, <3>1 DEF Inv, WorkInv, KeyInv, FlushHas
  <2>7. JournalInv'
    BY <1>1, <2>1, <2>3, JournalKept
  <2>8. SyncInv'
    <3> SUFFICES ASSUME NEW q \in Path, Covers(q)', disk'[q] # base'[q], ~Later(q)', ~work'.failing,
                        work'.kind \in {"sync", "startup", "reconcile"}
                 PROVE  FALSE
      BY DEF SyncInv
    <3>1. ~Later(q) /\ Covers(q)
      BY <2>1, <2>2, <2>3, StayFacts DEF Covers
    <3>2. SyncHas(q) /\ ~Flushing
      BY <1>1, <2>1, <2>2, <3>1 DEF Inv, WorkInv, SyncInv, Flushing
    <3> QED BY <1>1, <1>3, <3>2, PathsOfFacts DEF SyncHas
  <2> QED BY <1>1, <2>3, <2>4, <2>5, <2>6, <2>7, <2>8, InvFrom DEF WorkInv
<1> QED BY <1>1, <1>2, <1>3

LEMMA EndUploadsKeeps ==
  ASSUME Inv, EndUploads
  PROVE  Inv'
<1>1. /\ TypeInv' /\ WorkGoesOn /\ QuietStep
      /\ work.pc = "uploading" /\ work.todo = {} /\ work.sending = {}
      /\ \/ ~Flushing /\ Rescanned({})
         \/ /\ Flushing \/ work.conflicts = {}
            /\ work'.pc = "deleting" /\ work'.uploads = {} /\ work'.expect = work.expect
            /\ work'.sending = {} /\ work'.settled = work.settled
            /\ work.failing => work'.failing
            /\ \A p \in work'.todo : work.expect[p] # 0
            /\ \A p \in Path : work.expect[p] # 0 =>
                  \/ p \in work'.todo
                  \/ ~Flushing /\ work.failing
                  \/ Flushing /\ Delete(p) \in pending'.queued
  BY EndUploadsFacts DEF Inv
<1>2. CASE ~Flushing /\ Rescanned({})
  BY <1>1, <1>2, RescanKeeps
<1>3. CASE /\ Flushing \/ work.conflicts = {}
           /\ work'.pc = "deleting" /\ work'.uploads = {} /\ work'.expect = work.expect
           /\ work'.sending = {} /\ work'.settled = work.settled
           /\ work.failing => work'.failing
           /\ \A p \in work'.todo : work.expect[p] # 0
           /\ \A p \in Path : work.expect[p] # 0 =>
                 \/ p \in work'.todo
                 \/ ~Flushing /\ work.failing
                 \/ Flushing /\ Delete(p) \in pending'.queued
  <2>1. /\ UNCHANGED <<disk, base, journal, events, gate>> /\ Syncing /\ work \in Run
        /\ work'.kind = work.kind /\ work'.batch = work.batch
    BY <1>1, Shape DEF WorkGoesOn, startup, QuietStep
  <2>2. WorkFrame
    BY <1>1, <2>1, QuietFrame
  <2>3. PhasesInv' /\ BatchInv' /\ SendingInv' /\ MissedInv' /\ UploadsInv'
    BY <1>1, <1>3, <2>1 DEF Inv, WorkInv, PhasesInv, BatchInv, SendingInv, MissedInv, UploadsInv, Flushing, Syncing
  <2>4. JournalOpen'
    BY <1>1, <1>3, <2>1 DEF Inv, WorkInv, JournalOpen, Syncing
  <2>5. KeyInv'
    <3> SUFFICES ASSUME NEW q \in Path, disk'[q] # base'[q], ~Held(q)' PROVE Flushing' /\ FlushHas(q)'
      BY DEF KeyInv
    <3>1. ~Held(q) /\ KeyFor(q)' = KeyFor(q) /\ KeyFor(q) \notin pending'.queued /\ gate # "off"
      BY <2>1, <2>2, StayFacts, SameKey, Shape DEF Held
    <3>2. Flushing /\ FlushHas(q)
      BY <2>1, <3>1 DEF Inv, WorkInv, KeyInv
    <3>3. disk[q] = 0 /\ work.expect[q] # 0
      BY <1>1, <3>2 DEF FlushHas
    <3>4. q \in work'.todo
      BY <1>3, <3>1, <3>2, <3>3 DEF KeyFor
    <3> QED BY <1>3, <2>1, <3>2, <3>3, <3>4 DEF FlushHas, Flushing
  <2>6. JournalInv'
    BY <1>1, <2>1, <2>2, JournalKept
  <2>7. SyncInv'
    <3> SUFFICES ASSUME NEW q \in Path, Covers(q)', disk'[q] # base'[q], ~Later(q)', ~work'.failing,
                        work'.kind \in {"sync", "startup", "reconcile"}
                 PROVE  SyncHas(q)'
      BY DEF SyncInv
    <3>1. ~Later(q) /\ Covers(q) /\ ~work.failing /\ ~Flushing
      BY <1>3, <2>1, <2>2, StayFacts DEF Covers, Flushing
    <3>2. SyncHas(q)
      BY <1>1, <2>1, <3>1 DEF Inv, WorkInv, SyncInv
    <3>3. work.expect[q] # 0
      BY <1>1, <1>3, <3>1, <3>2, PathsOfFacts DEF SyncHas
    <3> QED BY <1>3, <3>1, <3>3 DEF SyncHas
  <2> QED BY <1>1, <2>2, <2>3, <2>4, <2>5, <2>6, <2>7, InvFrom DEF WorkInv
<1> QED BY <1>1, <1>2, <1>3

LEMMA PrepareKeeps ==
  ASSUME Inv, NEW p \in Path, Prepare(p)
  PROVE  Inv'
<1>1. /\ TypeInv' /\ WorkGoesOn /\ UNCHANGED <<disk, base, events, pending, gate>> /\ Syncing /\ work \in Run
      /\ work'.kind = work.kind /\ work'.batch = work.batch
      /\ work.pc = "uploading" /\ p \in work.todo
      /\ work'.pc = work.pc /\ work'.todo = work.todo \ {p} /\ work'.uploads = work.uploads
      /\ work'.expect = work.expect /\ work'.conflicts = work.conflicts
      /\ work'.settled = work.settled /\ (work.failing => work'.failing)
      /\ \A q \in Path : q # p => journal'[q] = journal[q]
  BY PrepareFacts, Shape DEF WorkGoesOn, startup, Inv
<1>2. \/ /\ disk[p] = 0 \/ (Flushing /\ disk[p] = base[p])
         /\ UNCHANGED journal /\ work'.sending = work.sending
      \/ /\ disk[p] # 0 /\ work'.sending = work.sending \cup {p}
         /\ journal'[p].hash = disk[p]
  BY PrepareFacts DEF Inv
<1>3. WorkFrame
  BY <1>1, QuietFrame
<1>4. PhasesInv' /\ MissedInv'
  BY <1>1 DEF Inv, WorkInv, PhasesInv, MissedInv, Flushing
<1>5. BatchInv'
  <2>1. work'.todo \cup work'.sending \subseteq work.todo \cup work.sending
    BY <1>1, <1>2
  <2> QED BY <1>1, <2>1 DEF Inv, WorkInv, BatchInv, Flushing
<1>6. JournalOpen'
  BY <1>1, <1>2 DEF Inv, WorkInv, JournalOpen, Syncing
<1>7. SendingInv'
  <2> SUFFICES ASSUME NEW q \in work'.sending, journal'[q].hash # disk'[q], ~Later(q)' PROVE FALSE
    BY <1>1 DEF SendingInv
  <2>1. q \in Path /\ ~Later(q)
    <3>1. q \in Path
      BY <1>1, <1>2 DEF Run
    <3> QED BY <1>3, <3>1, StayFacts
  <2>2. q \in work.sending /\ journal'[q] = journal[q]
    BY <1>1, <1>2, <2>1
  <2> QED BY <1>1, <2>1, <2>2 DEF Inv, WorkInv, SendingInv
<1>8. KeyInv'
  <2> SUFFICES ASSUME NEW q \in Path, disk'[q] # base'[q], ~Held(q)' PROVE Flushing' /\ FlushHas(q)'
    BY DEF KeyInv
  <2>1. ~Held(q) /\ gate # "off"
    BY <1>1, <1>3, StayFacts, Shape
  <2>2. Flushing /\ FlushHas(q)
    BY <1>1, <2>1 DEF Inv, WorkInv, KeyInv
  <2>3. disk[q] # 0 => q \in work'.todo \cup work'.sending
    BY <1>1, <1>2, <2>2 DEF FlushHas
  <2> QED BY <1>1, <2>2, <2>3 DEF FlushHas, Flushing
<1>9. JournalInv'
  BY <1>1, <1>2, <1>3, JournalKept
<1>10. UploadsInv'
  <2> SUFFICES ASSUME work'.kind # "flush", NEW q \in work'.todo, disk'[q] = 0, ~Later(q)' PROVE FALSE
    BY <1>1 DEF UploadsInv
  <2>1. q \in Path /\ q \in work.todo
    BY <1>1 DEF Run
  <2> QED BY <1>1, <1>3, <2>1, StayFacts DEF Inv, WorkInv, UploadsInv, Flushing
<1>11. SyncInv'
  <2> SUFFICES ASSUME NEW q \in Path, Covers(q)', disk'[q] # base'[q], ~Later(q)', ~work'.failing,
                      work'.kind \in {"sync", "startup", "reconcile"}
               PROVE  SyncHas(q)'
    BY DEF SyncInv
  <2>1. ~Later(q) /\ Covers(q) /\ ~work.failing /\ ~Flushing
    BY <1>1, <1>3, StayFacts DEF Covers, Flushing
  <2>2. SyncHas(q)
    BY <1>1, <2>1 DEF Inv, WorkInv, SyncInv
  <2>3. q = p => disk[p] # 0
    BY <1>1, <2>1 DEF Inv, WorkInv, UploadsInv, Flushing
  <2>4. q \in work.todo \cup work.sending => q \in work'.todo \cup work'.sending
    BY <1>1, <1>2, <2>1, <2>3
  <2> QED BY <1>1, <2>2, <2>4 DEF SyncHas
<1> QED BY <1>1, <1>3, <1>4, <1>5, <1>6, <1>7, <1>8, <1>9, <1>10, <1>11, InvFrom DEF WorkInv

\* What both outcomes of a sent upload keep.
LEMMA UploadEnds ==
  ASSUME Inv, TypeInv', WorkGoesOn, UNCHANGED <<disk, events>>, work.pc = "uploading", NEW p \in work.sending,
         work'.pc = work.pc, work'.todo = work.todo, work'.uploads = work.uploads,
         work'.sending = work.sending \ {p}, work'.expect = work.expect,
         work.failing => work'.failing, journal'[p] = None \/ work'.failing,
         \A q \in Path : q # p => journal'[q] = journal[q]
  PROVE  /\ WorkFrame /\ Syncing /\ work \in Run /\ p \in Path /\ gate' = gate /\ gate # "off"
         /\ PhasesInv' /\ BatchInv' /\ JournalOpen' /\ SendingInv' /\ MissedInv' /\ UploadsInv'
<1>1. /\ Syncing /\ work \in Run /\ p \in Path /\ work'.kind = work.kind /\ work'.batch = work.batch
      /\ gate' = gate /\ gate # "off"
  BY Shape DEF WorkGoesOn, startup, Run
<1>2. WorkFrame
  BY <1>1, QuietFrame
<1>3. PhasesInv' /\ BatchInv' /\ MissedInv'
  BY <1>1 DEF Inv, WorkInv, PhasesInv, BatchInv, MissedInv, Flushing
<1>4. JournalOpen'
  BY <1>1 DEF Inv, WorkInv, JournalOpen, Syncing
<1>5. SendingInv'
  <2> SUFFICES ASSUME NEW q \in work'.sending, journal'[q].hash # disk'[q], ~Later(q)' PROVE FALSE
    BY DEF SendingInv
  <2>1. q \in Path /\ q \in work.sending /\ q # p
    BY <1>1 DEF Run
  <2>2. ~Later(q)
    BY <1>2, <2>1, StayFacts
  <2> QED BY <1>1, <2>1, <2>2 DEF Inv, WorkInv, SendingInv
<1>6. UploadsInv'
  <2> SUFFICES ASSUME work'.kind # "flush", NEW q \in work'.todo, disk'[q] = 0, ~Later(q)' PROVE FALSE
    BY DEF UploadsInv
  <2>1. q \in Path /\ q \in work.todo
    BY <1>1 DEF Run
  <2> QED BY <1>1, <1>2, <2>1, StayFacts DEF Inv, WorkInv, UploadsInv, Flushing
<1> QED BY <1>1, <1>2, <1>3, <1>4, <1>5, <1>6

LEMMA UploadFailure ==
  ASSUME Inv, TypeInv', WorkGoesOn, UNCHANGED <<disk, base, events>>, work.pc = "uploading", NEW p \in work.sending,
         NEW retry \in BOOLEAN, retry => ~Flushing, UploadFailed(p, retry),
         \A q \in Path : q # p => journal'[q] = journal[q],
         journal'[p] = None \/ (~retry /\ journal'[p].hash = journal[p].hash)
  PROVE  Inv'
<1>1. /\ work'.kind = work.kind /\ work'.batch = work.batch
      /\ work'.pc = work.pc /\ work'.todo = work.todo /\ work'.uploads = work.uploads
      /\ work'.sending = work.sending \ {p} /\ work'.settled = work.settled /\ work'.expect = work.expect
      /\ work'.failing = (work.failing \/ ~retry)
      /\ work.conflicts \subseteq work'.conflicts /\ (retry => Upload(p) \in work'.conflicts)
      /\ Flushing => pending'.queued = pending.queued \cup {Upload(p)}
  BY DEF UploadFailed, WorkGoesOn
<1>2. /\ WorkFrame /\ Syncing /\ work \in Run /\ p \in Path /\ gate' = gate /\ gate # "off"
      /\ PhasesInv' /\ BatchInv' /\ JournalOpen' /\ SendingInv' /\ MissedInv' /\ UploadsInv'
  BY <1>1, UploadEnds
<1>3. KeyInv'
  <2> SUFFICES ASSUME NEW q \in Path, disk'[q] # base'[q], ~Held(q)' PROVE Flushing' /\ FlushHas(q)'
    BY DEF KeyInv
  <2>1. ~Held(q) /\ KeyFor(q)' = KeyFor(q) /\ KeyFor(q) \notin pending'.queued
    BY <1>2, StayFacts, SameKey DEF Held
  <2>2. Flushing /\ FlushHas(q)
    BY <1>2, <2>1 DEF Inv, WorkInv, KeyInv
  <2>3. disk[q] # 0 => q # p
    BY <1>1, <2>1, <2>2 DEF KeyFor
  <2> QED BY <1>1, <2>2, <2>3 DEF FlushHas, Flushing
<1>4. JournalInv'
  <2>1. journal'[p] = None \/ journal'[p].hash = disk'[p] \/ Safe(p)'
    <3>1. journal[p].hash = disk[p] \/ Later(p)
      BY DEF Inv, WorkInv, SendingInv
    <3> QED BY <1>2, <3>1 DEF WorkFrame, Stay
  <2> QED BY <1>2, <2>1, JournalKept
<1>5. SyncInv'
  <2> SUFFICES ASSUME NEW q \in Path, Covers(q)', disk'[q] # base'[q], ~Later(q)', ~work'.failing,
                      work'.kind \in {"sync", "startup", "reconcile"}
               PROVE  SyncHas(q)'
    BY DEF SyncInv
  <2>1. ~Later(q) /\ Covers(q) /\ ~work.failing /\ retry
    BY <1>1, <1>2, StayFacts DEF Covers
  <2>2. SyncHas(q)
    BY <1>1, <2>1 DEF Inv, WorkInv, SyncInv
  <2>3. q \in PathsOf(work.conflicts) \/ q = p => q \in PathsOf(work'.conflicts)
    BY <1>1, <2>1, PathsOfFacts
  <2> QED BY <1>1, <2>2, <2>3 DEF SyncHas
<1> QED BY <1>2, <1>3, <1>4, <1>5, InvFrom DEF WorkInv

LEMMA LoseUploadKeeps ==
  ASSUME Inv, NEW p \in Path, LoseUpload(p)
  PROVE  Inv'
<1>1. /\ TypeInv' /\ WorkGoesOn /\ UNCHANGED <<disk, base, events>>
      /\ work.pc = "uploading" /\ p \in work.sending /\ UploadFailed(p, FALSE)
      /\ journal'[p].hash = journal[p].hash
      /\ \A q \in Path : q # p => journal'[q] = journal[q]
  BY LoseUploadFacts DEF Inv
<1> QED BY <1>1, UploadFailure

LEMMA SendUploadKeeps ==
  ASSUME Inv, NEW p \in Path, SendUpload(p)
  PROVE  Inv'
<1>1. /\ TypeInv' /\ WorkGoesOn /\ UNCHANGED <<disk, events>>
      /\ work.pc = "uploading" /\ p \in work.sending
      /\ journal'[p] = None /\ \A q \in Path : q # p => journal'[q] = journal[q]
      /\ \/ base' = base /\ \E retry \in BOOLEAN : (retry => ~Flushing) /\ UploadFailed(p, retry)
         \/ /\ base'[p] = journal[p].hash /\ \A q \in Path : q # p => base'[q] = base[q]
            /\ pending' = pending
            /\ work'.pc = work.pc /\ work'.todo = work.todo /\ work'.uploads = work.uploads
            /\ work'.expect = work.expect /\ work'.conflicts = work.conflicts
            /\ work'.failing = work.failing /\ work'.sending = work.sending \ {p}
            /\ work.settled \subseteq work'.settled
            /\ \A k \in work'.settled \ work.settled : k[2] = p
  BY SendUploadFacts DEF Inv
<1>2. CASE base' = base /\ \E retry \in BOOLEAN : (retry => ~Flushing) /\ UploadFailed(p, retry)
  <2>1. PICK retry \in BOOLEAN : (retry => ~Flushing) /\ UploadFailed(p, retry)
    BY <1>2
  <2> QED BY <1>1, <1>2, <2>1, UploadFailure
<1>3. CASE /\ base'[p] = journal[p].hash /\ \A q \in Path : q # p => base'[q] = base[q]
           /\ pending' = pending
           /\ work'.pc = work.pc /\ work'.todo = work.todo /\ work'.uploads = work.uploads
           /\ work'.expect = work.expect /\ work'.conflicts = work.conflicts
           /\ work'.failing = work.failing /\ work'.sending = work.sending \ {p}
           /\ work.settled \subseteq work'.settled
           /\ \A k \in work'.settled \ work.settled : k[2] = p
  <2>1. /\ WorkFrame /\ Syncing /\ work \in Run /\ p \in Path /\ gate' = gate /\ gate # "off"
        /\ PhasesInv' /\ BatchInv' /\ JournalOpen' /\ SendingInv' /\ MissedInv' /\ UploadsInv'
    BY <1>1, <1>3, UploadEnds
  <2>2. work'.kind = work.kind /\ work'.batch = work.batch
    BY <1>1 DEF WorkGoesOn
  <2>3. journal[p].hash = disk[p] \/ Later(p)
    BY <1>1 DEF Inv, WorkInv, SendingInv
  <2>4. KeyInv'
    <3> SUFFICES ASSUME NEW q \in Path, disk'[q] # base'[q], ~Held(q)' PROVE Flushing' /\ FlushHas(q)'
      BY DEF KeyInv
    <3>1. ~Held(q) /\ ~Later(q)
      BY <2>1, StayFacts
    <3>2. q # p /\ base'[q] = base[q]
      BY <1>1, <1>3, <2>3, <3>1
    <3>3. Flushing /\ FlushHas(q)
      BY <1>1, <2>1, <3>1, <3>2 DEF Inv, WorkInv, KeyInv
    <3> QED BY <1>1, <1>3, <2>2, <3>2, <3>3 DEF FlushHas, Flushing
  <2>5. JournalInv'
    BY <1>1, <2>1, JournalKept
  <2>6. SyncInv'
    <3> SUFFICES ASSUME NEW q \in Path, Covers(q)', disk'[q] # base'[q], ~Later(q)', ~work'.failing,
                        work'.kind \in {"sync", "startup", "reconcile"}
                 PROVE  SyncHas(q)'
      BY DEF SyncInv
    <3>1. ~Later(q)
      BY <2>1, StayFacts
    <3>2. q # p /\ base'[q] = base[q]
      BY <1>1, <1>3, <2>3, <3>1
    <3>3. Covers(q)
      BY <1>3, <2>2, <3>2 DEF Covers, PathsOf
    <3>4. SyncHas(q)
      BY <1>1, <1>3, <2>2, <3>1, <3>2, <3>3 DEF Inv, WorkInv, SyncInv
    <3> QED BY <1>1, <1>3, <3>2, <3>4 DEF SyncHas
  <2> QED BY <1>1, <2>1, <2>4, <2>5, <2>6, InvFrom DEF WorkInv
<1> QED BY <1>1, <1>2, <1>3

-----------------------------------------------------------------------------
(* The steps of the user, of the events and of the verification. *)

\* A step that leaves the work under way alone.
AroundStep ==
  /\ UNCHANGED <<base, journal, gate, owed, work, applied>> /\ pending'.inFlight = pending.inFlight
  /\ TypeInv' /\ EventsInOrder' /\ (gate # "off" => \A p \in Path : Kept(p))

LEMMA AroundKeeps ==
  ASSUME Inv, AroundStep, GateInv', CheckInv'
  PROVE  Inv'
<1>1. /\ UNCHANGED <<base, journal, gate, owed, work, applied>> /\ pending'.inFlight = pending.inFlight
      /\ TypeInv /\ TypeInv' /\ work \in Run
  BY DEF AroundStep, Inv, TypeInv
<1>2. InFlightIsTheFlush' /\ PhasesInv' /\ BatchInv' /\ JournalOpen'
  BY <1>1 DEF Inv, WorkInv, InFlightIsTheFlush, PhasesInv, BatchInv, JournalOpen, Flushing
<1>3. CASE gate = "off"
  <2>1. work.pc = "idle"
    BY <1>3 DEF Inv, GateInv, WorkInv, PhasesInv
  <2>2. KeyInv' /\ JournalInv' /\ SendingInv' /\ MissedInv' /\ UploadsInv' /\ SyncInv'
    <3>1. work'.kind = "none"
      BY <1>1, <2>1 DEF Inv, WorkInv, PhasesInv
    <3> QED BY <1>1, <1>3, <2>1, <3>1 DEF KeyInv, JournalInv, SendingInv, MissedInv, UploadsInv, SyncInv
  <2> QED BY <1>1, <1>2, <2>2 DEF Inv, WorkInv, AroundStep
<1>4. CASE gate # "off"
  <2>1. \A p \in Path : Stay(p)
    BY <1>1, <1>4, Stays DEF AroundStep
  <2>2. \A p \in Path : /\ ~Later(p)' => disk'[p] = disk[p] /\ ~Later(p)
                        /\ ~Safe(p)' => disk'[p] = disk[p] /\ ~Safe(p)
                        /\ ~Held(p)' => disk'[p] = disk[p] /\ ~Held(p)
    BY <2>1 DEF Stay
  <2>3. KeyInv'
    <3> SUFFICES ASSUME NEW q \in Path, disk'[q] # base'[q], ~Held(q)' PROVE Flushing' /\ FlushHas(q)'
      BY DEF KeyInv
    <3>1. disk'[q] = disk[q] /\ KeyFor(q)' = KeyFor(q) /\ ~Held(q)
      BY <2>2, SameKey
    <3> QED BY <1>1, <1>4, <3>1 DEF Inv, WorkInv, KeyInv, FlushHas, Flushing
  <2>4. JournalInv'
    <3> SUFFICES ASSUME NEW q \in Path, journal'[q] # None, journal'[q].hash # disk'[q], ~Safe(q)'
                 PROVE  work'.pc = "recover" /\ KeyFor(q)' \in pending'.inFlight /\ Unwritten(q)'
      BY DEF JournalInv
    <3>1. disk'[q] = disk[q] /\ KeyFor(q)' = KeyFor(q) /\ ~Safe(q)
      BY <2>2, SameKey
    <3>2. work.pc = "recover" /\ KeyFor(q) \in pending.inFlight /\ Unwritten(q)
      BY <1>1, <1>4, <3>1 DEF Inv, WorkInv, JournalInv
    <3>3. Unwritten(q)'
      <4> DEFINE k == KeyFor(q)
                 new == pending'.revision[k]
                 old == pending.revision[k]
      <4>1. new >= old
        <5>1. ~Coming(q)'
          BY DEF Safe
        <5> QED BY <1>4, <5>1 DEF AroundStep, Kept
      <4>2. new \in Nat /\ old \in Nat
        <5>1. \A l \in Key : pending'.revision[l] \in Nat
          BY <1>1 DEF TypeInv, QueueTyped, PendingSet, Revisions
        <5> QED BY <1>1, <5>1, QueueTypes, KeyForFacts
      <4>3. applied # None /\ q \in applied.paths => \A l \in Key : old > applied.revisions[l]
        BY <3>2 DEF Unwritten, After
      <4> HIDE DEF new, old, k
      <4>4. applied # None /\ q \in applied.paths => \A l \in Key : new > applied.revisions[l]
        BY <1>1, <4>1, <4>2, <4>3, Bounds
      <4> QED BY <1>1, <3>1, <4>4 DEF Unwritten, After, new, k
    <3> QED BY <1>1, <3>1, <3>2, <3>3
  <2>5. SendingInv'
    <3>1. work.sending \subseteq Path
      BY <1>1 DEF Run
    <3> QED BY <1>1, <2>2, <3>1 DEF Inv, WorkInv, SendingInv
  <2>6. MissedInv'
    <3>1. work.todo \subseteq Path
      BY <1>1 DEF Run
    <3> QED BY <1>1, <2>2, <3>1 DEF Inv, WorkInv, MissedInv
  <2>7. UploadsInv'
    <3>1. work.todo \subseteq Path /\ work.uploads \subseteq Path
      BY <1>1 DEF Run
    <3> QED BY <1>1, <2>2, <3>1 DEF Inv, WorkInv, UploadsInv
  <2>8. SyncInv'
    <3> SUFFICES ASSUME NEW q \in Path, Covers(q)', disk'[q] # base'[q], ~Later(q)', ~work'.failing,
                        work'.kind \in {"sync", "startup", "reconcile"}, work'.pc \notin {"recover", "applying"}
                 PROVE  SyncHas(q)'
      BY DEF SyncInv
    <3>1. ~Later(q) /\ Covers(q) /\ disk[q] # base[q]
      BY <1>1, <2>2 DEF Covers
    <3>2. SyncHas(q)
      BY <1>1, <3>1 DEF Inv, WorkInv, SyncInv
    <3> QED BY <1>1, <3>2 DEF SyncHas
  <2> QED BY <1>1, <1>2, <2>3, <2>4, <2>5, <2>6, <2>7, <2>8 DEF Inv, WorkInv, AroundStep
<1> QED BY <1>3, <1>4

\* An event that comes or is heard costs a verification nothing.
LEMMA CheckKept ==
  ASSUME Inv, TypeInv', UNCHANGED <<base, check, work>>, gate # "off" => \A p \in Path : Kept(p)
  PROVE  CheckInv'
<1> SUFFICES ASSUME check # None, check.active PROVE CheckInv'
  BY DEF CheckInv
<1>1. gate # "off" /\ TypeInv /\ ~Syncing' /\ check \in Verified
  BY CheckFacts DEF Inv, GateInv, CheckInv, Syncing
<1> SUFFICES ASSUME NEW m \in check.matches, NEW p, p = m[1][2]
             PROVE  \/ disk'[p] = base'[p] \/ Coming(p)' \/ KeyFor(p)' \in recorded'
                    \/ KeyFor(p)' \in pending'.queued /\ After(check.revisions, KeyFor(p))'
  BY <1>1 DEF CheckInv
<1>2. p \in Path
  <2>1. m \in Key \X Content
    BY <1>1 DEF Verified
  <2> QED BY <2>1, KeyFacts
<1>3. \/ disk[p] = base[p] \/ Coming(p) \/ KeyFor(p) \in recorded
      \/ KeyFor(p) \in pending.queued /\ After(check.revisions, KeyFor(p))
  BY DEF Inv, CheckInv
<1>4. CASE Coming(p)'
  BY <1>4
<1>5. CASE ~Coming(p)'
  <2> DEFINE k == KeyFor(p)
             new == pending'.revision[k]
             old == pending.revision[k]
  <2>1. /\ disk'[p] = disk[p] /\ k \in Key
        /\ Coming(p) \/ k \in recorded => k \in recorded' \/ (k \in pending'.queued /\ new > pending.next)
        /\ k \in pending.queued => k \in pending'.queued
        /\ new >= old
    BY <1>1, <1>2, <1>5, KeyForFacts DEF Kept
  <2>2. KeyFor(p)' = k
    BY <1>2, <2>1, SameKey
  <2>3. new \in Nat /\ old \in Nat /\ pending.next \in Nat
    <3>1. \A l \in Key : pending'.revision[l] \in Nat
      BY DEF TypeInv, QueueTyped, PendingSet, Revisions
    <3> QED BY <1>1, <2>1, <3>1, QueueTypes
  <2>4. After(check.revisions, k) => \A l \in Key : old > check.revisions[l]
    BY DEF After
  <2>5. After(check.revisions, KeyFor(p))' = \A l \in Key : new > check.revisions[l]
    BY <2>2 DEF After
  <2> HIDE DEF new, old, k
  <2>6. /\ new > pending.next => \A l \in Key : new > check.revisions[l]
        /\ (\A l \in Key : old > check.revisions[l]) => \A l \in Key : new > check.revisions[l]
    BY <1>1, <2>1, <2>3, Bounds
  <2>7. \/ disk[p] = base[p] \/ Coming(p) \/ k \in recorded
        \/ k \in pending.queued /\ After(check.revisions, k)
    BY <1>3 DEF k
  <2> QED BY <2>1, <2>2, <2>4, <2>5, <2>6, <2>7
<1> QED BY <1>4, <1>5

LEMMA UserKeeps ==
  ASSUME Inv, User
  PROVE  Inv'
<1>1. UserStep
  BY Shape, UserFacts DEF Inv
<1>2. AroundStep
  BY <1>1 DEF UserStep, AroundStep
<1>3. GateInv'
  BY <1>1 DEF Inv, GateInv, UserStep
<1>4. CheckInv'
  BY <1>1, CheckKept DEF UserStep
<1> QED BY <1>2, <1>3, <1>4, AroundKeeps

LEMMA HeardKeeps ==
  ASSUME Inv, Deliver \/ Record
  PROVE  Inv'
<1>1. HeardStep /\ gate # "off" /\ (gate = "open" => recorded' = recorded)
      /\ (gate # "open" => UNCHANGED <<pending, verifying>>)
  BY DeliverFacts, RecordFacts DEF Inv
<1>2. AroundStep
  BY <1>1 DEF HeardStep, AroundStep
<1>3. GateInv'
  BY <1>1 DEF Inv, GateInv, HeardStep
<1>4. CheckInv'
  BY <1>1, CheckKept DEF HeardStep
<1> QED BY <1>2, <1>3, <1>4, AroundKeeps

\* The files and the queue's keys stay, so nothing is lost.
LEMMA AsideAround ==
  ASSUME Inv, AsideStep
  PROVE  AroundStep
<1>1. UNCHANGED <<disk, base, journal, gate, recorded, owed, events, pending, work, applied>> /\ TypeInv' /\ TypeInv
  BY DEF AsideStep, Inv
<1>2. \A p \in Path : Kept(p)
  BY <1>1, QueueGrows
<1>3. EventsInOrder'
  BY <1>1 DEF Inv, EventsInOrder, KeyFor
<1> QED BY <1>1, <1>2, <1>3 DEF AroundStep

LEMMA ForeignKeeps ==
  ASSUME Inv, NEW p \in Path, Foreign(p)
  PROVE  Inv'
<1>1. AsideStep /\ UNCHANGED <<verifying, check, reports>>
  BY ForeignFacts DEF Inv
<1>2. AroundStep
  BY <1>1, AsideAround
<1>3. GateInv'
  BY <1>1 DEF Inv, GateInv, AsideStep
<1>4. CheckInv'
  BY <1>1, <1>2, CheckKept DEF AsideStep, AroundStep
<1> QED BY <1>2, <1>3, <1>4, AroundKeeps

LEMMA BeginVerifyKeeps ==
  ASSUME Inv, BeginVerify
  PROVE  Inv'
<1>1. AsideStep /\ UNCHANGED reports /\ verifying' = {} /\ verifying # {} /\ ~Syncing /\ check'.matches = {}
  BY BeginVerifyFacts DEF Inv
<1>2. GateInv' /\ CheckInv'
  BY <1>1 DEF Inv, GateInv, CheckInv, AsideStep, Syncing
<1> QED BY <1>1, <1>2, AsideAround, AroundKeeps

LEMMA VerifyKeeps ==
  ASSUME Inv, NEW k \in Key, Verify(k)
  PROVE  Inv'
<1>1. /\ AsideStep /\ UNCHANGED <<verifying, reports>> /\ check # None /\ check' \in Verified
      /\ check'.active = check.active /\ check'.revisions = check.revisions
      /\ \A m \in check'.matches : m \in check.matches \/ (m[1][2] = k[2] /\ disk[k[2]] = base[k[2]])
  BY VerifyFacts DEF Inv
<1>2. GateInv'
  BY <1>1 DEF Inv, GateInv, AsideStep
<1>3. CheckInv'
  <2> SUFFICES ASSUME check.active PROVE CheckInv'
    BY <1>1 DEF CheckInv
  <2>1. ~Syncing'
    BY <1>1 DEF Inv, CheckInv, AsideStep, Syncing
  <2>2. ASSUME NEW m \in check'.matches, NEW p, p = m[1][2]
        PROVE  \/ disk'[p] = base'[p] \/ Coming(p)' \/ KeyFor(p)' \in recorded'
               \/ KeyFor(p)' \in pending'.queued /\ After(check.revisions, KeyFor(p))'
    <3>1. UNCHANGED <<disk, base, events, recorded, pending>>
      BY <1>1 DEF AsideStep
    <3>2. CASE m \in check.matches
      <4>1. \/ disk[p] = base[p] \/ Coming(p) \/ KeyFor(p) \in recorded
            \/ KeyFor(p) \in pending.queued /\ After(check.revisions, KeyFor(p))
        BY <1>1, <2>2, <3>2 DEF Inv, CheckInv
      <4>2. KeyFor(p)' = KeyFor(p) /\ Coming(p)' = Coming(p)
        BY <3>1 DEF KeyFor, Coming, Sent
      <4>3. After(check.revisions, KeyFor(p)) => \A l \in Key : pending.revision[KeyFor(p)] > check.revisions[l]
        BY DEF After
      <4> QED BY <1>1, <3>1, <4>1, <4>2, <4>3 DEF After
    <3>3. CASE m[1][2] = k[2] /\ disk[k[2]] = base[k[2]]
      BY <2>2, <3>1, <3>3
    <3> QED BY <1>1, <3>2, <3>3
  <2> QED BY <1>1, <2>1, <2>2 DEF CheckInv
<1> QED BY <1>1, <1>2, <1>3, AsideAround, AroundKeeps

-----------------------------------------------------------------------------
(* How work starts. *)

LEMMA BegunKeeps ==
  ASSUME Inv, TypeInv', ~Syncing, NEW kind \in {"flush", "reconcile", "sync", "startup"}, NEW batch,
         Begun(kind, batch), UNCHANGED <<disk, events>>, kind \in {"sync", "startup"} => work'.todo = Path,
         GateInv', InFlightIsTheFlush', KeyInv', JournalInv'
  PROVE  Inv'
<1>1. /\ work'.kind = kind /\ work'.pc = "recover" /\ work'.uploads = {} /\ work'.expect = NoExpectation
      /\ work'.sending = {} /\ work'.settled = {} /\ (check' # None => ~check'.active)
  BY DEF Begun
<1>2. PhasesInv' /\ BatchInv'
  BY <1>1 DEF PhasesInv, BatchInv, NoExpectation
<1>3. JournalOpen' /\ SendingInv' /\ MissedInv' /\ UploadsInv' /\ SyncInv' /\ CheckInv'
  BY <1>1 DEF JournalOpen, SendingInv, MissedInv, UploadsInv, SyncInv, CheckInv
<1>4. EventsInOrder'
  BY DEF Inv, EventsInOrder, KeyFor
<1> QED BY <1>2, <1>3, <1>4 DEF Inv, WorkInv

\* While nothing runs, what the queue and the journal promise stays when they stay.
LEMMA IdleKeeps ==
  ASSUME Inv, ~Syncing, UNCHANGED <<disk, base, journal, gate, recorded, owed, events, pending, applied>>
  PROVE  KeyInv' /\ JournalInv'
<1>1. ~Flushing /\ work.pc = "idle"
  BY DEF Inv, WorkInv, PhasesInv, Syncing, Flushing
<1>2. \A q \in Path : (Held(q) => Held(q)') /\ (Safe(q) => Safe(q)')
  BY DEF Held, Safe, Unwritten, After, Coming, Sent, KeyFor
<1>3. KeyInv'
  BY <1>1, <1>2 DEF Inv, WorkInv, KeyInv
<1>4. JournalInv'
  BY <1>1, <1>2 DEF Inv, WorkInv, JournalInv
<1> QED BY <1>3, <1>4

LEMMA PeriodicSyncKeeps ==
  ASSUME Inv, PeriodicSync
  PROVE  Inv'
<1>1. /\ ~Syncing /\ gate = "open" /\ TypeInv'
      /\ UNCHANGED <<disk, base, journal, gate, recorded, owed, events, pending, verifying, reports, applied>>
      /\ Begun("sync", {}) /\ work'.todo = Path
  BY PeriodicSyncFacts DEF Inv
<1>2. KeyInv' /\ JournalInv'
  BY <1>1, IdleKeeps
<1>3. GateInv' /\ InFlightIsTheFlush'
  BY <1>1 DEF Inv, GateInv, InFlightIsTheFlush, Flushing, Syncing, Begun
<1> QED BY <1>1, <1>2, <1>3, BegunKeeps

LEMMA EndReportKeeps ==
  ASSUME Inv, NEW r \in reports, EndReport(r)
  PROVE  Inv'
<1>1. /\ TypeInv' /\ reports' \subseteq reports
      /\ UNCHANGED <<disk, base, journal, gate, recorded, owed, events, pending, verifying, applied>>
      /\ \/ UNCHANGED <<work, check>>
         \/ ~Syncing /\ \E batch \in SUBSET Key : Begun("reconcile", batch)
  BY EndReportFacts DEF Inv
<1>2. CASE UNCHANGED <<work, check>>
  <2>1. AsideStep
    BY <1>1, <1>2 DEF AsideStep
  <2>2. AroundStep
    BY <2>1, AsideAround
  <2>3. GateInv'
    BY <1>1, <1>2 DEF Inv, GateInv
  <2>4. CheckInv'
    BY <1>1, <1>2, <2>2, CheckKept DEF AroundStep
  <2> QED BY <2>2, <2>3, <2>4, AroundKeeps
<1>3. CASE ~Syncing /\ \E batch \in SUBSET Key : Begun("reconcile", batch)
  <2>1. PICK batch \in SUBSET Key : Begun("reconcile", batch)
    BY <1>3
  <2>2. gate = "open"
    BY DEF Inv, GateInv
  <2>3. KeyInv' /\ JournalInv'
    BY <1>1, <1>3, IdleKeeps
  <2>4. GateInv' /\ InFlightIsTheFlush'
    BY <1>1, <1>3, <2>1, <2>2 DEF Inv, GateInv, InFlightIsTheFlush, Flushing, Syncing, Begun
  <2> QED BY <1>1, <1>3, <2>1, <2>3, <2>4, BegunKeeps
<1> QED BY <1>1, <1>2, <1>3

LEMMA StartKeeps ==
  ASSUME Inv, Start
  PROVE  Inv'
<1>1. /\ gate = "off" /\ gate' = "recording" /\ TypeInv'
      /\ owed' = {p \in Path : disk[p] # base[p] \/ journal[p] # None}
      /\ UNCHANGED <<disk, base, journal, recorded, events, pending, verifying, reports, applied>>
      /\ Begun("startup", {}) /\ work'.todo = Path
  BY StartFacts DEF Inv
<1>2. ~Syncing
  BY <1>1 DEF Inv, GateInv, Syncing
<1>3. KeyInv' /\ JournalInv'
  BY <1>1 DEF KeyInv, JournalInv, Held, Safe
<1>4. GateInv' /\ InFlightIsTheFlush'
  BY <1>1, <1>2 DEF Inv, GateInv, InFlightIsTheFlush, Flushing, Syncing, Begun
<1> QED BY <1>1, <1>2, <1>3, <1>4, BegunKeeps

LEMMA BeginFlushKeeps ==
  ASSUME Inv, BeginFlush
  PROVE  Inv'
<1>1. /\ ~Syncing /\ UNCHANGED <<disk, base, journal, gate, recorded, owed, events, verifying, reports, applied>>
      /\ TypeInv'
      /\ \/ UNCHANGED <<pending, work, check>>
         \/ /\ Begun("flush", pending.queued) /\ pending.queued # {}
            /\ pending'.queued = {} /\ pending'.inFlight = pending.inFlight \cup pending.queued
            /\ pending'.revision = pending.revision /\ pending'.next = pending.next
  BY BeginFlushFacts DEF Inv
<1>2. CASE UNCHANGED <<pending, work, check>>
  <2>1. AsideStep
    BY <1>1, <1>2 DEF AsideStep
  <2>2. AroundStep
    BY <2>1, AsideAround
  <2>3. GateInv'
    BY <1>1, <1>2 DEF Inv, GateInv
  <2>4. CheckInv'
    BY <1>1, <1>2, <2>2, CheckKept DEF AroundStep
  <2> QED BY <2>2, <2>3, <2>4, AroundKeeps
<1>3. CASE /\ Begun("flush", pending.queued) /\ pending.queued # {}
           /\ pending'.queued = {} /\ pending'.inFlight = pending.inFlight \cup pending.queued
           /\ pending'.revision = pending.revision /\ pending'.next = pending.next
  <2>1. gate = "open" /\ pending.inFlight = {} /\ work.pc = "idle" /\ ~Flushing
    BY <1>1, <1>3 DEF Inv, GateInv, InFlightIsTheFlush, WorkInv, PhasesInv, Flushing, Syncing
  <2>2. work'.kind = "flush" /\ work'.pc = "recover" /\ work'.batch = pending.queued
    BY <1>3 DEF Begun
  <2>3. \A q \in Path : /\ KeyFor(q)' = KeyFor(q) /\ Coming(q)' = Coming(q) /\ Unwritten(q)' = Unwritten(q)
    BY <1>1, <1>3 DEF KeyFor, Coming, Sent, Unwritten, After
  <2>4. KeyInv'
    <3> SUFFICES ASSUME NEW q \in Path, disk'[q] # base'[q], ~Held(q)' PROVE Flushing' /\ FlushHas(q)'
      BY DEF KeyInv
    <3>1. Held(q)
      BY <1>1, <2>1 DEF Inv, WorkInv, KeyInv
    <3>2. KeyFor(q) \in pending.queued
      BY <1>1, <2>3, <3>1 DEF Held
    <3> QED BY <2>2, <2>3, <3>2 DEF FlushHas, Flushing
  <2>5. JournalInv'
    <3> SUFFICES ASSUME NEW q \in Path, journal'[q] # None, journal'[q].hash # disk'[q], ~Safe(q)'
                 PROVE  work'.pc = "recover" /\ KeyFor(q)' \in pending'.inFlight /\ Unwritten(q)'
      BY DEF JournalInv
    <3>1. Safe(q)
      BY <1>1, <2>1 DEF Inv, WorkInv, JournalInv
    <3>2. KeyFor(q) \in pending.queued /\ Unwritten(q)
      BY <1>1, <2>3, <3>1 DEF Safe
    <3> QED BY <1>3, <2>2, <2>3, <3>2
  <2>6. GateInv' /\ InFlightIsTheFlush'
    BY <1>1, <1>3, <2>1, <2>2 DEF Inv, GateInv, InFlightIsTheFlush, Flushing
  <2> QED BY <1>1, <1>3, <2>4, <2>5, <2>6, BegunKeeps
<1> QED BY <1>1, <1>2, <1>3

-----------------------------------------------------------------------------
(* How work ends. *)

\* Nothing runs any more, or what runs has only its result to settle.
LEMMA EndedKeeps ==
  ASSUME Inv, TypeInv', UNCHANGED <<disk, events>>,
         \/ work'.kind = "none" /\ work'.pc = "idle"
         \/ work'.kind = "reconcile" /\ work'.pc = "applying",
         check' # None => ~check'.active,
         GateInv', InFlightIsTheFlush', KeyInv', JournalInv'
  PROVE  Inv'
<1>1. PhasesInv' /\ BatchInv'
  BY DEF PhasesInv, BatchInv, Flushing
<1>2. JournalOpen' /\ SendingInv' /\ MissedInv' /\ UploadsInv' /\ SyncInv' /\ CheckInv'
  BY DEF JournalOpen, SendingInv, MissedInv, UploadsInv, SyncInv, CheckInv
<1>3. EventsInOrder'
  BY DEF Inv, EventsInOrder, KeyFor
<1> QED BY <1>1, <1>2, <1>3 DEF Inv, WorkInv

\* The keys that are not settled keep what they promise.
LEMMA SettleKeeps ==
  ASSUME NEW p \in Path, UNCHANGED <<disk, recorded, events>>, p \in owed => p \in owed'
  PROVE  /\ KeyFor(p)' = KeyFor(p) /\ Coming(p)' = Coming(p)
         /\ Held(p) /\ (KeyFor(p) \in pending.queued => KeyFor(p) \in pending'.queued) => Held(p)'
         /\ p \in owed \/ Coming(p) \/ KeyFor(p) \in recorded => Safe(p)' /\ Held(p)'
         /\ applied' = applied /\ pending'.revision[KeyFor(p)] = pending.revision[KeyFor(p)] /\ Unwritten(p) => Unwritten(p)'
<1>1. KeyFor(p)' = KeyFor(p) /\ Coming(p)' = Coming(p)
  BY DEF KeyFor, Coming, Sent
<1> QED BY <1>1 DEF Held, Safe, Unwritten, After

LEMMA EndFlushKeeps ==
  ASSUME Inv, EndFlush
  PROVE  Inv'
<1>1. /\ TypeInv' /\ Flushing /\ work.pc = "saving" /\ work' = Idle /\ Syncing
      /\ UNCHANGED <<disk, base, journal, gate, recorded, owed, events, check, applied>>
      /\ pending'.queued = pending.queued /\ pending'.inFlight = pending.inFlight \ work.batch
      /\ \A k \in Key : k \in pending.queued => pending'.revision[k] = pending.revision[k]
  BY EndFlushFacts, Shape DEF Inv
<1>2. /\ work'.kind = "none" /\ work'.pc = "idle" /\ gate = "open" /\ (check' # None => ~check'.active)
      /\ applied # None => applied.kind # "startup"
  BY <1>1, IdleFacts, Shape DEF Inv, GateInv, Flushing
<1>3. KeyInv'
  <2> SUFFICES ASSUME NEW q \in Path, disk'[q] # base'[q] PROVE Held(q)'
    BY DEF KeyInv
  <2>1. Held(q)
    BY <1>1, <1>2 DEF Inv, WorkInv, KeyInv, FlushHas
  <2> QED BY <1>1, <2>1, SettleKeeps
<1>4. JournalInv'
  <2> SUFFICES ASSUME NEW q \in Path, journal'[q] # None, journal'[q].hash # disk'[q] PROVE Safe(q)'
    BY DEF JournalInv
  <2>1. Safe(q)
    BY <1>1, <1>2 DEF Inv, WorkInv, JournalInv
  <2>2. CASE q \in owed \/ Coming(q) \/ KeyFor(q) \in recorded
    BY <1>1, <2>2, SettleKeeps
  <2>3. CASE KeyFor(q) \in pending.queued /\ Unwritten(q)
    <3>1. KeyFor(q)' \in pending'.queued /\ Unwritten(q)'
      BY <1>1, <2>3, SettleKeeps, KeyForFacts
    <3> QED BY <3>1 DEF Safe
  <2> QED BY <2>1, <2>2, <2>3 DEF Safe
<1>5. GateInv' /\ InFlightIsTheFlush'
  BY <1>1, <1>2 DEF Inv, GateInv, InFlightIsTheFlush, Flushing
<1> QED BY <1>1, <1>2, <1>3, <1>4, <1>5, EndedKeeps

LEMMA StopKeeps ==
  ASSUME Inv, Stop
  PROVE  Inv'
<1>1. /\ TypeInv' /\ gate' = "off" /\ recorded' = {} /\ events' = <<>> /\ verifying' = {} /\ check' = None
      /\ work' = Idle /\ reports' = {} /\ applied' = None /\ pending'.queued = {} /\ pending'.inFlight = {}
  BY StopFacts DEF Inv
<1>2. work'.kind = "none" /\ work'.pc = "idle"
  BY <1>1, IdleFacts
<1>3. GateInv' /\ InFlightIsTheFlush' /\ KeyInv' /\ JournalInv' /\ CheckInv' /\ EventsInOrder'
  BY <1>1, <1>2 DEF GateInv, InFlightIsTheFlush, KeyInv, JournalInv, CheckInv, EventsInOrder, Flushing
<1>4. PhasesInv' /\ BatchInv' /\ JournalOpen' /\ SendingInv' /\ MissedInv' /\ UploadsInv' /\ SyncInv'
  BY <1>2 DEF PhasesInv, BatchInv, JournalOpen, SendingInv, MissedInv, UploadsInv, SyncInv, Flushing
<1> QED BY <1>1, <1>3, <1>4 DEF Inv, WorkInv

LEMMA EndVerifyKeeps ==
  ASSUME Inv, EndVerify
  PROVE  Inv'
<1>1. /\ TypeInv /\ TypeInv'
      /\ UNCHANGED <<disk, base, journal, gate, recorded, owed, events, verifying, work, reports, applied>>
      /\ check # None /\ check' = None
      /\ pending'.inFlight = pending.inFlight /\ pending'.next = pending.next
      /\ pending'.queued \subseteq pending.queued
      /\ \A k \in Key :
           \/ /\ k \in pending.queued => k \in pending'.queued
              /\ pending'.revision[k] = pending.revision[k]
           \/ /\ check.active /\ ~Syncing /\ (\A p \in Path : journal[p] = None)
              /\ \E m \in check.matches : m[1] = k
              /\ pending.revision[k] = check.revisions[k]
  BY EndVerifyFacts DEF Inv
<1>2. gate = "open" /\ GateInv' /\ CheckInv' /\ InFlightIsTheFlush'
  BY <1>1 DEF Inv, GateInv, CheckInv, InFlightIsTheFlush, Flushing
<1>3. CASE Syncing
  <2>1. \A k \in Key : /\ k \in pending.queued => k \in pending'.queued
                       /\ pending'.revision[k] = pending.revision[k]
    BY <1>1, <1>3
  <2>2. pending.queued \subseteq pending'.queued /\ pending'.revision = pending.revision
    <3>1. pending.queued \subseteq Key /\ pending.revision \in [Key -> Nat] /\ pending'.revision \in [Key -> Nat]
      BY <1>1, QueueTypes DEF TypeInv, QueueTyped, PendingSet, Revisions
    <3> QED BY <2>1, <3>1
  <2>3. AroundStep
    <3>1. \A p \in Path : Kept(p)
      BY <1>1, <2>2, QueueGrows
    <3>2. EventsInOrder'
      BY <1>1 DEF Inv, EventsInOrder, KeyFor
    <3> QED BY <1>1, <3>1, <3>2 DEF AroundStep
  <2> QED BY <1>2, <2>3, AroundKeeps
<1>4. CASE ~Syncing
  <2>1. work'.kind = "none" /\ work'.pc = "idle" /\ ~Flushing
    BY <1>1, <1>4 DEF Inv, WorkInv, PhasesInv, Syncing, Flushing
  <2>2. KeyInv'
    <3> SUFFICES ASSUME NEW q \in Path, disk'[q] # base'[q], ~Held(q)' PROVE FALSE
      BY DEF KeyInv
    <3>1. Held(q) /\ KeyFor(q) \in Key /\ KeyFor(q)[2] = q
      BY <1>1, <1>2, <2>1, KeyForFacts DEF Inv, WorkInv, KeyInv
    <3>2. ~Coming(q) /\ KeyFor(q) \notin recorded
      BY <1>1, SettleKeeps
    <3>3. KeyFor(q) \in pending.queued /\ KeyFor(q) \notin pending'.queued
      BY <1>1, <3>1, SettleKeeps DEF Held
    <3>4. /\ check.active /\ pending.revision[KeyFor(q)] = check.revisions[KeyFor(q)]
          /\ \E m \in check.matches : m[1] = KeyFor(q)
      BY <1>1, <3>1, <3>3
    <3>5. After(check.revisions, KeyFor(q))
      BY <1>1, <3>1, <3>2, <3>4 DEF Inv, CheckInv
    <3>6. pending.revision[KeyFor(q)] > check.revisions[KeyFor(q)] /\ pending.revision[KeyFor(q)] \in Nat
      BY <1>1, <3>1, <3>5, QueueTypes DEF After
    <3> QED BY <3>4, <3>6
  <2>3. JournalInv'
    <3> SUFFICES ASSUME NEW q \in Path, journal'[q] # None, journal'[q].hash # disk'[q] PROVE Safe(q)'
      BY DEF JournalInv
    <3>1. Safe(q) /\ KeyFor(q) \in Key
      BY <1>1, <1>2, <2>1, KeyForFacts DEF Inv, WorkInv, JournalInv
    <3>2. /\ KeyFor(q) \in pending.queued => KeyFor(q) \in pending'.queued
          /\ pending'.revision[KeyFor(q)] = pending.revision[KeyFor(q)]
      BY <1>1, <3>1
    <3>3. CASE q \in owed \/ Coming(q) \/ KeyFor(q) \in recorded
      BY <1>1, <3>3, SettleKeeps
    <3>4. CASE KeyFor(q) \in pending.queued /\ Unwritten(q)
      <4>1. KeyFor(q)' \in pending'.queued /\ Unwritten(q)'
        BY <1>1, <3>2, <3>4, SettleKeeps
      <4> QED BY <4>1 DEF Safe
    <3> QED BY <3>1, <3>3, <3>4 DEF Safe
  <2> QED BY <1>1, <1>2, <2>1, <2>2, <2>3, EndedKeeps
<1> QED BY <1>3, <1>4

LEMMA EndSyncKeeps ==
  ASSUME Inv, EndSync
  PROVE  Inv'
<1>1. /\ TypeInv /\ TypeInv' /\ Syncing /\ ~Flushing /\ work.pc = "saving" /\ applied = None /\ gate # "off"
      /\ UNCHANGED <<disk, base, journal, gate, recorded, events, check, reports>>
      /\ work.failing => pending' = pending /\ applied'.paths = {}
      /\ SettledFrom(pending', pending, work.settled, work.revisions)
      /\ applied'.kind = work.kind
      /\ owed' = IF work.failing \/ work.kind = "reconcile" THEN owed ELSE {}
      /\ work.kind = "reconcile" => work' = [work EXCEPT !.pc = "applying"] /\ verifying' = verifying
      /\ work.kind # "reconcile" => work' = Idle /\ verifying' = verifying \cup pending'.queued
  BY EndSyncFacts, Shape DEF Inv
<1>2. /\ pending'.inFlight = pending.inFlight /\ pending'.queued \subseteq pending.queued
      /\ \A k \in Key : \/ k \in pending.queued => k \in pending'.queued
                        \/ k \in work.settled /\ pending.revision[k] = work.revisions[k]
  BY <1>1 DEF SettledFrom
<1>3. work.kind \in {"sync", "startup", "reconcile"} /\ work \in Run
  BY <1>1 DEF TypeInv, Run, Syncing, Flushing
<1>4. /\ work.kind = "reconcile" => work'.kind = "reconcile" /\ work'.pc = "applying"
      /\ work.kind # "reconcile" => work'.kind = "none" /\ work'.pc = "idle"
  BY <1>1, <1>3, IdleFacts DEF Run
<1>5. KeyInv'
  <2> SUFFICES ASSUME NEW q \in Path, disk'[q] # base'[q], ~Held(q)' PROVE FALSE
    BY DEF KeyInv
  <2>1. Held(q) /\ KeyFor(q) \in Key /\ KeyFor(q)[2] = q
    BY <1>1, KeyForFacts DEF Inv, WorkInv, KeyInv
  <2>2. KeyFor(q)' = KeyFor(q) /\ ~Coming(q) /\ KeyFor(q) \notin recorded
    <3>1. KeyFor(q)' = KeyFor(q) /\ Coming(q)' = Coming(q)
      BY <1>1 DEF KeyFor, Coming, Sent
    <3> QED BY <1>1, <3>1 DEF Held
  <2>3. ~work.failing
    BY <1>1, <2>1, <2>2 DEF Held
  <2>4. ~Later(q)
    <3>1. SUFFICES ASSUME Fresh(q) PROVE FALSE
      BY <2>2 DEF Later
    <3>2. KeyFor(q) \in pending.queued /\ pending.revision[KeyFor(q)] > work.revisions[KeyFor(q)]
      BY <2>1, <3>1 DEF Fresh, After
    <3>3. pending.revision[KeyFor(q)] \in Nat
      BY <1>1, <2>1, QueueTypes
    <3>4. KeyFor(q) \in pending'.queued
      BY <1>2, <2>1, <3>2, <3>3
    <3> QED BY <2>2, <3>4 DEF Held
  <2>5. ~Covers(q)
    BY <1>1, <1>3, <2>3, <2>4 DEF Inv, WorkInv, SyncInv, SyncHas
  <2>6. work.kind = "reconcile" /\ KeyFor(q) \notin work.settled
    BY <2>1, <2>5 DEF Covers, PathsOf
  <2> QED BY <1>1, <1>2, <2>1, <2>2, <2>6 DEF Held
<1>6. JournalInv'
  <2> SUFFICES ASSUME NEW q \in Path, journal'[q] # None, journal'[q].hash # disk'[q] PROVE Safe(q)'
    BY DEF JournalInv
  <2>1. work.failing
    BY <1>1, <1>3 DEF Inv, WorkInv, JournalOpen
  <2>2. Safe(q)
    BY <1>1 DEF Inv, WorkInv, JournalInv
  <2>3. KeyFor(q)' = KeyFor(q) /\ Coming(q)' = Coming(q)
    BY <1>1 DEF KeyFor, Coming, Sent
  <2>4. Unwritten(q)'
    BY <1>1, <2>1 DEF Unwritten
  <2> QED BY <1>1, <2>1, <2>2, <2>3, <2>4 DEF Safe
<1>7. GateInv'
  <2>1. gate # "open" => work.kind = "startup" /\ pending'.queued = {} /\ verifying = {} /\ reports = {} /\ check = None
    BY <1>1, <1>2, <1>3 DEF Inv, GateInv
  <2>2. gate # "open" => verifying' = {} /\ work'.kind = "none"
    BY <1>1, <1>4, <2>1
  <2>3. work.kind = "startup" => gate = "recording"
    BY DEF Inv, GateInv
  <2>4. gate = "open" => recorded = {}
    BY DEF Inv, GateInv
  <2> QED BY <1>1, <1>4, <2>1, <2>2, <2>3, <2>4 DEF GateInv
<1>8. InFlightIsTheFlush'
  BY <1>1, <1>2, <1>4 DEF Inv, InFlightIsTheFlush, Flushing
<1>9. check' # None => ~check'.active
  BY <1>1, Shape
<1> QED BY <1>1, <1>4, <1>5, <1>6, <1>7, <1>8, <1>9, EndedKeeps

\* The start-up sync ends: the gate opens and the recorded keys are queued.
LEMMA OpeningKeeps ==
  ASSUME Inv, EndApplied, applied # None, applied.kind = "startup"
  PROVE  Inv'
<1>1. /\ gate = "recording" /\ pending.queued = {} /\ check = None /\ work.kind = "none" /\ work.pc = "idle"
  BY DEF Inv, GateInv, WorkInv, PhasesInv
<1>2. /\ TypeInv' /\ applied' = None /\ UNCHANGED <<disk, base, journal, owed, events, check, reports>>
      /\ pending'.inFlight = pending.inFlight /\ work' = work
      /\ gate' = "open" /\ recorded' = {} /\ pending'.queued = recorded
  BY <1>1, EndAppliedFacts DEF Inv
<1>3. \A q \in Path : KeyFor(q)' = KeyFor(q) /\ Coming(q)' = Coming(q) /\ Unwritten(q)'
  BY <1>2 DEF KeyFor, Coming, Sent, Unwritten
<1>4. ~Flushing /\ gate # "off"
  BY <1>1 DEF Flushing
<1>5. KeyInv'
  <2>1. \A q \in Path : Held(q) => Held(q)'
    BY <1>1, <1>2, <1>3 DEF Held
  <2> QED BY <1>2, <1>4, <2>1 DEF Inv, WorkInv, KeyInv
<1>6. JournalInv'
  <2>1. \A q \in Path : Safe(q) => Safe(q)'
    BY <1>1, <1>2, <1>3 DEF Safe
  <2> QED BY <1>1, <1>2, <1>4, <2>1 DEF Inv, WorkInv, JournalInv
<1>7. GateInv' /\ InFlightIsTheFlush'
  BY <1>1, <1>2 DEF Inv, GateInv, InFlightIsTheFlush, Flushing
<1> QED BY <1>1, <1>2, <1>5, <1>6, <1>7, EndedKeeps

LEMMA EndAppliedKeeps ==
  ASSUME Inv, EndApplied
  PROVE  Inv'
<1>1. applied # None
  BY DEF EndApplied
<1>2. CASE applied.kind = "startup"
  BY <1>1, <1>2, OpeningKeeps
<1>3. CASE applied.kind # "startup"
  <2>1. /\ TypeInv /\ TypeInv' /\ applied' = None /\ UNCHANGED <<disk, base, journal, owed, events, check, reports>>
        /\ pending'.inFlight = pending.inFlight /\ UNCHANGED <<gate, recorded>>
        /\ work' = IF work.pc = "applying" THEN Idle ELSE work
        /\ SettledFrom(pending', pending, Written, applied.revisions) /\ work \in Run
    BY <1>3, EndAppliedFacts, Shape DEF Inv
  <2>2. gate = "open" /\ gate # "off"
    BY <1>1, <1>3 DEF Inv, GateInv
  <2>3. \A k \in Key : \/ /\ k \in pending.queued => k \in pending'.queued
                          /\ pending'.revision[k] = pending.revision[k]
                       \/ /\ k[2] \in applied.paths /\ disk[k[2]] = base[k[2]]
                          /\ pending.revision[k] = applied.revisions[k]
    BY <2>1 DEF SettledFrom, Written
  <2>4. GateInv'
    <3>1. gate' = "open" /\ applied' = None /\ recorded' = {} /\ work'.kind # "startup"
      BY <2>1, <2>2, IdleFacts DEF Inv, GateInv
    <3> QED BY <3>1 DEF GateInv
  <2>5. \A q \in Path : KeyFor(q)' = KeyFor(q) /\ Coming(q)' = Coming(q) /\ Unwritten(q)'
    BY <2>1 DEF KeyFor, Coming, Sent, Unwritten
  <2>6. \A q \in Path : disk[q] # base[q] /\ Held(q) => Held(q)'
    <3> SUFFICES ASSUME NEW q \in Path, disk[q] # base[q], Held(q) PROVE Held(q)'
      OBVIOUS
    <3>1. KeyFor(q) \in pending.queued => KeyFor(q) \in pending'.queued
      BY <2>3, KeyForFacts
    <3> QED BY <2>1, <2>5, <3>1 DEF Held
  <2>7. \A q \in Path : Unwritten(q) /\ KeyFor(q) \in pending.queued => Safe(q)'
    <3> SUFFICES ASSUME NEW q \in Path, Unwritten(q), KeyFor(q) \in pending.queued
                 PROVE  KeyFor(q) \in pending'.queued
      BY <2>5 DEF Safe
    <3>1. KeyFor(q) \in Key /\ KeyFor(q)[2] = q
      BY KeyForFacts
    <3>2. q \in applied.paths => pending.revision[KeyFor(q)] > applied.revisions[KeyFor(q)]
      BY <1>1, <3>1 DEF Unwritten, After
    <3>3. pending.revision[KeyFor(q)] \in Nat
      BY <2>1, <3>1, QueueTypes
    <3> QED BY <2>3, <3>1, <3>2, <3>3
  <2>8. JournalInv'
    <3> SUFFICES ASSUME NEW q \in Path, journal'[q] # None, journal'[q].hash # disk'[q], ~Safe(q)'
                 PROVE  work'.pc = "recover" /\ KeyFor(q)' \in pending'.inFlight /\ Unwritten(q)'
      BY DEF JournalInv
    <3>1. ~Safe(q)
      BY <2>1, <2>5, <2>7 DEF Safe
    <3>2. work.pc = "recover" /\ KeyFor(q) \in pending.inFlight
      BY <2>1, <2>2, <3>1 DEF Inv, WorkInv, JournalInv
    <3> QED BY <2>1, <2>5, <3>2
  <2>9. CASE work.pc = "applying"
    <3>1. work'.kind = "none" /\ work'.pc = "idle" /\ ~Flushing /\ (check' # None => ~check'.active)
      BY <2>1, <2>9, IdleFacts, Shape DEF Inv, WorkInv, PhasesInv, Flushing
    <3>2. KeyInv'
      BY <2>1, <2>2, <2>6, <3>1 DEF Inv, WorkInv, KeyInv
    <3>3. InFlightIsTheFlush'
      BY <2>1, <3>1 DEF Inv, InFlightIsTheFlush, Flushing
    <3> QED BY <2>1, <2>4, <2>8, <3>1, <3>2, <3>3, EndedKeeps
  <2>10. CASE work.pc # "applying"
    <3>1. work' = work
      BY <2>1, <2>10
    <3>2. KeyInv'
      <4>1. \A q \in Path : FlushHas(q)' = FlushHas(q) /\ Flushing' = Flushing
        BY <2>1, <2>5, <3>1 DEF FlushHas, Flushing
      <4> QED BY <2>1, <2>2, <2>6, <4>1 DEF Inv, WorkInv, KeyInv
    <3>3. \A q \in Path : Later(q) => Later(q)'
      <4> SUFFICES ASSUME NEW q \in Path, Fresh(q) PROVE Later(q)'
        BY <2>1, <2>5 DEF Later
      <4>1. KeyFor(q) \in Key /\ KeyFor(q) \in pending.queued
        BY KeyForFacts DEF Fresh
      <4>2. pending.revision[KeyFor(q)] > applied.revisions[KeyFor(q)]
        BY <1>1, <4>1 DEF Fresh, After
      <4>3. pending.revision[KeyFor(q)] \in Nat
        BY <2>1, <4>1, QueueTypes
      <4>4. KeyFor(q) \in pending'.queued /\ pending'.revision[KeyFor(q)] = pending.revision[KeyFor(q)]
        BY <2>3, <4>1, <4>2, <4>3
      <4>5. After(work.revisions, KeyFor(q))'
        BY <2>5, <3>1, <4>4 DEF Fresh, After
      <4>6. Fresh(q)'
        BY <2>1, <2>5, <4>4, <4>5 DEF Fresh
      <4> QED BY <4>6 DEF Later
    <3>4. InFlightIsTheFlush' /\ PhasesInv' /\ BatchInv' /\ JournalOpen' /\ EventsInOrder'
      <4>1. EventsInOrder'
        BY <2>1 DEF Inv, EventsInOrder, KeyFor
      <4>2. InFlightIsTheFlush' /\ PhasesInv' /\ BatchInv' /\ JournalOpen'
        BY <2>1, <3>1 DEF Inv, WorkInv, InFlightIsTheFlush, PhasesInv, BatchInv, JournalOpen, Flushing
      <4> QED BY <4>1, <4>2
    <3>5. work.sending \subseteq Path /\ work.todo \subseteq Path /\ work.uploads \subseteq Path
      BY <2>1 DEF Run
    <3>6. SendingInv'
      BY <2>1, <3>1, <3>3, <3>5 DEF Inv, WorkInv, SendingInv
    <3>7. MissedInv'
      BY <2>1, <3>1, <3>3, <3>5 DEF Inv, WorkInv, MissedInv
    <3>8. UploadsInv'
      BY <2>1, <3>1, <3>3, <3>5 DEF Inv, WorkInv, UploadsInv
    <3>9. SyncInv'
      <4>1. \A q \in Path : SyncHas(q)' = SyncHas(q) /\ Covers(q)' = Covers(q)
        BY <3>1 DEF SyncHas, Covers
      <4> QED BY <2>1, <3>1, <3>3, <4>1 DEF Inv, WorkInv, SyncInv
    <3>10. CheckInv'
      <4> SUFFICES ASSUME check # None, check.active PROVE CheckInv'
        BY <2>1 DEF CheckInv
      <4>1. ~Syncing' /\ check \in Verified
        BY <2>1, <3>1, CheckFacts DEF Inv, CheckInv, Syncing
      <4> SUFFICES ASSUME NEW m \in check.matches, NEW p, p = m[1][2]
                   PROVE  \/ disk'[p] = base'[p] \/ Coming(p)' \/ KeyFor(p)' \in recorded'
                          \/ KeyFor(p)' \in pending'.queued /\ After(check.revisions, KeyFor(p))'
        BY <2>1, <4>1 DEF CheckInv
      <4>2. p \in Path
        <5>1. m \in Key \X Content
          BY <4>1 DEF Verified
        <5> QED BY <5>1, KeyFacts
      <4>3. \/ disk[p] = base[p] \/ Coming(p) \/ KeyFor(p) \in recorded
            \/ KeyFor(p) \in pending.queued /\ After(check.revisions, KeyFor(p))
        BY DEF Inv, CheckInv
      <4>4. CASE disk[p] # base[p]
        <5>1. /\ KeyFor(p) \in pending.queued => KeyFor(p) \in pending'.queued
              /\ pending'.revision[KeyFor(p)] = pending.revision[KeyFor(p)]
          BY <2>3, <4>2, <4>4, KeyForFacts
        <5>2. After(check.revisions, KeyFor(p)) => After(check.revisions, KeyFor(p))'
          BY <2>1, <2>5, <4>2, <5>1 DEF After
        <5> QED BY <2>1, <2>5, <4>2, <4>3, <4>4, <5>1, <5>2
      <4> QED BY <2>1, <4>4
    <3> QED BY <2>1, <2>4, <2>8, <3>2, <3>4, <3>6, <3>7, <3>8, <3>9, <3>10 DEF Inv, WorkInv
  <2> QED BY <2>9, <2>10
<1> QED BY <1>2, <1>3

-----------------------------------------------------------------------------
(* The theorems. *)

LEMMA InitInv ==
  ASSUME Init
  PROVE  Inv
<1>1. /\ disk = [p \in Path |-> IF p = Stored THEN 1 ELSE 0] /\ base = disk /\ server = disk /\ made = 1
      /\ parent = [c \in Content |-> 0] /\ renames = [p \in Path |-> None] /\ journal = [p \in Path |-> None]
      /\ gate = "open" /\ recorded = {} /\ owed = {} /\ events = <<>> /\ verifying = {} /\ check = None
      /\ timer = FALSE /\ work = Idle /\ reports = {} /\ applied = None
      /\ used = [edits |-> 0, foreign |-> 0, losses |-> 0, stops |-> 0]
      /\ pending = [queued |-> {}, inFlight |-> {}, revision |-> NoRevisions, next |-> 0]
  BY DEF Init
<1>2. TypeInv
  <2>1. 1 \in Content /\ 0 \in Content
    BY BoundAssumption, ContentFacts DEF Content
  <2>2. FilesTyped /\ JournalTyped
    BY <1>1, <2>1 DEF FilesTyped, JournalTyped, Maybe
  <2>3. CountsTyped
    BY <1>1, BoundAssumption DEF CountsTyped
  <2>4. RenamesTyped
    BY <1>1, PathAssumption DEF RenamesTyped, Maybe
  <2>5. pending.queued = {} /\ pending.inFlight = {} /\ pending.next = 0 /\ pending.revision = NoRevisions
        /\ pending \in PendingSet /\ \A k \in Key : NoRevisions[k] = 0
    BY <1>1 DEF PendingSet, NoRevisions, Revisions
  <2>6. StartupTyped /\ QueueTyped
    BY <1>1, <2>5 DEF StartupTyped, QueueTyped
  <2>7. RevisionsBounded
    BY <1>1, <2>5, IdleFacts DEF RevisionsBounded, Bounded
  <2>8. events \in Seq(Event)
    BY <1>1
  <2>9. work \in Run /\ work.pc # "uploading" /\ check \in Maybe(Verified) /\ applied \in Maybe(Applied)
    BY <1>1, IdleFacts DEF Maybe
  <2> QED BY <1>1, <2>2, <2>3, <2>4, <2>6, <2>7, <2>8, <2>9 DEF TypeInv
<1>3. pending.queued = {} /\ pending.inFlight = {} /\ work.kind = "none" /\ work.pc = "idle"
  BY <1>1, IdleFacts
<1>4. \A p \in Path : disk[p] = base[p] /\ journal[p] = None
  BY <1>1
<1>5. GateInv /\ InFlightIsTheFlush /\ CheckInv /\ EventsInOrder
  BY <1>1, <1>3 DEF GateInv, InFlightIsTheFlush, CheckInv, EventsInOrder, Flushing
<1>6. KeyInv /\ JournalInv
  BY <1>4 DEF KeyInv, JournalInv
<1>7. PhasesInv /\ BatchInv /\ JournalOpen /\ SendingInv /\ MissedInv /\ UploadsInv /\ SyncInv
  BY <1>3 DEF PhasesInv, BatchInv, JournalOpen, SendingInv, MissedInv, UploadsInv, SyncInv, Flushing
<1> QED BY <1>2, <1>5, <1>6, <1>7 DEF Inv, WorkInv

LEMMA StutterKeeps ==
  ASSUME Inv, UNCHANGED vars
  PROVE  Inv'
<1>1. /\ UNCHANGED <<disk, made, parent, server, base, renames, journal, gate, recorded, owed, events>>
      /\ UNCHANGED <<pending, verifying, timer, check, work, reports, applied, used>>
  BY DEF vars, vault, manifest, startup, queue
<1>2. TypeInv'
  BY <1>1 DEF Inv, TypeInv, FilesTyped, CountsTyped, RenamesTyped, JournalTyped, StartupTyped, QueueTyped,
              RevisionsBounded, Bounded
<1>3. AsideStep
  BY <1>1, <1>2 DEF AsideStep
<1>4. AroundStep
  BY <1>3, AsideAround
<1>5. GateInv'
  BY <1>1 DEF Inv, GateInv
<1>6. CheckInv'
  BY <1>1, <1>2, <1>4, CheckKept DEF AroundStep
<1> QED BY <1>4, <1>5, <1>6, AroundKeeps

LEMMA NextKeeps ==
  ASSUME Inv, [Next]_vars
  PROVE  Inv'
<1>1. CASE User
  BY <1>1, UserKeeps
<1>2. CASE Faults
  <2>1. CASE RecoverFails \/ ScanFails
    BY <2>1, RecoverFailsKeeps, ScanFailsKeeps
  <2>2. CASE LoseDeletes \/ Stop
    BY <2>2, LoseDeletesKeeps, StopKeeps
  <2>3. ASSUME NEW p \in Path, LoseUpload(p)
        PROVE  Inv'
    BY <2>3, LoseUploadKeeps
  <2> QED BY <1>2, <2>1, <2>2, <2>3 DEF Faults
<1>3. CASE Verification
  <2>1. CASE BeginVerify \/ EndVerify
    BY <2>1, BeginVerifyKeeps, EndVerifyKeeps
  <2>2. ASSUME NEW k \in Key, Verify(k)
        PROVE  Inv'
    BY <2>2, VerifyKeeps
  <2> QED BY <1>3, <2>1, <2>2 DEF Verification
<1>4. CASE Work
  <2>1. CASE Plan \/ EndScan \/ CheckDeletes \/ SendDeletes
    BY <2>1, PlanKeeps, EndScanKeeps, CheckDeletesKeeps, SendDeletesKeeps
  <2>2. CASE EndClearing \/ EndUploads \/ EndDeletes
    BY <2>2, EndClearingKeeps, EndUploadsKeeps, EndDeletesKeeps
  <2>3. CASE EndFlush \/ EndSync
    BY <2>3, EndFlushKeeps, EndSyncKeeps
  <2>4. ASSUME NEW p \in Path, Recover(p) \/ Scan(p) \/ Missed(p)
        PROVE  Inv'
    BY <2>4, RecoverKeeps, ScanKeeps, MissedKeeps
  <2>5. ASSUME NEW p \in Path, Prepare(p) \/ SendUpload(p)
        PROVE  Inv'
    BY <2>5, PrepareKeeps, SendUploadKeeps
  <2> QED BY <1>4, <2>1, <2>2, <2>3, <2>4, <2>5 DEF Work
<1>5. ASSUME NEW p \in Path, Foreign(p)
      PROVE  Inv'
  BY <1>5, ForeignKeeps
<1>6. CASE Deliver \/ Record
  BY <1>6, HeardKeeps
<1>7. CASE BeginFlush \/ PeriodicSync \/ Start \/ EndApplied
  BY <1>7, BeginFlushKeeps, PeriodicSyncKeeps, StartKeeps, EndAppliedKeeps
<1>8. ASSUME NEW r \in reports, EndReport(r)
      PROVE  Inv'
  BY <1>8, EndReportKeeps
<1>9. CASE UNCHANGED vars
  BY <1>9, StutterKeeps
<1> QED BY <1>1, <1>2, <1>3, <1>4, <1>5, <1>6, <1>7, <1>8, <1>9 DEF Next

(* The invariant holds in every reachable state, for any paths, variants and bounds: of the
   queue's keys, the events on their way, the journal and the work under way together. *)
LEMMA InvariantHolds == Spec => []Inv
<1>1. Init => Inv
  BY InitInv
<1>2. Inv /\ [Next]_vars => Inv'
  BY NextKeeps
<1> QED BY <1>1, <1>2, PTL DEF Spec

-----------------------------------------------------------------------------
(* Revisions. *)

(* A key that no event waits for has no revision; one in flight that did not change since the
   flush began has the revision the flush remembers, so that its release takes it away. *)
RevisionsUsed == \A k \in Key : pending.revision[k] # 0 => k \in pending.queued \cup pending.inFlight

RevisionsInFlight ==
  \A k \in pending.inFlight \ pending.queued : pending.revision[k] \in {0, work.revisions[k]}

RevisionsInv == RevisionsUsed /\ RevisionsInFlight

LEMMA SettleRevisions ==
  ASSUME NEW s \in PendingSet, NEW keys \in SUBSET Key, NEW snapshot
  PROVE  LET t == Settle(s, keys, snapshot) IN
         /\ t.inFlight = s.inFlight
         /\ \A k \in Key : \/ t.revision[k] = 0
                           \/ t.revision[k] = s.revision[k] /\ (k \in s.queued => k \in t.queued)
<1> DEFINE t == Settle(s, keys, snapshot)
           gone == {k \in keys : s.revision[k] = snapshot[k]}
           r == [k \in Key |-> IF k \in gone THEN 0 ELSE s.revision[k]]
<1>1. CASE s.queued = {}
  BY <1>1 DEF Settle
<1>2. CASE s.queued # {}
  <2>1. t = [s EXCEPT !.queued = s.queued \ gone, !.revision = r]
    BY <1>2 DEF Settle
  <2>2. \A k \in Key : r[k] = IF k \in gone THEN 0 ELSE s.revision[k]
    OBVIOUS
  <2> HIDE DEF r, gone, t
  <2>3. t.inFlight = s.inFlight /\ t.queued = s.queued \ gone /\ t.revision = r
    BY <2>1 DEF PendingSet
  <2>4. \A k \in Key : \/ t.revision[k] = 0
                       \/ t.revision[k] = s.revision[k] /\ (k \in s.queued => k \in t.queued)
    BY <2>2, <2>3
  <2> QED BY <2>3, <2>4 DEF t
<1> QED BY <1>1, <1>2

\* A step by which no key leaves the queue with its revision.
LEMMA RevisionsThinned ==
  ASSUME RevisionsInv, pending'.inFlight = pending.inFlight,
         pending.inFlight \subseteq Key, work'.revisions = work.revisions \/ pending.inFlight = {},
         \A k \in Key : \/ pending'.revision[k] = 0
                        \/ /\ pending'.revision[k] = pending.revision[k]
                           /\ k \in pending.queued => k \in pending'.queued
  PROVE  RevisionsInv'
BY DEF RevisionsInv, RevisionsUsed, RevisionsInFlight

LEMMA AddRevisions ==
  ASSUME NEW s \in PendingSet, NEW k \in Key, NEW revisions,
         \A l \in Key : s.revision[l] # 0 => l \in s.queued \cup s.inFlight,
         \A l \in s.inFlight \ s.queued : s.revision[l] \in {0, revisions[l]}
  PROVE  LET t == Add(s, k) IN
         /\ \A l \in Key : t.revision[l] # 0 => l \in t.queued \cup t.inFlight
         /\ \A l \in t.inFlight \ t.queued : t.revision[l] \in {0, revisions[l]}
<1> DEFINE t == Add(s, k)
<1>1. /\ t.queued = (s.queued \ {Opposite(k)}) \cup {k} /\ t.inFlight = s.inFlight
      /\ t.revision[Opposite(k)] = 0
      /\ \A l \in Key : l # k /\ l # Opposite(k) => t.revision[l] = s.revision[l]
  BY AddFacts
<1>2. s.inFlight \subseteq Key /\ Opposite(k) \in Key /\ Opposite(k) # k
  BY KeyFacts DEF PendingSet
<1> HIDE DEF t
<1>3. \A l \in Key : t.revision[l] # 0 => l \in t.queued \cup t.inFlight
  BY <1>1, <1>2
<1>4. \A l \in t.inFlight \ t.queued : t.revision[l] \in {0, revisions[l]}
  BY <1>1, <1>2
<1> QED BY <1>3, <1>4 DEF t

\* Of the steps of the work under way.
LEMMA WorkStepGoesOn ==
  ASSUME Inv,
         \/ Plan \/ EndScan \/ CheckDeletes \/ SendDeletes \/ EndClearing \/ EndUploads \/ EndDeletes
         \/ RecoverFails \/ ScanFails \/ LoseDeletes
         \/ \E p \in Path : Recover(p) \/ Scan(p) \/ Missed(p) \/ Prepare(p) \/ SendUpload(p) \/ LoseUpload(p)
  PROVE  WorkGoesOn
<1>0. TypeInv
  BY DEF Inv
<1>1. CASE Plan \/ EndScan \/ CheckDeletes \/ SendDeletes \/ EndClearing \/ EndUploads \/ EndDeletes
  BY <1>0, <1>1, PlanFacts, EndScanFacts, CheckDeletesFacts, SendDeletesFacts, EndClearingFacts,
     EndUploadsFacts, EndDeletesFacts
<1>2. CASE RecoverFails \/ ScanFails \/ LoseDeletes
  BY <1>0, <1>2, RecoverFailsFacts, ScanFailsFacts, LoseDeletesFacts
<1>3. ASSUME NEW p \in Path, Recover(p) \/ Missed(p) \/ Prepare(p) \/ SendUpload(p) \/ LoseUpload(p)
      PROVE  WorkGoesOn
  BY <1>0, <1>3, RecoverFacts, MissedFacts, PrepareFacts, SendUploadFacts, LoseUploadFacts
<1>4. ASSUME NEW p \in Path, Scan(p)
      PROVE  WorkGoesOn
  <2>1. work.pc = "scan"
    BY <1>4 DEF Scan
  <2>2. gate # "off"
    BY <2>1, Shape DEF Inv, WorkInv, PhasesInv
  <2> QED BY <1>0, <1>4, <2>2, ScanFacts
<1> QED BY <1>1, <1>2, <1>3, <1>4

LEMMA RevisionsNext ==
  ASSUME Inv, RevisionsInv, [Next]_vars
  PROVE  RevisionsInv'
<1>0. /\ TypeInv /\ Inv' /\ pending \in PendingSet /\ pending' \in PendingSet
      /\ pending.queued \subseteq Key /\ pending.inFlight \subseteq Key /\ pending'.inFlight \subseteq Key
  <2>1. Inv'
    BY NextKeeps
  <2>2. pending \in PendingSet /\ pending' \in PendingSet
    BY <2>1 DEF Inv, TypeInv, QueueTyped
  <2> QED BY <2>1, <2>2 DEF Inv, PendingSet
<1>1. CASE \/ User \/ Record \/ BeginVerify \/ (\E k \in Key : Verify(k)) \/ (\E p \in Path : Foreign(p))
           \/ UNCHANGED vars
  <2>1. pending' = pending /\ work' = work
    BY <1>1 DEF User, Write, Remove, Rename, Record, BeginVerify, Verify, Foreign, vars, queue
  <2> QED BY <1>0, <2>1, RevisionsThinned
<1>2. CASE \/ Plan \/ EndScan \/ CheckDeletes \/ SendDeletes \/ EndClearing \/ EndUploads \/ EndDeletes
           \/ RecoverFails \/ ScanFails \/ LoseDeletes
           \/ \E p \in Path : Recover(p) \/ Scan(p) \/ Missed(p) \/ Prepare(p) \/ SendUpload(p) \/ LoseUpload(p)
  BY <1>0, <1>2, WorkStepGoesOn, RevisionsThinned DEF WorkGoesOn
<1>3. CASE Deliver
  <2> DEFINE e == Head(events)
  <2>1. e \in Event /\ work' = work
    BY <1>0, <1>3 DEF Deliver, TypeInv
  <2>2. CASE e[1] = "rename"
    <3> DEFINE s == Add(pending, Delete(e[2]))
    <3>1. /\ Delete(e[2]) \in Key /\ Upload(e[3]) \in Key
          /\ pending' = Add(s, Upload(e[3]))
      BY <1>3, <2>1, <2>2, EventFacts, KeyFacts DEF Deliver
    <3>2. /\ s \in PendingSet
          /\ \A l \in Key : s.revision[l] # 0 => l \in s.queued \cup s.inFlight
          /\ \A l \in s.inFlight \ s.queued : s.revision[l] \in {0, work.revisions[l]}
      BY <1>0, <3>1, AddFacts, AddRevisions DEF RevisionsInv, RevisionsUsed, RevisionsInFlight
    <3> HIDE DEF s
    <3>3. /\ \A l \in Key : pending'.revision[l] # 0 => l \in pending'.queued \cup pending'.inFlight
          /\ \A l \in pending'.inFlight \ pending'.queued : pending'.revision[l] \in {0, work.revisions[l]}
      BY <3>1, <3>2, AddRevisions
    <3> QED BY <2>1, <3>3 DEF RevisionsInv, RevisionsUsed, RevisionsInFlight
  <2>3. CASE e[1] # "rename"
    <3>1. e \in Key /\ pending' = Add(pending, e)
      BY <1>3, <2>1, <2>3, EventFacts DEF Deliver, Enqueue
    <3> HIDE DEF e
    <3>2. /\ \A l \in Key : pending'.revision[l] # 0 => l \in pending'.queued \cup pending'.inFlight
          /\ \A l \in pending'.inFlight \ pending'.queued : pending'.revision[l] \in {0, work.revisions[l]}
      BY <1>0, <3>1, AddRevisions DEF RevisionsInv, RevisionsUsed, RevisionsInFlight
    <3> QED BY <2>1, <3>2 DEF RevisionsInv, RevisionsUsed, RevisionsInFlight
  <2> QED BY <2>2, <2>3
<1>4. CASE EndVerify
  <2> DEFINE settled == {m[1] : m \in {n \in check.matches : Current(n[1]) /\ base[n[1][2]] = n[2]}}
  <2>1. pending' = Settle(pending, settled, check.revisions) /\ work' = work /\ check # None
    BY <1>4 DEF EndVerify
  <2>2. settled \in SUBSET Key
    <3>1. check \in Verified
      BY <1>0, <2>1, CheckFacts
    <3> QED BY <3>1 DEF Verified
  <2> HIDE DEF settled
  <2> QED BY <1>0, <2>1, <2>2, SettleRevisions, RevisionsThinned
<1>5. CASE BeginFlush
  <2>1. /\ ~Syncing
        /\ \/ UNCHANGED <<pending, work, check>>
           \/ /\ Begun("flush", pending.queued)
              /\ pending'.queued = {} /\ pending'.inFlight = pending.inFlight \cup pending.queued
              /\ pending'.revision = pending.revision
    BY <1>0, <1>5, BeginFlushFacts
  <2>2. pending.inFlight = {}
    BY <2>1 DEF Inv, InFlightIsTheFlush, Syncing, Flushing
  <2>3. CASE UNCHANGED <<pending, work, check>>
    BY <1>0, <2>3, RevisionsThinned
  <2>4. CASE /\ Begun("flush", pending.queued)
             /\ pending'.queued = {} /\ pending'.inFlight = pending.inFlight \cup pending.queued
             /\ pending'.revision = pending.revision
    BY <2>2, <2>4 DEF RevisionsInv, RevisionsUsed, RevisionsInFlight, Begun
  <2> QED BY <2>1, <2>3, <2>4
<1>6. CASE PeriodicSync \/ Start
  <2>1. pending' = pending /\ (Begun("sync", {}) \/ Begun("startup", {}))
    BY <1>0, <1>6, PeriodicSyncFacts, StartFacts
  <2>2. pending'.inFlight = {}
    BY <1>0, <2>1 DEF Inv, InFlightIsTheFlush, Flushing, Begun
  <2> QED BY <1>0, <2>1, <2>2, RevisionsThinned
<1>7. ASSUME NEW r \in reports, EndReport(r)
      PROVE  RevisionsInv'
  <2>1. pending' = pending /\ (work' = work \/ \E batch \in SUBSET Key : Begun("reconcile", batch))
    BY <1>0, <1>7, EndReportFacts
  <2>2. work' = work \/ pending'.inFlight = {}
    BY <1>0, <2>1 DEF Inv, InFlightIsTheFlush, Flushing, Begun
  <2> QED BY <1>0, <2>1, <2>2, RevisionsThinned
<1>8. CASE Stop
  <2>1. pending' = [queued |-> {}, inFlight |-> {}, revision |-> NoRevisions, next |-> 0]
    BY <1>8 DEF Stop
  <2>2. pending'.inFlight = {} /\ \A k \in Key : pending'.revision[k] = 0
    BY <2>1 DEF NoRevisions
  <2> QED BY <2>2 DEF RevisionsInv, RevisionsUsed, RevisionsInFlight
<1>9. CASE EndFlush
  <2> DEFINE r == [k \in Key |-> IF k \in work.batch \ pending.queued /\ pending.revision[k] = work.revisions[k]
                                 THEN 0 ELSE pending.revision[k]]
  <2>1. pending' = [pending EXCEPT !.inFlight = @ \ work.batch, !.revision = r] /\ Flushing
    BY <1>9 DEF EndFlush, Release
  <2>2. \A k \in Key : r[k] = IF k \in work.batch \ pending.queued /\ pending.revision[k] = work.revisions[k]
                              THEN 0 ELSE pending.revision[k]
    OBVIOUS
  <2> HIDE DEF r
  <2>3. pending'.queued = pending.queued /\ pending'.inFlight = pending.inFlight \ work.batch /\ pending'.revision = r
    BY <1>0, <2>1 DEF PendingSet
  <2>4. pending.inFlight = work.batch
    BY <2>1 DEF Inv, InFlightIsTheFlush
  <2>5. \A k \in Key : r[k] # 0 => k \in pending.queued
    BY <2>2, <2>4 DEF RevisionsInv, RevisionsUsed, RevisionsInFlight
  <2> QED BY <2>3, <2>4, <2>5 DEF RevisionsInv, RevisionsUsed, RevisionsInFlight
<1>10. CASE EndSync
  <2>1. /\ ~Flushing
        /\ pending' = IF work.failing THEN pending ELSE Settle(pending, work.settled, work.revisions)
    BY <1>10 DEF EndSync
  <2>2. pending.inFlight = {} /\ work.settled \in SUBSET Key
    BY <1>0, <2>1 DEF Inv, InFlightIsTheFlush, TypeInv, Run
  <2>3. CASE work.failing
    BY <1>0, <2>1, <2>2, <2>3, RevisionsThinned
  <2>4. CASE ~work.failing
    BY <1>0, <2>1, <2>2, <2>4, SettleRevisions, RevisionsThinned
  <2> QED BY <2>3, <2>4
<1>11. CASE EndApplied
  <2> DEFINE keys == {k \in pending.queued \cup pending.inFlight : k[2] \in applied.paths /\ disk[k[2]] = base[k[2]]}
             settled == Settle(pending, keys, applied.revisions)
  <2>1. /\ pending' = IF applied.kind = "startup" THEN Restore(settled, recorded) ELSE settled
        /\ work' = IF work.pc = "applying" THEN Idle ELSE work
        /\ applied.kind = "startup" => pending.queued = {}
    BY <1>11 DEF EndApplied, Inv, GateInv
  <2>2. keys \in SUBSET Key
    BY <1>0
  <2> HIDE DEF keys
  <2>3. work'.revisions = work.revisions \/ pending'.inFlight = {}
    <3>1. CASE work.pc = "applying"
      <4>1. ~Flushing'
        BY <2>1, <3>1, IdleFacts DEF Flushing
      <4> QED BY <1>0, <4>1 DEF Inv, InFlightIsTheFlush
    <3> QED BY <2>1, <3>1
  <2>4. CASE applied.kind = "startup"
    <3>1. settled = pending /\ recorded \in SUBSET Key
      BY <1>0, <2>1, <2>4 DEF Settle, TypeInv, StartupTyped
    <3>2. /\ pending'.queued = recorded /\ pending'.inFlight = pending.inFlight
          /\ \A k \in Key : pending'.revision[k] = IF k \in recorded THEN pending.next + 1 ELSE pending.revision[k]
      BY <1>0, <2>1, <2>4, <3>1, RestoreFacts
    <3> QED BY <1>0, <2>1, <2>3, <2>4, <3>2 DEF RevisionsInv, RevisionsUsed, RevisionsInFlight
  <2>5. CASE applied.kind # "startup"
    <3>1. /\ pending'.inFlight = pending.inFlight
          /\ \A k \in Key : \/ pending'.revision[k] = 0
                            \/ /\ pending'.revision[k] = pending.revision[k]
                               /\ k \in pending.queued => k \in pending'.queued
      BY <1>0, <2>1, <2>2, <2>5, SettleRevisions
    <3> QED BY <1>0, <2>3, <3>1, RevisionsThinned
  <2> QED BY <2>4, <2>5
<1> QED BY <1>1, <1>2, <1>3, <1>4, <1>5, <1>6, <1>7, <1>8, <1>9, <1>10, <1>11
    DEF Next, Faults, Verification, Work

LEMMA RevisionsHold == Spec => []RevisionsInv
<1>1. Init => RevisionsInv
  <2> SUFFICES ASSUME Init PROVE RevisionsInv
    OBVIOUS
  <2>1. pending = [queued |-> {}, inFlight |-> {}, revision |-> NoRevisions, next |-> 0]
    BY DEF Init
  <2>2. pending.inFlight = {} /\ \A k \in Key : pending.revision[k] = 0
    BY <2>1 DEF NoRevisions
  <2> QED BY <2>2 DEF RevisionsInv, RevisionsUsed, RevisionsInFlight
<1>2. Inv /\ RevisionsInv /\ [Next]_vars => RevisionsInv'
  BY RevisionsNext
<1> QED BY <1>1, <1>2, InvariantHolds, PTL DEF Spec

(* The queue and the work under way always have the shape the code gives them, and nothing is
   queued or reported before the gate opens; a key has a revision only while an event for it is
   unsettled, so that no settlement or release leaves one behind for the next event of its path
   (sync/queue/pending-set.ts, sync/queue/controller.ts). *)
THEOREM TypeCorrect == Spec => []TypeOK
<1>1. Inv /\ RevisionsInv => TypeOK
  <2> SUFFICES ASSUME Inv, RevisionsInv PROVE TypeOK
    OBVIOUS
  <2>1. TypeInv /\ GateInv
    BY DEF Inv
  <2>2. {disk, server, base} \subseteq [Path -> Content]
    BY <2>1 DEF TypeInv, FilesTyped
  <2>3. made \in Content
    <3>1. /\ used.edits \in Nat /\ used.foreign \in Nat /\ made \in 1..(1 + used.edits + used.foreign)
          /\ used.edits <= MaxEdits /\ used.foreign <= MaxForeign
      BY <2>1 DEF TypeInv, CountsTyped
    <3> QED BY <3>1, ContentFacts DEF Content
  <2>4. renames \in [Path -> Maybe(Path)] /\ \A p \in Path : renames[p] # p
    BY <2>1 DEF TypeInv, RenamesTyped
  <2>5. /\ gate \in {"off", "recording", "open"} /\ owed \subseteq Path /\ recorded \subseteq Key
        /\ verifying \subseteq Key /\ timer \in BOOLEAN
    BY <2>1 DEF TypeInv, StartupTyped, QueueTyped
  <2>6. work.batch \subseteq Key /\ work.settled \subseteq Key /\ work.conflicts \subseteq Key
    BY <2>1 DEF TypeInv, Run
  <2>7. /\ pending.queued \subseteq Key /\ pending.inFlight \subseteq Key
        /\ \A k \in Key : /\ pending.revision[k] \in 0..pending.next
                           /\ pending.revision[k] # 0 => k \in pending.queued \cup pending.inFlight
    BY <2>1, QueueTypes DEF RevisionsInv, RevisionsUsed
  <2>8. gate # "open" => reports = {} /\ pending.queued = {}
    BY <2>1 DEF GateInv
  <2> QED BY <2>2, <2>3, <2>4, <2>5, <2>6, <2>7, <2>8 DEF TypeOK
<1> QED BY <1>1, InvariantHolds, RevisionsHold, PTL

(* The keys in flight are always those of the flush under way: none outlives its flush, and a
   flush whose result is still being recorded holds none (sync/queue/controller.ts). *)
THEOREM InFlightStaysTheFlush == Spec => []InFlightIsTheFlush
<1>1. Inv => InFlightIsTheFlush
  BY DEF Inv
<1> QED BY <1>1, InvariantHolds, PTL

(* A file that differs from its baseline always has a key in the queue or in flight, or an event
   on its way or recorded, or it changed while nothing ran and no sync has succeeded since: no
   settlement, failure, requeue or restart forgets a change (sync/queue, sync/pending,
   sync/runtime/runtime.ts). *)
THEOREM NothingForgotten == Spec => []NoChangeForgotten
<1>1. Inv => NoChangeForgotten
  <2> SUFFICES ASSUME Inv, gate # "off", NEW p \in Path, disk[p] # base[p]
               PROVE  \/ p \in owed
                      \/ p \in PathsOf(pending.queued \cup pending.inFlight \cup recorded)
                      \/ \E i \in DOMAIN events : p \in {events[i][2], events[i][Len(events[i])]}
    BY DEF NoChangeForgotten
  <2>1. KeyFor(p) \in Key /\ KeyFor(p)[2] = p
    BY KeyForFacts
  <2>2. \A k : k \in pending.queued \cup pending.inFlight \cup recorded /\ k[2] = p
                 => p \in PathsOf(pending.queued \cup pending.inFlight \cup recorded)
    BY DEF PathsOf
  <2>3. CASE Coming(p)
    <3>1. PICK i \in 1..Len(events) : KeyFor(p) \in KeysIn(events[i])
      BY <2>3 DEF Coming, Sent
    <3>2. events \in Seq(Event)
      BY DEF Inv, TypeInv
    <3>3. i \in DOMAIN events /\ events[i] \in Event
      BY <3>1, <3>2
    <3>4. p \in {events[i][2], events[i][Len(events[i])]}
      <4>1. PICK e \in Event : e = events[i]
        BY <3>3
      <4>2. KeyFor(p) \in KeysIn(e)
        BY <3>1, <4>1
      <4> SUFFICES p = e[2] \/ p = e[Len(e)]
        BY <4>1
      <4>3. CASE e[1] # "rename"
        <5>1. KeyFor(p) = e
          BY <4>2, <4>3 DEF KeysIn
        <5> QED BY <2>1, <5>1
      <4>4. CASE e[1] = "rename"
        <5>1. e[2] = p \/ e[3] = p
          <6>1. e[2] \in Path /\ e[3] \in Path /\ KeyFor(p) \in {Delete(e[2]), Upload(e[3])}
            BY <4>2, <4>4, EventFacts DEF KeysIn
          <6> QED BY <2>1, <6>1, KeyFacts
        <5>2. Len(e) = 3
          <6>1. e \notin Key
            BY <4>4, EventFacts
          <6>2. \E q, r \in Path : e = <<"rename", q, r>>
            BY <6>1 DEF Event
          <6> QED BY <6>2
        <5> QED BY <5>1, <5>2
      <4> QED BY <4>3, <4>4
    <3> QED BY <3>3, <3>4
  <2>4. CASE Flushing /\ FlushHas(p)
    <3>1. pending.inFlight = work.batch /\ work.pc # "scan"
      BY <2>4 DEF Inv, InFlightIsTheFlush, WorkInv, PhasesInv
    <3>2. KeyFor(p) \in work.batch \/ Upload(p) \in work.batch \/ Delete(p) \in work.batch
      <4>1. CASE work.pc = "deleting"
        <5>1. work.expect[p] # 0
          BY <2>4, <4>1 DEF FlushHas, Inv, WorkInv, PhasesInv
        <5> QED BY <2>4, <5>1 DEF Inv, WorkInv, BatchInv
      <4>2. CASE work.pc # "deleting"
        BY <2>4, <4>2 DEF FlushHas, Inv, WorkInv, BatchInv
      <4> QED BY <4>1, <4>2
    <3>3. Upload(p)[2] = p /\ Delete(p)[2] = p
      BY KeyFacts
    <3> QED BY <2>1, <2>2, <3>1, <3>2, <3>3
  <2>5. CASE p \in owed \/ KeyFor(p) \in recorded \cup pending.queued
    BY <2>1, <2>2, <2>5
  <2> QED BY <2>3, <2>4, <2>5 DEF Inv, WorkInv, KeyInv, Held
<1> QED BY <1>1, InvariantHolds, PTL

-----------------------------------------------------------------------------
(* What the server holds while no other device changes it.                   *)

Landed(p) == journal[p] # None /\ journal[p].landed

(* The server has the baseline of a path or nothing, but for an upload whose answer was lost. *)
Known(p) == IF Landed(p) THEN server[p] = journal[p].hash ELSE server[p] \in {0, base[p]}

ServerKnown == used.foreign = 0 => \A p \in Path : Known(p)

(* Nothing else is journalled while deletes are out, nor an upload before it is sent. *)
JournalApart ==
  /\ work.pc \in {"clearing", "deleting"} /\ work.sending # {} => \A p \in Path : journal[p] = None
  /\ Flushing /\ work.pc = "clearing" => \A p \in Path : journal[p] = None
  /\ work.pc = "uploading" =>
       /\ \A p \in work.todo : p \notin work.sending /\ journal[p] = None
       /\ \A p \in work.sending : ~journal[p].landed

\* What a sync has to do with a path: to decide it, to upload or to delete it, to plan it again, or
\* to leave it to the next recovery.
Undecided(p) == work.pc = "scan" /\ p \in work.todo

Uploaded(p) ==
  \/ work.pc \in {"scan", "clearing"} /\ p \in work.uploads
  \/ work.pc = "uploading" /\ p \in work.todo \cup work.sending

Deleted(p) == work.expect[p] # 0

Raced(p) == p \in PathsOf(work.conflicts)

LeftOver(p) == journal[p] # None /\ ~(work.pc = "uploading" /\ p \in work.sending)

Apart(p) ==
  /\ Undecided(p) => ~Uploaded(p) /\ ~Deleted(p) /\ ~LeftOver(p)
  /\ Uploaded(p) => ~Deleted(p) /\ ~Raced(p) /\ ~LeftOver(p)
  /\ Deleted(p) => ~Raced(p) /\ ~LeftOver(p)
  /\ Raced(p) => ~LeftOver(p)

(* A sync has one thing to do with a path. *)
SyncApart ==
  /\ work.pc \in {"recover", "scan"} => work.conflicts = {}
  /\ Syncing /\ ~Flushing /\ work.pc \in {"scan", "clearing", "uploading", "deleting"} => \A p \in Path : Apart(p)

ServerInv == ServerKnown /\ JournalApart /\ SyncApart

LEMMA SpendKeeps ==
  ASSUME TypeInv, NEW what \in {"edits", "foreign", "losses", "stops"}, Spend(what)
  PROVE  /\ used'.edits = IF what = "edits" THEN used.edits + 1 ELSE used.edits
         /\ used'.foreign = IF what = "foreign" THEN used.foreign + 1 ELSE used.foreign
BY DEF TypeInv, CountsTyped, Spend

LEMMA LandedKept ==
  \A p \in Path : journal'[p] = journal[p] => (Landed(p)' <=> Landed(p))
BY DEF Landed

LEMMA KnownKept ==
  \A p \in Path : journal'[p] = journal[p] /\ server'[p] = server[p] /\ base'[p] = base[p] /\ Known(p) => Known(p)'
BY LandedKept DEF Known

\* A step that leaves the server, the baselines and the journal alone.
ServerStays == UNCHANGED <<server, base, journal>> /\ used'.foreign = used.foreign

LEMMA StaysKnown ==
  ASSUME ServerKnown, ServerStays
  PROVE  ServerKnown'
BY KnownKept DEF ServerKnown, ServerStays

LEMMA ServerAside ==
  ASSUME ServerInv, ServerStays, work' = work
  PROVE  ServerInv'
<1>1. JournalApart'
  BY DEF ServerInv, ServerStays, JournalApart, Flushing
<1>2. \A p \in Path : Apart(p) => Apart(p)'
  BY DEF Apart, Undecided, Uploaded, Deleted, Raced, LeftOver, ServerStays
<1>3. SyncApart'
  BY <1>2 DEF ServerInv, SyncApart, Syncing, Flushing
<1> QED BY <1>1, <1>3, StaysKnown DEF ServerInv

LEMMA ServerRests ==
  ASSUME ServerInv, ServerStays, work'.pc \in {"idle", "saving", "applying"} \/ (work'.pc = "recover" /\ work'.conflicts = {})
  PROVE  ServerInv'
BY StaysKnown DEF ServerInv, JournalApart, SyncApart

LEMMA ForeignServer ==
  ASSUME Inv, ServerInv, NEW p \in Path, Foreign(p)
  PROVE  ServerInv'
<1>1. UNCHANGED <<journal, work>> /\ used.foreign \in Nat /\ used'.foreign = used.foreign + 1
  BY SpendKeeps DEF Foreign, Inv, TypeInv, CountsTyped, manifest
<1>2. ServerKnown'
  BY <1>1 DEF ServerKnown
<1>3. JournalApart'
  BY <1>1 DEF ServerInv, JournalApart, Flushing
<1>4. \A q \in Path : Apart(q) => Apart(q)'
  BY <1>1 DEF Apart, Undecided, Uploaded, Deleted, Raced, LeftOver
<1>5. SyncApart'
  BY <1>1, <1>4 DEF ServerInv, SyncApart, Syncing, Flushing
<1> QED BY <1>2, <1>3, <1>5 DEF ServerInv

\* The steps around the work under way, and its beginnings and ends.
LEMMA AroundServer ==
  ASSUME Inv, ServerInv,
         \/ User \/ Deliver \/ Record \/ Verification
         \/ BeginFlush \/ PeriodicSync \/ Start \/ EndApplied \/ Stop \/ RecoverFails \/ ScanFails
         \/ EndFlush \/ EndSync
         \/ \E r \in reports : EndReport(r)
  PROVE  ServerInv'
<1>0. TypeInv
  BY DEF Inv
<1>1. CASE User
  <2>1. Spend("edits") /\ UNCHANGED <<server, base, journal, work>>
    BY <1>1 DEF User, Write, Remove, Rename, manifest
  <2>2. ServerStays
    BY <1>0, <2>1, SpendKeeps DEF ServerStays
  <2> QED BY <2>1, <2>2, ServerAside
<1>2. CASE Deliver \/ Record \/ Verification
  BY <1>2, ServerAside DEF Deliver, Record, Verification, BeginVerify, EndVerify, Verify, ServerStays, manifest, vault, startup, queue
<1>3. CASE BeginFlush \/ PeriodicSync \/ Start
  <2>1. ServerStays
    BY <1>3 DEF BeginFlush, PeriodicSync, Start, ServerStays, manifest
  <2>2. work' = work \/ (work'.pc = "recover" /\ work'.conflicts = {})
    BY <1>0, <1>3, BeginFlushFacts, PeriodicSyncFacts, StartFacts DEF Begun
  <2> QED BY <2>1, <2>2, ServerAside, ServerRests
<1>4. CASE EndApplied
  <2>1. ServerStays /\ (work' = work \/ work'.pc = "idle")
    BY <1>4, IdleFacts DEF EndApplied, ServerStays, manifest
  <2> QED BY <2>1, ServerAside, ServerRests
<1>5. CASE Stop
  <2>1. Spend("stops") /\ UNCHANGED <<server, base, journal>> /\ work'.pc = "idle"
    BY <1>5, IdleFacts DEF Stop, manifest
  <2> QED BY <1>0, <2>1, SpendKeeps, ServerRests DEF ServerStays
<1>6. CASE RecoverFails \/ ScanFails
  <2>1. Spend("losses") /\ UNCHANGED <<server, base, journal>>
    BY <1>6 DEF RecoverFails, ScanFails, manifest
  <2>2. work'.pc = "saving"
    BY <1>0, <1>6, RecoverFailsFacts, ScanFailsFacts
  <2> QED BY <1>0, <2>1, <2>2, SpendKeeps, ServerRests DEF ServerStays
<1>7. CASE EndFlush \/ EndSync
  <2>1. ServerStays
    BY <1>7 DEF EndFlush, EndSync, ServerStays, manifest
  <2>2. work'.pc \in {"idle", "applying"}
    <3>1. CASE EndFlush
      BY <1>0, <3>1, EndFlushFacts, IdleFacts
    <3>2. CASE EndSync /\ work.kind = "reconcile"
      BY <1>0, <3>2, EndSyncFacts DEF TypeInv, Run
    <3>3. CASE EndSync /\ work.kind # "reconcile"
      BY <1>0, <3>3, EndSyncFacts, IdleFacts
    <3> QED BY <1>7, <3>1, <3>2, <3>3
  <2> QED BY <2>1, <2>2, ServerRests
<1>8. ASSUME NEW r \in reports, EndReport(r)
      PROVE  ServerInv'
  <2>1. ServerStays
    BY <1>8 DEF EndReport, ServerStays, manifest
  <2>2. work' = work \/ (work'.pc = "recover" /\ work'.conflicts = {})
    BY <1>0, <1>8, EndReportFacts DEF Begun
  <2> QED BY <2>1, <2>2, ServerAside, ServerRests
<1> QED BY <1>1, <1>2, <1>3, <1>4, <1>5, <1>6, <1>7, <1>8

LEMMA RecoverServer ==
  ASSUME Inv, ServerInv, NEW p \in Path, Recover(p)
  PROVE  ServerInv'
<1>1. TypeInv /\ work.pc = "recover" /\ UNCHANGED <<work, used>> /\ journal'[p] = None /\ journal[p] # None
      /\ \A q \in Path : q # p => journal'[q] = journal[q]
  BY RecoverFacts DEF Inv, Recover
<1>2. /\ base \in [Path -> Content] /\ server \in [Path -> Content]
      /\ \/ Landed(p) /\ base' = [base EXCEPT ![p] = journal[p].hash] /\ server' = server
         \/ /\ ~Landed(p) /\ base' = [base EXCEPT ![p] = journal[p].hash]
            /\ server' = [server EXCEPT ![p] = journal[p].hash]
         \/ ~Landed(p) /\ base' = base /\ server' = server
  BY <1>1 DEF TypeInv, FilesTyped, Recover, Landed, NoteSynced
<1>3. ASSUME NEW q \in Path, Known(q), Known(p)
      PROVE  Known(q)'
  <2>1. CASE q = p
    <3>1. ~Landed(p)'
      BY <1>1 DEF Landed
    <3>2. server'[p] = 0 \/ server'[p] = base'[p]
      BY <1>2, <1>3 DEF Known
    <3> QED BY <2>1, <3>1, <3>2 DEF Known
  <2>2. CASE q # p
    <3>1. server'[q] = server[q] /\ base'[q] = base[q] /\ journal'[q] = journal[q]
      BY <1>1, <1>2, <2>2
    <3> QED BY <1>3, <3>1, KnownKept
  <2> QED BY <2>1, <2>2
<1>4. ServerKnown'
  BY <1>1, <1>3 DEF ServerInv, ServerKnown
<1>5. JournalApart' /\ SyncApart'
  BY <1>1 DEF ServerInv, JournalApart, SyncApart
<1> QED BY <1>4, <1>5 DEF ServerInv

\* What is left to show of a step that leaves the server alone.
LEMMA ServerFrom ==
  ASSUME ServerInv, ServerStays, JournalApart', SyncApart'
  PROVE  ServerInv'
BY StaysKnown DEF ServerInv

LEMMA PlanServer ==
  ASSUME Inv, ServerInv, Plan
  PROVE  ServerInv'
<1>1. ServerStays
  BY DEF Plan, ServerStays, manifest
<1>2. /\ TypeInv /\ WorkGoesOn /\ work.pc = "recover" /\ (\A p \in Path : journal[p] = None)
      /\ work'.conflicts = work.conflicts /\ work'.sending = work.sending
      /\ Flushing => work'.pc = "clearing"
      /\ ~Flushing => work'.pc = "scan" /\ work'.uploads = work.uploads /\ work'.expect = work.expect
  BY PlanFacts DEF Inv
<1>3. work.conflicts = {} /\ work.sending = {} /\ work.uploads = {} /\ work.expect = NoExpectation
  BY <1>2 DEF ServerInv, SyncApart, Inv, WorkInv, PhasesInv
<1>4. JournalApart'
  BY <1>1, <1>2, <1>3 DEF JournalApart, ServerStays
<1>5. SyncApart'
  <2> SUFFICES ASSUME ~Flushing, NEW p \in Path PROVE Apart(p)'
    BY <1>2, <1>3 DEF SyncApart, WorkGoesOn, Flushing
  <2>1. ~Uploaded(p)' /\ ~Deleted(p)' /\ ~Raced(p)' /\ ~LeftOver(p)'
    BY <1>1, <1>2, <1>3, PathsOfFacts DEF Uploaded, Deleted, Raced, LeftOver, NoExpectation, ServerStays
  <2> QED BY <2>1 DEF Apart
<1> QED BY <1>1, <1>4, <1>5, ServerFrom

\* A sync goes on looking at its paths.
LEMMA ScanApart ==
  ASSUME ServerInv, work.pc = "scan", ~Flushing, WorkGoesOn, work'.pc \in {"scan", "saving"},
         work'.pc = "scan" => /\ journal' = journal /\ work'.conflicts = work.conflicts
                              /\ \A p \in Path : Apart(p) => Apart(p)'
  PROVE  JournalApart' /\ SyncApart'
BY DEF ServerInv, JournalApart, SyncApart, WorkGoesOn, Syncing, Flushing

LEMMA MissedServer ==
  ASSUME Inv, ServerInv, NEW p \in Path, Missed(p)
  PROVE  ServerInv'
<1>1. ServerStays /\ TypeInv
  BY DEF Missed, ServerStays, manifest, Inv
<1>2. /\ WorkGoesOn /\ work.pc = "scan" /\ ~Flushing
      /\ work'.pc = "saving" \/ work' = [work EXCEPT !.todo = @ \ {p}]
  BY <1>1, MissedFacts DEF Inv, WorkInv, PhasesInv
<1>3. CASE work'.pc = "saving"
  BY <1>1, <1>3, ServerRests
<1>4. CASE work' = [work EXCEPT !.todo = @ \ {p}]
  <2>1. /\ work'.pc = "scan" /\ work'.conflicts = work.conflicts /\ work'.todo = work.todo \ {p}
        /\ work'.uploads = work.uploads /\ work'.expect = work.expect
    BY <1>1, <1>2, <1>4 DEF TypeInv, Run
  <2>2. \A q \in Path : Apart(q) => Apart(q)'
    BY <1>1, <1>2, <2>1 DEF Apart, Undecided, Uploaded, Deleted, Raced, LeftOver, ServerStays
  <2> QED BY <1>1, <1>2, <2>1, <2>2, ScanApart, ServerFrom DEF ServerStays
<1> QED BY <1>2, <1>3, <1>4

LEMMA ScanServer ==
  ASSUME Inv, ServerInv, NEW p \in Path, Scan(p)
  PROVE  ServerInv'
<1>1. /\ TypeInv /\ work \in Run /\ gate # "off" /\ work.pc = "scan" /\ ~Flushing /\ Syncing
  <2>1. work.pc = "scan"
    BY DEF Scan
  <2> QED BY <2>1, Shape DEF Inv, WorkInv, PhasesInv, Flushing
<1>2. /\ WorkGoesOn /\ journal' = journal /\ p \in work.todo /\ work'.pc = "scan"
      /\ \A q \in Path : q # p => base'[q] = base[q]
      /\ \/ work' = [work EXCEPT !.todo = @ \ {p}, !.uploads = @ \cup {p}, !.remote[p] = server[p]]
         \/ work' = [work EXCEPT !.todo = @ \ {p}, !.expect[p] = server[p]]
         \/ ScanSettles(p)
  BY <1>1, ScanFacts
<1>3. /\ work'.conflicts = work.conflicts /\ work'.todo = work.todo \ {p}
      /\ \A q \in Path : q # p => (q \in work'.uploads <=> q \in work.uploads) /\ work'.expect[q] = work.expect[q]
      /\ \/ p \notin work'.uploads \/ p \in work.uploads \/ work'.expect[p] = work.expect[p]
      /\ work'.expect[p] = work.expect[p] \/ (p \in work'.uploads <=> p \in work.uploads)
  <2>1. CASE work' = [work EXCEPT !.todo = @ \ {p}, !.uploads = @ \cup {p}, !.remote[p] = server[p]]
    BY <1>1, <2>1 DEF Run
  <2>2. CASE work' = [work EXCEPT !.todo = @ \ {p}, !.expect[p] = server[p]]
    BY <1>1, <2>2 DEF Run
  <2>3. CASE ScanSettles(p)
    BY <2>3 DEF ScanSettles
  <2> QED BY <1>2, <2>1, <2>2, <2>3
<1>4. ASSUME NEW q \in Path, Apart(q)
      PROVE  Apart(q)'
  <2>1. ~Raced(q)' /\ (LeftOver(q)' <=> LeftOver(q)) /\ ~Raced(q)
    BY <1>1, <1>2, <1>3, PathsOfFacts DEF ServerInv, SyncApart, LeftOver, Raced
  <2>2. CASE q # p
    <3>1. (Undecided(q)' => Undecided(q)) /\ (Uploaded(q)' => Uploaded(q)) /\ (Deleted(q)' => Deleted(q))
      BY <1>1, <1>2, <1>3, <2>2 DEF Undecided, Uploaded, Deleted
    <3> QED BY <1>4, <2>1, <3>1 DEF Apart
  <2>3. CASE q = p
    <3>1. Undecided(p) /\ ~Undecided(p)'
      BY <1>1, <1>2, <1>3 DEF Undecided
    <3>2. ~Uploaded(p) /\ ~Deleted(p) /\ ~LeftOver(p)
      BY <1>4, <2>3, <3>1 DEF Apart
    <3>3. ~Uploaded(p)' \/ ~Deleted(p)'
      BY <1>1, <1>2, <1>3, <3>2 DEF Uploaded, Deleted
    <3> QED BY <2>1, <2>3, <3>1, <3>2, <3>3 DEF Apart
  <2> QED BY <2>2, <2>3
<1>5. JournalApart' /\ SyncApart'
  BY <1>1, <1>2, <1>3, <1>4, ScanApart
<1>6. server' = server /\ used' = used /\ (base'[p] = base[p] \/ base'[p] = server[p])
  <2>1. server' = server /\ used' = used /\ base \in [Path -> Content]
    BY <1>1 DEF Scan, TypeInv, FilesTyped
  <2>2. base' = base \/ NoteSynced(p, server[p])
    <3>1. CASE Decision(p) \in {"upload", "delete"}
      BY <3>1 DEF Scan
    <3>2. CASE Decision(p) = "none"
      <4>1. disk[p] = server[p]
        BY <3>2 DEF Decision
      <4> QED BY <3>2, <4>1 DEF Scan
    <3>3. CASE Decision(p) \in {"download", "conflict"}
      BY <3>3 DEF Scan
    <3>4. CASE Decision(p) = "delete-local"
      <4>1. server[p] = 0
        BY <3>4 DEF Decision
      <4> QED BY <3>4, <4>1 DEF Scan
    <3>5. Decision(p) \in {"none", "upload", "delete", "download", "conflict", "delete-local"}
      BY DEF Decision
    <3> QED BY <3>1, <3>2, <3>3, <3>4, <3>5
  <2> QED BY <2>1, <2>2 DEF NoteSynced
<1>7. ServerKnown'
  <2> SUFFICES ASSUME used.foreign = 0, NEW q \in Path PROVE Known(q)'
    BY <1>6 DEF ServerKnown
  <2>1. Known(q)
    BY DEF ServerInv, ServerKnown
  <2>2. base'[q] = base[q] \/ base'[q] = server[q]
    BY <1>2, <1>6
  <2>3. Landed(q)' <=> Landed(q)
    BY <1>2, LandedKept
  <2> QED BY <1>2, <1>6, <2>1, <2>2, <2>3 DEF Known
<1> QED BY <1>5, <1>7 DEF ServerInv

LEMMA EndScanServer ==
  ASSUME Inv, ServerInv, EndScan
  PROVE  ServerInv'
<1>1. ServerStays /\ TypeInv
  BY DEF EndScan, ServerStays, manifest, Inv
<1>2. /\ WorkGoesOn /\ work.pc = "scan" /\ ~Flushing /\ Syncing /\ work.sending = {}
      /\ work' = [work EXCEPT !.pc = "clearing", !.todo = work'.todo]
  BY <1>1, EndScanFacts DEF Inv, WorkInv, PhasesInv, Syncing
<1>3. /\ work'.pc = "clearing" /\ work'.conflicts = work.conflicts /\ work'.sending = {}
      /\ work'.uploads = work.uploads /\ work'.expect = work.expect
  BY <1>1, <1>2 DEF TypeInv, Run
<1>4. JournalApart'
  BY <1>2, <1>3 DEF JournalApart, WorkGoesOn, Flushing
<1>5. \A q \in Path : Apart(q) => Apart(q)'
  BY <1>1, <1>2, <1>3 DEF Apart, Undecided, Uploaded, Deleted, Raced, LeftOver, ServerStays
<1>6. SyncApart'
  BY <1>2, <1>3, <1>5 DEF ServerInv, SyncApart
<1> QED BY <1>1, <1>4, <1>6, ServerFrom

\* A batch of deletes fails, in part or whole, before or after it was sent.
LEMMA DeletesApart ==
  ASSUME Inv, ServerInv, WorkGoesOn, journal' = journal, work.pc \in {"clearing", "deleting"},
         work'.pc = work.pc, work'.sending = {}, work'.todo = {}, work'.uploads = work.uploads,
         NEW paths \in SUBSET work.todo, work'.conflicts \subseteq work.conflicts \cup {Delete(p) : p \in paths},
         \A p \in Path : work'.expect[p] = IF p \in work.todo \cup work.sending THEN 0 ELSE work.expect[p]
  PROVE  JournalApart' /\ SyncApart'
<1>1. work.sending \subseteq work.todo /\ work.todo \subseteq Path /\ \A p \in work.todo : Deleted(p)
  BY DEF Inv, TypeInv, Run, WorkInv, PhasesInv, Deleted
<1>2. JournalApart'
  BY DEF ServerInv, JournalApart, WorkGoesOn, Flushing
<1>3. ASSUME NEW q \in Path, Apart(q)
      PROVE  Apart(q)'
  <2>1. /\ ~Undecided(q)' /\ (Uploaded(q)' <=> Uploaded(q)) /\ (LeftOver(q)' <=> LeftOver(q))
        /\ Deleted(q)' => Deleted(q) /\ q \notin work.todo
    BY <1>1 DEF Undecided, Uploaded, LeftOver, Deleted
  <2>2. Raced(q)' => Raced(q) \/ q \in work.todo
    BY <1>1, KeyFacts DEF Raced, PathsOf
  <2> QED BY <1>1, <1>3, <2>1, <2>2 DEF Apart
<1>4. SyncApart'
  BY <1>3 DEF ServerInv, SyncApart, WorkGoesOn, Syncing, Flushing
<1> QED BY <1>2, <1>4

LEMMA CheckDeletesServer ==
  ASSUME Inv, ServerInv, CheckDeletes
  PROVE  ServerInv'
<1>1. ServerStays /\ TypeInv /\ work.todo \subseteq Path
  BY DEF CheckDeletes, ServerStays, manifest, Inv, TypeInv, Run
<1>2. WorkGoesOn /\ QuietStep /\ work.pc \in {"clearing", "deleting"} /\ work.todo # {} /\ work.sending = {}
  BY <1>1, CheckDeletesFacts
<1>3. ASSUME NEW conflict \in BOOLEAN, DeletesFailed(work, work.todo, conflict)
      PROVE  JournalApart' /\ SyncApart'
  BY <1>1, <1>2, <1>3, DeletesApart DEF DeletesFailed, QuietStep
<1>4. CASE work' = [work EXCEPT !.sending = @ \cup work.todo]
  <2>1. /\ work'.pc = work.pc /\ work'.todo = work.todo /\ work'.uploads = work.uploads
        /\ work'.expect = work.expect /\ work'.conflicts = work.conflicts
    BY <1>1, <1>4 DEF TypeInv, Run
  <2>2. \A q \in Path : journal[q] = None
    <3>1. ~ \E conflict \in BOOLEAN : DeletesFailed(work, work.todo, conflict)
      <4> SUFFICES ASSUME NEW conflict \in BOOLEAN, DeletesFailed(work, work.todo, conflict) PROVE FALSE
        OBVIOUS
      <4>1. work'.todo = {}
        BY DEF DeletesFailed
      <4> QED BY <1>2, <2>1, <4>1
    <3>2. CASE \E p \in work.todo : disk[p] # 0
      <4>1. DeletesFail(work, work.todo, TRUE)
        BY <3>2 DEF CheckDeletes
      <4>2. UNCHANGED <<startup, verifying, timer, check, reports, applied>> /\ work \in Run
        BY <1>1 DEF CheckDeletes, TypeInv
      <4> QED BY <1>1, <3>1, <4>1, <4>2, DeletesFailFacts
    <3>3. CASE ~ \E p \in work.todo : disk[p] # 0
      <4>1. CASE \E p \in work.todo : ~RenamePreserved(p)
        <5>1. DeletesFail(work, work.todo, FALSE)
          BY <3>3, <4>1 DEF CheckDeletes
        <5>2. UNCHANGED <<startup, verifying, timer, check, reports, applied>> /\ work \in Run
          BY <1>1 DEF CheckDeletes, TypeInv
        <5> QED BY <1>1, <3>1, <5>1, <5>2, DeletesFailFacts
      <4>2. CASE \A p \in work.todo : RenamePreserved(p)
        BY <1>2, <4>2 DEF RenamePreserved
      <4> QED BY <4>1, <4>2
    <3> QED BY <3>2, <3>3
  <2>3. JournalApart'
    BY <1>1, <1>2, <2>1, <2>2 DEF JournalApart, ServerStays
  <2>4. \A q \in Path : Apart(q) => Apart(q)'
    BY <1>1, <1>2, <2>1 DEF Apart, Undecided, Uploaded, Deleted, Raced, LeftOver, ServerStays
  <2>5. SyncApart'
    BY <1>2, <2>1, <2>4 DEF ServerInv, SyncApart, WorkGoesOn, Syncing, Flushing
  <2> QED BY <1>1, <2>3, <2>5, ServerFrom
<1>5. \/ \E conflict \in BOOLEAN : DeletesFailed(work, work.todo, conflict)
      \/ work' = [work EXCEPT !.sending = @ \cup work.todo]
  <2>1. \/ \E conflict \in BOOLEAN : DeletesFailed(work, work.todo, conflict)
        \/ work' = [work EXCEPT !.sending = work.todo]
    BY <1>1, CheckDeletesFacts
  <2>2. work.sending \cup work.todo = work.todo
    BY <1>2
  <2> QED BY <2>1, <2>2
<1> QED BY <1>1, <1>3, <1>4, <1>5, ServerFrom

LEMMA LoseDeletesServer ==
  ASSUME Inv, ServerInv, LoseDeletes
  PROVE  ServerInv'
<1>0. TypeInv /\ PhasesInv
  BY DEF Inv, WorkInv
<1>1. /\ WorkGoesOn /\ work.pc \in {"clearing", "deleting"} /\ work.sending # {}
      /\ DeletesFailed(work, work.sending, FALSE) /\ UNCHANGED <<base, journal>>
      /\ server \in [Path -> Content] /\ work.sending = work.todo /\ work \in Run
  BY <1>0, LoseDeletesFacts DEF QuietStep, TypeInv, FilesTyped, PhasesInv
<1>2. JournalApart' /\ SyncApart'
  BY <1>1, DeletesApart DEF DeletesFailed, Run
<1>3. used'.foreign = used.foreign
  BY <1>0, SpendKeeps DEF LoseDeletes
<1>4. ASSUME NEW q \in Path, Known(q)
      PROVE  Known(q)'
  <2>1. journal[q] = None /\ journal'[q] = None
    BY <1>1 DEF ServerInv, JournalApart
  <2>2. server'[q] = server[q] \/ server'[q] = 0
    BY <1>1 DEF LoseDeletes, Delivered
  <2> QED BY <1>1, <1>4, <2>1, <2>2 DEF Known, Landed
<1> QED BY <1>2, <1>3, <1>4 DEF ServerInv, ServerKnown

LEMMA SendDeletesServer ==
  ASSUME Inv, ServerInv, SendDeletes
  PROVE  ServerInv'
<1>1. /\ TypeInv /\ WorkGoesOn /\ work.pc \in {"clearing", "deleting"} /\ work.sending # {} /\ journal' = journal
      /\ work'.pc = work.pc /\ work'.sending = {} /\ work'.todo = {} /\ work'.uploads = work.uploads
      /\ work.sending = work.todo
      /\ \A p \in Path : work'.expect[p] = IF p \in work.todo \cup work.sending THEN 0 ELSE work.expect[p]
      /\ \E done \in SUBSET work.sending : work'.conflicts = work.conflicts \cup {Delete(p) : p \in work.sending \ done}
  BY SendDeletesFacts DEF Inv, WorkInv, PhasesInv
<1>2. JournalApart' /\ SyncApart'
  <2>1. PICK done \in SUBSET work.sending : work'.conflicts = work.conflicts \cup {Delete(p) : p \in work.sending \ done}
    BY <1>1
  <2>2. PICK paths \in SUBSET work.todo : paths = work.sending \ done
    BY <1>1
  <2>3. work'.conflicts \subseteq work.conflicts \cup {Delete(p) : p \in paths}
    BY <2>1, <2>2
  <2> QED BY <1>1, <2>3, DeletesApart
<1>3. used' = used
  BY DEF SendDeletes
<1>4. ASSUME NEW q \in Path, Known(q)
      PROVE  Known(q)'
  <2>1. journal[q] = None /\ journal'[q] = None
    BY <1>1 DEF ServerInv, JournalApart
  <2>2. server'[q] = 0 \/ (server'[q] = server[q] /\ base'[q] = base[q])
    BY DEF SendDeletes, Delivered
  <2> QED BY <1>4, <2>1, <2>2 DEF Known, Landed
<1> QED BY <1>2, <1>3, <1>4 DEF ServerInv, ServerKnown

\* The paths that lost a race are planned again.
LEMMA RescanServer ==
  ASSUME ServerInv, ServerStays, WorkGoesOn, ~Flushing, Syncing, work.pc \in {"clearing", "uploading", "deleting"},
         NEW uploads, Rescanned(uploads), work.sending = {},
         uploads = {} \/ (uploads = work.uploads /\ work.pc = "clearing")
  PROVE  ServerInv'
<1>1. JournalApart'
  BY DEF Rescanned, JournalApart, WorkGoesOn, Flushing
<1>2. ASSUME NEW q \in Path
      PROVE  Apart(q)'
  <2>1. Apart(q)
    BY DEF ServerInv, SyncApart
  <2>2. ~Raced(q)'
    BY PathsOfFacts DEF Rescanned, Raced
  <2>3. (Undecided(q)' => Raced(q)) /\ (Uploaded(q)' => Uploaded(q)) /\ (Deleted(q)' <=> Deleted(q))
        /\ (LeftOver(q)' <=> LeftOver(q))
    BY DEF Rescanned, Undecided, Raced, Uploaded, Deleted, LeftOver, ServerStays
  <2> QED BY <2>1, <2>2, <2>3 DEF Apart
<1>3. SyncApart'
  BY <1>2 DEF Rescanned, SyncApart
<1> QED BY <1>1, <1>3, ServerFrom

LEMMA EndClearingServer ==
  ASSUME Inv, ServerInv, EndClearing
  PROVE  ServerInv'
<1>1. ServerStays /\ TypeInv /\ work.uploads \subseteq Path
  BY DEF EndClearing, ServerStays, manifest, Inv, TypeInv, Run
<1>2. WorkGoesOn /\ work.pc = "clearing" /\ work.todo = {} /\ work.sending = {} /\ Syncing
  BY <1>1, EndClearingFacts, Shape
<1>3. CASE ~Flushing /\ Rescanned(work.uploads)
  BY <1>1, <1>2, <1>3, RescanServer
<1>4. CASE /\ Flushing \/ work.conflicts = {}
           /\ work'.pc = "uploading" /\ work'.uploads = work.uploads /\ work'.expect = work.expect
           /\ work'.sending = {} /\ work'.conflicts = work.conflicts /\ work'.todo \subseteq work.uploads
  <2>1. ASSUME NEW q \in work.uploads
        PROVE  journal[q] = None
    <3>1. CASE Flushing
      BY <1>1, <1>2, <3>1 DEF ServerInv, JournalApart
    <3>2. CASE ~Flushing
      <4>1. Apart(q) /\ Uploaded(q) /\ q \in Path
        BY <1>1, <1>2, <3>2 DEF ServerInv, SyncApart, Uploaded
      <4> QED BY <1>2, <4>1 DEF Apart, LeftOver
    <3> QED BY <3>1, <3>2
  <2>2. JournalApart'
    BY <1>1, <1>2, <1>4, <2>1 DEF JournalApart, ServerStays
  <2>3. \A q \in Path : Apart(q) => Apart(q)'
    BY <1>1, <1>2, <1>4 DEF Apart, Undecided, Uploaded, Deleted, Raced, LeftOver, ServerStays
  <2>4. SyncApart'
    BY <1>2, <1>4, <2>3 DEF ServerInv, SyncApart, WorkGoesOn, Syncing, Flushing
  <2> QED BY <1>1, <2>2, <2>4, ServerFrom
<1> QED BY <1>1, <1>3, <1>4, EndClearingFacts

LEMMA EndDeletesServer ==
  ASSUME Inv, ServerInv, EndDeletes
  PROVE  ServerInv'
<1>1. ServerStays /\ TypeInv
  BY DEF EndDeletes, ServerStays, manifest, Inv
<1>2. WorkGoesOn /\ work.pc = "deleting" /\ work.sending = {} /\ Syncing
  BY <1>1, EndDeletesFacts, Shape
<1>3. CASE ~Flushing /\ Rescanned({})
  BY <1>1, <1>2, <1>3, RescanServer
<1>4. CASE work' = [work EXCEPT !.pc = "saving"]
  <2>1. work'.pc = "saving"
    BY <1>1, <1>4 DEF TypeInv, Run
  <2> QED BY <1>1, <2>1, ServerRests
<1> QED BY <1>1, <1>3, <1>4, EndDeletesFacts

LEMMA EndUploadsServer ==
  ASSUME Inv, ServerInv, EndUploads
  PROVE  ServerInv'
<1>1. ServerStays /\ TypeInv /\ work \in Run
  BY DEF EndUploads, ServerStays, manifest, Inv, TypeInv
<1>2. WorkGoesOn /\ work.pc = "uploading" /\ work.todo = {} /\ work.sending = {} /\ Syncing
  BY <1>1, EndUploadsFacts, Shape
<1>3. CASE ~Flushing /\ Rescanned({})
  BY <1>1, <1>2, <1>3, RescanServer
<1>4. CASE /\ Flushing \/ work.conflicts = {}
           /\ work'.pc = "deleting" /\ work'.expect = work.expect /\ work'.sending = {}
  <2>1. JournalApart'
    BY <1>4 DEF JournalApart
  <2>2. CASE Flushing
    <3>1. SyncApart'
      BY <1>2, <1>4, <2>2 DEF SyncApart, WorkGoesOn, Flushing
    <3> QED BY <1>1, <2>1, <3>1, ServerFrom
  <2>3. CASE ~Flushing
    <3>1. work'.conflicts = {}
      <4> DEFINE f == work.failing \/ Deferred # {}
                 c == IF work.conflicts # {} THEN work.conflicts \cup {Delete(p) : p \in Deferred} ELSE work.conflicts
                 t == Remaining \ Deferred
      <4>1. ~Again
        BY <1>4, <2>3 DEF Again
      <4>2. work' = [work EXCEPT !.pc = "deleting", !.todo = t, !.failing = f, !.uploads = {}, !.conflicts = c]
        BY <4>1 DEF EndUploads
      <4>3. c = {}
        BY <1>4, <2>3
      <4> HIDE DEF f, c, t
      <4> QED BY <1>1, <4>2, <4>3 DEF Run
    <3>2. \A q \in Path : ~Undecided(q)' /\ ~Uploaded(q)' /\ ~Raced(q)' /\ (Deleted(q)' <=> Deleted(q))
            /\ (LeftOver(q)' <=> LeftOver(q))
      BY <1>1, <1>2, <1>4, <3>1, PathsOfFacts DEF Undecided, Uploaded, Raced, Deleted, LeftOver, ServerStays
    <3>3. SyncApart'
      BY <1>2, <1>4, <2>3, <3>2 DEF ServerInv, SyncApart, Apart, WorkGoesOn, Syncing, Flushing
    <3> QED BY <1>1, <2>1, <3>3, ServerFrom
  <2> QED BY <2>2, <2>3
<1> QED BY <1>1, <1>3, <1>4, EndUploadsFacts

LEMMA PrepareServer ==
  ASSUME Inv, ServerInv, NEW p \in Path, Prepare(p)
  PROVE  ServerInv'
<1>1. TypeInv /\ UNCHANGED <<server, base, used>> /\ work \in Run /\ journal \in [Path -> Maybe(Entry)]
  BY DEF Prepare, Inv, TypeInv, JournalTyped
<1>2. /\ WorkGoesOn /\ work.pc = "uploading" /\ p \in work.todo
      /\ work'.pc = work.pc /\ work'.todo = work.todo \ {p}
      /\ work'.expect = work.expect /\ work'.conflicts = work.conflicts
      /\ \/ UNCHANGED journal /\ work'.sending = work.sending
         \/ /\ work'.sending = work.sending \cup {p}
            /\ journal'[p] \in Entry /\ \A q \in Path : q # p => journal'[q] = journal[q]
  BY <1>1, PrepareFacts
<1>3. journal[p] = None /\ p \notin work.sending
  BY <1>2 DEF ServerInv, JournalApart
<1>4. \/ UNCHANGED journal
      \/ ~journal'[p].landed
  <2>1. CASE disk[p] = 0 \/ (Flushing /\ disk[p] = base[p])
    BY <2>1 DEF Prepare
  <2>2. CASE ~(disk[p] = 0 \/ (Flushing /\ disk[p] = base[p]))
    <3> DEFINE x == IF Flushing THEN base[p] ELSE work.remote[p]
               j == [hash |-> disk[p], expected |-> x, landed |-> FALSE]
    <3>1. journal' = [journal EXCEPT ![p] = j]
      BY <2>2 DEF Prepare
    <3>2. j.landed = FALSE
      OBVIOUS
    <3> HIDE DEF j
    <3> QED BY <1>1, <3>1, <3>2
  <2> QED BY <2>1, <2>2
<1>5. ASSUME NEW q \in Path, Known(q)
      PROVE  Known(q)'
  <2>1. ~Landed(p) /\ ~Landed(p)'
    BY <1>3, <1>4 DEF Landed
  <2>2. q # p => (Landed(q)' <=> Landed(q)) /\ journal'[q] = journal[q]
    BY <1>2, LandedKept
  <2> QED BY <1>1, <1>5, <2>1, <2>2 DEF Known
<1>6. JournalApart'
  <2>1. \A q \in work'.todo : q \notin work'.sending /\ journal'[q] = None
    BY <1>1, <1>2 DEF ServerInv, JournalApart, Run
  <2>2. \A q \in work'.sending : ~journal'[q].landed
    <3> SUFFICES ASSUME NEW q \in work'.sending PROVE ~journal'[q].landed
      OBVIOUS
    <3>1. CASE UNCHANGED journal /\ work'.sending = work.sending
      BY <1>2, <3>1 DEF ServerInv, JournalApart
    <3>2. CASE ~UNCHANGED journal /\ q # p
      <4>1. q \in work.sending /\ q \in Path /\ journal'[q] = journal[q]
        BY <1>1, <1>2, <3>2 DEF Run
      <4> QED BY <1>2, <4>1 DEF ServerInv, JournalApart
    <3>3. CASE ~UNCHANGED journal /\ q = p
      BY <1>4, <3>3
    <3>4. UNCHANGED journal => work'.sending = work.sending
      <4>1. journal'[p] \in Entry => journal'[p] # None
        BY NoneAssumption DEF Entry
      <4> QED BY <1>2, <1>3, <4>1
    <3> QED BY <3>1, <3>2, <3>3, <3>4
  <2> QED BY <1>2, <2>1, <2>2 DEF JournalApart
<1>7. ASSUME NEW q \in Path, Apart(q)
      PROVE  Apart(q)'
  <2>1. /\ ~Undecided(q)' /\ (Deleted(q)' <=> Deleted(q)) /\ (Raced(q)' <=> Raced(q))
        /\ Uploaded(q)' => Uploaded(q)
        /\ LeftOver(q)' => LeftOver(q)
    BY <1>1, <1>2, <1>3 DEF Undecided, Deleted, Raced, Uploaded, LeftOver
  <2> QED BY <1>7, <2>1 DEF Apart
<1>8. SyncApart'
  BY <1>2, <1>7 DEF ServerInv, SyncApart, WorkGoesOn, Syncing, Flushing
<1> QED BY <1>1, <1>5, <1>6, <1>8 DEF ServerInv, ServerKnown

\* An upload that was sent is over: it reached the server, it was refused or its answer was lost.
LEMMA UploadApart ==
  ASSUME Inv, ServerInv, WorkGoesOn, work.pc = "uploading", NEW p \in work.sending,
         work'.pc = work.pc, work'.todo = work.todo, work'.sending = work.sending \ {p},
         work'.expect = work.expect,
         \A q \in Path : q # p => journal'[q] = journal[q],
         work'.conflicts \subseteq work.conflicts \cup {Upload(p)},
         journal'[p] = None \/ work'.conflicts = work.conflicts
  PROVE  JournalApart' /\ SyncApart'
<1>1. work \in Run /\ p \in Path /\ p \notin work.todo
  BY DEF Inv, TypeInv, Run, ServerInv, JournalApart
<1>2. JournalApart'
  BY <1>1 DEF ServerInv, JournalApart, Run
<1>3. ASSUME NEW q \in Path, Apart(q)
      PROVE  Apart(q)'
  <2>1. ~Undecided(q)' /\ (Deleted(q)' <=> Deleted(q)) /\ (Uploaded(q)' => Uploaded(q))
    BY DEF Undecided, Deleted, Uploaded
  <2>2. Raced(q)' => Raced(q) \/ q = p
    BY <1>1, KeyFacts DEF Raced, PathsOf
  <2>3. CASE q # p
    <3>1. LeftOver(q)' <=> LeftOver(q)
      BY <2>3 DEF LeftOver
    <3> QED BY <1>3, <2>1, <2>2, <2>3, <3>1 DEF Apart
  <2>4. CASE q = p
    <3>1. Uploaded(q) /\ ~Uploaded(q)'
      BY <1>1, <2>4 DEF Uploaded
    <3>2. ~LeftOver(q)' \/ (Raced(q)' <=> Raced(q))
      BY <2>4 DEF LeftOver, Raced
    <3> QED BY <1>3, <2>1, <3>1, <3>2 DEF Apart
  <2> QED BY <2>3, <2>4
<1>4. SyncApart'
  BY <1>3 DEF ServerInv, SyncApart, WorkGoesOn, Syncing, Flushing
<1> QED BY <1>2, <1>4

LEMMA SendUploadServer ==
  ASSUME Inv, ServerInv, NEW p \in Path, SendUpload(p)
  PROVE  ServerInv'
<1>1. TypeInv /\ used' = used /\ base \in [Path -> Content] /\ server \in [Path -> Content]
  BY DEF SendUpload, Inv, TypeInv, FilesTyped
<1>2. /\ WorkGoesOn /\ work.pc = "uploading" /\ p \in work.sending
      /\ journal'[p] = None /\ \A q \in Path : q # p => journal'[q] = journal[q]
      /\ work'.pc = work.pc /\ work'.todo = work.todo /\ work'.sending = work.sending \ {p}
      /\ work'.expect = work.expect
  BY <1>1, SendUploadFacts DEF UploadFailed
<1>3. \/ /\ server' = server /\ base' = base /\ work'.conflicts \subseteq work.conflicts \cup {Upload(p)}
      \/ /\ server' = [server EXCEPT ![p] = journal[p].hash] /\ base' = [base EXCEPT ![p] = journal[p].hash]
         /\ work'.conflicts = work.conflicts
  <2>1. ASSUME NEW how \in {"namespace", "conflict"} \cup Failures, UploadFails(p, how)
        PROVE  work'.conflicts \subseteq work.conflicts \cup {Upload(p)}
    <3>1. UNCHANGED <<startup, verifying, timer, check, reports, applied>>
      BY DEF SendUpload
    <3>2. work'.conflicts = work.conflicts \cup (IF how = "conflict" THEN {Upload(p)} ELSE {})
      BY <1>1, <2>1, <3>1, UploadFailsFacts
    <3> QED BY <3>2
  <2>2. CASE ~Fits(p)
    BY <2>1, <2>2 DEF SendUpload
  <2>3. CASE Fits(p) /\ server[p] # journal[p].expected
    BY <2>1, <2>3 DEF SendUpload
  <2>4. CASE Fits(p) /\ server[p] = journal[p].expected
    <3> DEFINE s == work.sending \ {p}
               k == work.settled \cup KeysOf(p, Upload(p))
    <3>1. /\ work' = [work EXCEPT !.sending = s, !.settled = k] /\ NoteSynced(p, journal[p].hash)
          /\ server' = [server EXCEPT ![p] = journal[p].hash]
      BY <2>4 DEF SendUpload
    <3> HIDE DEF s, k
    <3>2. work'.conflicts = work.conflicts
      BY <1>1, <3>1 DEF TypeInv, Run
    <3> QED BY <3>1, <3>2 DEF NoteSynced
  <2> QED BY <2>2, <2>3, <2>4
<1>4. JournalApart' /\ SyncApart'
  BY <1>2, <1>3, UploadApart
<1>5. ASSUME NEW q \in Path, Known(q)
      PROVE  Known(q)'
  <2>1. CASE q # p
    BY <1>1, <1>2, <1>3, <1>5, <2>1, KnownKept
  <2>2. CASE q = p
    <3>1. ~Landed(p)' /\ ~Landed(p)
      BY <1>2 DEF Landed, ServerInv, JournalApart
    <3>2. server'[p] \in {0, base'[p]}
      BY <1>1, <1>3, <1>5, <2>2, <3>1 DEF Known
    <3> QED BY <2>2, <3>1, <3>2 DEF Known
  <2> QED BY <2>1, <2>2
<1> QED BY <1>1, <1>4, <1>5 DEF ServerInv, ServerKnown

LEMMA LoseUploadServer ==
  ASSUME Inv, ServerInv, NEW p \in Path, LoseUpload(p)
  PROVE  ServerInv'
<1>a. PICK how \in Failures : UploadFails(p, how)
  BY DEF LoseUpload, Failures
<1>1. /\ TypeInv /\ base' = base /\ Spend("losses")
      /\ UNCHANGED <<startup, verifying, timer, check, reports, applied>>
      /\ server \in [Path -> Content] /\ journal \in [Path -> Maybe(Entry)]
  BY DEF LoseUpload, Inv, TypeInv, FilesTyped, JournalTyped
<1>2. /\ WorkGoesOn /\ work.pc = "uploading" /\ p \in work.sending
      /\ \A q \in Path : q # p => journal'[q] = journal[q]
      /\ work'.pc = work.pc /\ work'.todo = work.todo /\ work'.sending = work.sending \ {p}
      /\ work'.expect = work.expect
  BY <1>1, LoseUploadFacts DEF UploadFailed
<1>3. work'.conflicts = work.conflicts
  <2>1. work'.conflicts = work.conflicts \cup (IF how = "conflict" THEN {Upload(p)} ELSE {})
    BY <1>1, <1>a, UploadFailsFacts
  <2>2. how # "conflict"
    BY DEF Failures
  <2> QED BY <2>1, <2>2
<1>4. JournalApart' /\ SyncApart'
  BY <1>2, <1>3, UploadApart
<1>5. used'.foreign = used.foreign
  BY <1>1, SpendKeeps
<1>6. journal[p] \in Entry
  BY <1>1, <1>2 DEF TypeInv
<1>7. \/ UNCHANGED <<server, journal>>
      \/ /\ server' = [server EXCEPT ![p] = journal[p].hash] /\ journal' = [journal EXCEPT ![p].landed = TRUE]
  BY DEF LoseUpload
<1>8. ASSUME NEW q \in Path, Known(q)
      PROVE  Known(q)'
  <2>1. CASE UNCHANGED <<server, journal>>
    BY <1>1, <1>8, <2>1, KnownKept
  <2>2. CASE q # p
    <3>1. server'[q] = server[q]
      BY <1>1, <1>7, <2>2
    <3> QED BY <1>1, <1>2, <1>8, <2>2, <3>1, KnownKept
  <2>3. CASE q = p /\ server' = [server EXCEPT ![p] = journal[p].hash] /\ journal' = [journal EXCEPT ![p].landed = TRUE]
    <3>1. journal'[p] \in Entry /\ journal'[p].hash = journal[p].hash
      BY <1>1, LoseUploadFacts
    <3>2. server'[p] = journal'[p].hash
      BY <1>1, <2>3, <3>1
    <3>3. Landed(p)'
      <4>1. journal'[p] = [journal[p] EXCEPT !.landed = TRUE]
        BY <1>1, <2>3
      <4>2. journal'[p].landed = TRUE
        BY <1>6, <4>1 DEF Entry
      <4>3. journal'[p] # None
        BY <3>1, NoneAssumption DEF Entry
      <4> QED BY <4>2, <4>3 DEF Landed
    <3> QED BY <2>3, <3>2, <3>3 DEF Known
  <2> QED BY <1>7, <2>1, <2>2, <2>3
<1> QED BY <1>4, <1>5, <1>8 DEF ServerInv, ServerKnown

LEMMA ServerInit ==
  ASSUME Init
  PROVE  ServerInv
<1>1. server = base /\ work = Idle /\ \A p \in Path : journal[p] = None
  BY DEF Init
<1>2. \A p \in Path : Known(p)
  BY <1>1 DEF Known, Landed
<1> QED BY <1>1, <1>2, IdleFacts DEF ServerInv, ServerKnown, JournalApart, SyncApart

LEMMA ServerNext ==
  ASSUME Inv, ServerInv, [Next]_vars
  PROVE  ServerInv'
<1>1. CASE User \/ Verification \/ Deliver \/ Record \/ BeginFlush \/ PeriodicSync \/ Start \/ EndApplied
           \/ \E r \in reports : EndReport(r)
  BY <1>1, AroundServer
<1>2. CASE Faults
  <2>1. CASE RecoverFails \/ ScanFails \/ Stop
    BY <2>1, AroundServer
  <2>2. CASE LoseDeletes
    BY <2>2, LoseDeletesServer
  <2>3. ASSUME NEW p \in Path, LoseUpload(p)
        PROVE  ServerInv'
    BY <2>3, LoseUploadServer
  <2> QED BY <1>2, <2>1, <2>2, <2>3 DEF Faults
<1>3. CASE Work
  <2>1. CASE Plan \/ EndScan \/ CheckDeletes \/ SendDeletes
    BY <2>1, PlanServer, EndScanServer, CheckDeletesServer, SendDeletesServer
  <2>2. CASE EndClearing \/ EndUploads \/ EndDeletes
    BY <2>2, EndClearingServer, EndUploadsServer, EndDeletesServer
  <2>3. CASE EndFlush \/ EndSync
    BY <2>3, AroundServer
  <2>4. ASSUME NEW p \in Path, Recover(p) \/ Scan(p) \/ Missed(p)
        PROVE  ServerInv'
    BY <2>4, RecoverServer, ScanServer, MissedServer
  <2>5. ASSUME NEW p \in Path, Prepare(p) \/ SendUpload(p)
        PROVE  ServerInv'
    BY <2>5, PrepareServer, SendUploadServer
  <2> QED BY <1>3, <2>1, <2>2, <2>3, <2>4, <2>5 DEF Work
<1>4. ASSUME NEW p \in Path, Foreign(p)
      PROVE  ServerInv'
  BY <1>4, ForeignServer
<1>5. CASE UNCHANGED vars
  BY <1>5, ServerAside DEF vars, manifest, ServerStays
<1> QED BY <1>1, <1>2, <1>3, <1>4, <1>5 DEF Next

-----------------------------------------------------------------------------
(* Names that differ only in their case.                                     *)

LEMMA TwinFacts ==
  \A p, q \in Path : q \in Twins(p) => p \in Twins(q) /\ p # q
<1> SUFFICES ASSUME NEW p \in Path, NEW q \in Path, q \in Twins(p) PROVE p \in Twins(q) /\ p # q
  OBVIOUS
<1>1. p # q
  BY DEF Twins
<1>2. PICK v \in Variants : p \in v /\ q \in v
  BY DEF Twins
<1> QED BY <1>1, <1>2 DEF Twins

LEMMA TwinsArePaths ==
  \A p : Twins(p) \subseteq Path
BY PathAssumption DEF Twins

(* The vault has one of two such names: only another device's change can bring the other. *)
NamesApart == used.foreign = 0 => \A p \in Path : disk[p] # 0 => \A q \in Twins(p) : disk[q] = 0

\* Only the user and a sync change the vault.
LEMMA StepFacts ==
  ASSUME TypeInv, [Next]_vars
  PROVE  /\ used.edits \in Nat /\ used.foreign \in Nat /\ used'.edits >= used.edits /\ used'.foreign >= used.foreign
         /\ disk' = disk \/ (User /\ used'.edits > used.edits) \/ \E p \in Path : Scan(p)
<1>1. used.edits \in Nat /\ used.foreign \in Nat
  BY DEF TypeInv, CountsTyped
<1>2. CASE User
  <2>1. Spend("edits")
    BY <1>2 DEF User, Write, Remove, Rename
  <2> QED BY <1>1, <1>2, <2>1, SpendKeeps
<1>3. CASE Faults
  <2>1. disk' = disk /\ \E what \in {"losses", "stops"} : Spend(what)
    BY <1>3 DEF Faults, RecoverFails, ScanFails, LoseDeletes, LoseUpload, Stop, vault
  <2>2. PICK what \in {"losses", "stops"} : Spend(what)
    BY <2>1
  <2>3. used'.edits = used.edits /\ used'.foreign = used.foreign
    BY <2>2, SpendKeeps
  <2> QED BY <1>1, <2>1, <2>3
<1>4. CASE \E p \in Path : Foreign(p)
  <2>1. disk' = disk /\ Spend("foreign")
    BY <1>4 DEF Foreign
  <2> QED BY <1>1, <2>1, SpendKeeps
<1>5. CASE Verification \/ Deliver \/ Record \/ BeginFlush \/ PeriodicSync \/ Start \/ EndApplied
           \/ (\E r \in reports : EndReport(r)) \/ UNCHANGED vars
  <2>1. disk' = disk /\ used' = used
    BY <1>5 DEF Verification, BeginVerify, EndVerify, Verify, Deliver, Record, BeginFlush, PeriodicSync, Start,
                EndApplied, EndReport, vars, vault
  <2> QED BY <1>1, <2>1
<1>6. CASE Work
  <2>1. used' = used /\ (disk' = disk \/ \E p \in Path : Scan(p))
    <3>1. CASE Plan \/ EndScan \/ CheckDeletes \/ SendDeletes \/ EndClearing \/ EndUploads \/ EndDeletes \/ EndFlush \/ EndSync
      BY <3>1 DEF Plan, EndScan, CheckDeletes, SendDeletes, EndClearing, EndUploads, EndDeletes, EndFlush, EndSync, vault
    <3>2. CASE \E p \in Path : Recover(p) \/ Scan(p) \/ Missed(p) \/ Prepare(p) \/ SendUpload(p)
      BY <3>2 DEF Recover, Scan, Missed, Prepare, SendUpload, vault
    <3> QED BY <1>6, <3>1, <3>2 DEF Work
  <2> QED BY <1>1, <2>1
<1> QED BY <1>2, <1>3, <1>4, <1>5, <1>6 DEF Next

\* While no other device changes the server, a sync brings no file to the vault.
LEMMA ScanBringsNothing ==
  ASSUME Inv, ServerInv, used.foreign = 0, NEW p \in Path, Scan(p)
  PROVE  \A q \in Path : disk'[q] \in {0, disk[q]}
<1>1. work.pc = "scan" /\ p \in work.todo /\ ~Flushing /\ Syncing /\ disk \in [Path -> Content]
  BY Shape DEF Scan, Inv, TypeInv, FilesTyped, WorkInv, PhasesInv, Flushing
<1>2. Apart(p) /\ Undecided(p)
  BY <1>1 DEF ServerInv, SyncApart, Undecided
<1>3. server[p] \in {0, base[p]}
  BY <1>1, <1>2 DEF Apart, LeftOver, ServerInv, ServerKnown, Known, Landed
<1>4. Decision(p) \notin {"download", "conflict"}
  <2>1. CASE server[p] = 0
    BY <2>1 DEF Decision
  <2>2. CASE server[p] = base[p] /\ base[p] # 0
    <3>1. CASE disk[p] = 0
      <4>1. Decision(p) = "delete"
        BY <2>2, <3>1 DEF Decision
      <4> QED BY <4>1
    <3>2. CASE disk[p] # 0
      <4>1. CASE disk[p] = server[p]
        <5>1. Decision(p) = "none"
          BY <4>1 DEF Decision
        <5> QED BY <5>1
      <4>2. CASE disk[p] # server[p]
        <5>1. Decision(p) = "upload"
          BY <2>2, <3>2, <4>2 DEF Decision
        <5> QED BY <5>1
      <4> QED BY <4>1, <4>2
    <3> QED BY <3>1, <3>2
  <2> QED BY <1>3, <2>1, <2>2
<1>5. Decision(p) \in {"none", "upload", "delete", "download", "conflict", "delete-local"}
  BY DEF Decision
<1>6. disk' = disk \/ disk' = [disk EXCEPT ![p] = 0]
  <2>1. CASE Decision(p) \in {"none", "upload", "delete"}
    BY <2>1 DEF Scan
  <2>2. CASE Decision(p) = "delete-local"
    BY <2>2 DEF Scan
  <2> QED BY <1>4, <1>5, <2>1, <2>2
<1> QED BY <1>1, <1>6

LEMMA NamesApartKept ==
  ASSUME Inv, ServerInv, NamesApart, [Next]_vars
  PROVE  NamesApart'
<1>1. TypeInv /\ disk \in [Path -> Content]
  BY DEF Inv, TypeInv, FilesTyped
<1>2. used'.foreign = 0 => used.foreign = 0
  BY <1>1, StepFacts
<1> SUFFICES ASSUME used'.foreign = 0, used.foreign = 0, NEW p \in Path, disk'[p] # 0, NEW q \in Twins(p)
             PROVE  disk'[q] = 0
  BY <1>2 DEF NamesApart
<1>3. q \in Path /\ p \in Twins(q) /\ p # q
  BY TwinFacts, TwinsArePaths
<1>4. (disk[p] # 0 => disk[q] = 0) /\ (disk[q] # 0 => disk[p] = 0)
  BY <1>3 DEF NamesApart
<1>5. CASE disk' = disk
  BY <1>4, <1>5
<1>6. ASSUME NEW r \in Path, Scan(r)
      PROVE  disk'[q] = 0
  BY <1>3, <1>4, <1>6, ScanBringsNothing
<1>7. CASE User
  <2>1. ASSUME NEW r \in Path, Write(r)
        PROVE  disk'[q] = 0
    <3>1. disk' = [disk EXCEPT ![r] = made'] /\ \A s \in Twins(r) : disk[s] = 0
      BY <2>1 DEF Write
    <3> QED BY <1>1, <1>3, <1>4, <3>1
  <2>2. ASSUME NEW r \in Path, Remove(r)
        PROVE  disk'[q] = 0
    <3>1. disk' = [disk EXCEPT ![r] = 0]
      BY <2>2 DEF Remove
    <3> QED BY <1>1, <1>3, <1>4, <3>1
  <2>3. ASSUME NEW r \in Path, NEW s \in Path, Rename(r, s)
        PROVE  disk'[q] = 0
    <3>1. /\ disk' = [disk EXCEPT ![r] = 0, ![s] = disk[r]] /\ r # s
          /\ \A t \in {s} \cup (Twins(s) \ {r}) : disk[t] = 0
      BY <2>3 DEF Rename
    <3>2. /\ disk'[r] = 0 /\ disk'[s] = disk[r] /\ \A t \in Path : t \notin {r, s} => disk'[t] = disk[t]
      BY <1>1, <3>1
    <3> QED BY <1>1, <1>3, <1>4, <3>1, <3>2
  <2> QED BY <1>7, <2>1, <2>2, <2>3 DEF User
<1> QED BY <1>1, <1>5, <1>6, <1>7, StepFacts

-----------------------------------------------------------------------------
(* What a flush knows.  Until the user or another device changes something, it knows every name
   of the vault: what differs from its baseline is in its batch, or nothing ran when it changed. *)
Still == Flushing /\ used.edits <= work.seen /\ used.foreign = 0

SeenInv == Flushing => used.edits >= work.seen

(* While nothing changes: no event comes, a name is cleared of its twins before its upload, and
   a delete that failed holds the upload back. *)
ClearedInv ==
  Still =>
    /\ events = <<>>
    /\ work.pc = "recover" => pending.queued = {}
    /\ work.pc = "clearing" =>
         /\ \A q \in Path : Delete(q) \in pending.queued => q \in work.failed
         /\ \A p \in work.uploads : \A q \in Twins(p) : work.expect[q] # 0 => q \in work.todo
    /\ work.pc = "uploading" =>
         /\ \A p \in work.todo \cup work.sending : \A q \in Twins(p) :
              work.expect[q] = 0 /\ Delete(q) \notin pending.queued
         /\ \A p \in work.sending : disk[p] # 0

(* An upload is refused only then: by what the flush could not know. *)
Unknown == used.edits > work.seen \/ used.foreign > 0 \/ \E q \in owed : Twins(q) \cap work.failed # {}

RefusedInv == Flushing /\ work.clash => work.pc \notin {"recover", "clearing"} /\ Unknown

NamesInv == NamesApart /\ SeenInv /\ ClearedInv /\ RefusedInv

\* A step of a flush changes no file, and no other count than the losses.
FlushStep ==
  /\ Flushing /\ WorkGoesOn /\ UNCHANGED <<disk, events>>
  /\ work'.seen = work.seen /\ used'.edits = used.edits /\ used'.foreign = used.foreign

LEMMA FlushStepFacts ==
  ASSUME FlushStep, NamesInv
  PROVE  /\ Flushing' /\ (Still' <=> Still) /\ owed' = owed /\ SeenInv'
         /\ Still => events' = <<>>
BY DEF FlushStep, WorkGoesOn, Flushing, Still, NamesInv, SeenInv, ClearedInv, startup

LEMMA RefusedKept ==
  ASSUME FlushStep, NamesInv, work'.clash = work.clash,
         work.pc \in {"recover", "clearing"} \/ work.failed \subseteq work'.failed,
         work'.pc \in {"recover", "clearing"} => work.pc \in {"recover", "clearing"}
  PROVE  RefusedInv'
<1>1. (work.pc \in {"recover", "clearing"} => ~work.clash) /\ (work.clash => Unknown) /\ owed' = owed
  BY FlushStepFacts DEF FlushStep, NamesInv, RefusedInv
<1>2. work.failed \subseteq work'.failed => (Unknown => Unknown')
  BY FlushStepFacts DEF FlushStep, Unknown
<1> QED BY <1>1, <1>2 DEF RefusedInv

LEMMA NamesFrom ==
  ASSUME Inv, ServerInv, NamesInv, [Next]_vars, FlushStep, Still => ClearedInv', RefusedInv'
  PROVE  NamesInv'
BY NamesApartKept, FlushStepFacts DEF NamesInv, ClearedInv

\* The work under way is another than a flush, or it has just begun.
LEMMA NamesRest ==
  ASSUME Inv, ServerInv, NamesInv, [Next]_vars, ~Flushing'
  PROVE  NamesInv'
BY NamesApartKept DEF NamesInv, SeenInv, ClearedInv, RefusedInv, Still

\* A step that leaves the work under way alone.
LEMMA NamesAside ==
  ASSUME Inv, ServerInv, NamesInv, [Next]_vars, work' = work, Flushing => owed' = owed,
         Flushing /\ events = <<>> =>
           \/ used'.edits > used.edits \/ used'.foreign > used.foreign
           \/ disk' = disk /\ events' = <<>> /\ pending'.queued \subseteq pending.queued
  PROVE  NamesInv'
<1>1. /\ used.edits \in Nat /\ used.foreign \in Nat /\ used'.edits \in Nat /\ used'.foreign \in Nat
      /\ used'.edits >= used.edits /\ used'.foreign >= used.foreign /\ work.seen \in Int
  <2>1. TypeInv /\ TypeInv'
    BY NextKeeps DEF Inv
  <2> QED BY <2>1, StepFacts DEF TypeInv, CountsTyped, Run
<1>2. NamesApart' /\ SeenInv'
  BY <1>1, NamesApartKept DEF NamesInv, SeenInv, Flushing
<1>3. Still' => Still /\ disk' = disk /\ events' = <<>> /\ pending'.queued \subseteq pending.queued
  <2>1. Still' => Still /\ used'.edits <= work.seen /\ used'.foreign = 0
    BY <1>1 DEF Still, Flushing
  <2>2. Still => used.edits >= work.seen /\ events = <<>> /\ used.foreign = 0 /\ Flushing
    BY DEF Still, NamesInv, SeenInv, ClearedInv
  <2> QED BY <1>1, <2>1, <2>2
<1>4. ClearedInv'
  BY <1>3 DEF NamesInv, ClearedInv
<1>5. Flushing => (Unknown => Unknown')
  BY <1>1 DEF Unknown
<1>6. RefusedInv'
  BY <1>5 DEF NamesInv, RefusedInv, Flushing
<1> QED BY <1>2, <1>4, <1>6 DEF NamesInv

LEMMA NamesBegun ==
  ASSUME Inv, ServerInv, NamesInv, [Next]_vars, NEW kind, NEW batch, Begun(kind, batch),
         kind = "flush" => events' = events /\ pending'.queued = {} /\ used' = used
  PROVE  NamesInv'
<1>1. CASE kind # "flush"
  BY <1>1, NamesRest DEF Begun, Flushing
<1>2. CASE kind = "flush"
  <2>1. used.edits \in Nat /\ events \in Seq(Event) /\ Len(events) \in Nat
    BY DEF Inv, TypeInv, CountsTyped
  <2>2. work'.pc = "recover" /\ work'.seen = used.edits - Len(events) /\ work'.clash = FALSE
    BY DEF Begun
  <2>3. SeenInv' /\ RefusedInv'
    BY <1>2, <2>1, <2>2 DEF SeenInv, RefusedInv
  <2>4. Still' => events = <<>>
    <3>1. Still' => used.edits <= used.edits - Len(events)
      BY <1>2, <2>2 DEF Still
    <3>2. Len(events) <= 0 => events = <<>>
      BY <2>1
    <3> QED BY <2>1, <3>1, <3>2
  <2>5. ClearedInv'
    BY <1>2, <2>2, <2>4 DEF ClearedInv
  <2> QED BY <2>3, <2>5, NamesApartKept DEF NamesInv
<1> QED BY <1>1, <1>2

\* The steps around the work under way, and its beginnings and ends.
LEMMA AroundNames ==
  ASSUME Inv, ServerInv, NamesInv, [Next]_vars,
         \/ User \/ Deliver \/ Record \/ Verification
         \/ BeginFlush \/ PeriodicSync \/ Start \/ EndApplied \/ Stop \/ EndFlush \/ EndSync \/ UNCHANGED vars
         \/ \E r \in reports : EndReport(r)
         \/ \E p \in Path : Foreign(p) \/ Recover(p)
  PROVE  NamesInv'
<1>0. TypeInv
  BY DEF Inv
<1>1. CASE User
  <2>1. work' = work /\ owed' = owed
    BY <1>1 DEF User, Write, Remove, Rename, startup
  <2>2. used'.edits > used.edits
    <3>1. Spend("edits")
      BY <1>1 DEF User, Write, Remove, Rename
    <3> QED BY <1>0, <3>1, SpendKeeps, StepFacts
  <2> QED BY <2>1, <2>2, NamesAside
<1>2. CASE Deliver \/ Record \/ BeginVerify \/ (\E k \in Key : Verify(k)) \/ UNCHANGED vars
  <2>1. work' = work /\ owed' = owed
    BY <1>2 DEF Deliver, Record, BeginVerify, Verify, vars, startup
  <2>2. events = <<>> => disk' = disk /\ events' = <<>> /\ pending' = pending
    BY <1>2 DEF Deliver, Record, BeginVerify, Verify, vars, vault, startup, queue
  <2> QED BY <2>1, <2>2, NamesAside
<1>3. CASE EndVerify
  <2>1. disk' = disk /\ work' = work /\ owed' = owed /\ events' = events /\ pending'.queued \subseteq pending.queued
    BY <1>0, <1>3, EndVerifyFacts
  <2> QED BY <2>1, NamesAside
<1>4. CASE BeginFlush
  <2>1. /\ UNCHANGED <<disk, owed, events>>
        /\ \/ UNCHANGED <<pending, work, check>>
           \/ Begun("flush", pending.queued) /\ pending'.queued = {}
    BY <1>0, <1>4, BeginFlushFacts
  <2>2. used' = used
    BY <1>4 DEF BeginFlush
  <2> QED BY <2>1, <2>2, NamesAside, NamesBegun
<1>5. CASE PeriodicSync \/ Start
  <2>1. Begun("sync", {}) \/ Begun("startup", {})
    BY <1>0, <1>5, PeriodicSyncFacts, StartFacts
  <2> QED BY <2>1, NamesBegun
<1>6. CASE EndApplied
  <2>1. applied.kind = "startup" => pending.queued = {} /\ ~Flushing
    BY <1>6 DEF EndApplied, Inv, GateInv, Flushing
  <2>2. /\ UNCHANGED <<disk, owed, events>>
        /\ work' = IF work.pc = "applying" THEN Idle ELSE work
        /\ applied.kind # "startup" => SettledFrom(pending', pending, Written, applied.revisions)
    BY <1>0, <1>6, <2>1, EndAppliedFacts
  <2>3. Flushing => pending'.queued \subseteq pending.queued
    BY <2>1, <2>2 DEF SettledFrom
  <2>4. work' = work \/ ~Flushing'
    BY <2>2, IdleFacts DEF Flushing
  <2> QED BY <2>2, <2>3, <2>4, NamesAside, NamesRest
<1>7. CASE Stop \/ EndFlush \/ EndSync
  <2>1. ~Flushing'
    <3>1. CASE Stop \/ EndFlush
      BY <1>0, <3>1, StopFacts, EndFlushFacts, IdleFacts DEF Flushing
    <3>2. CASE EndSync /\ work.kind = "reconcile"
      <4>1. work' = [work EXCEPT !.pc = "applying"] /\ ~Flushing
        BY <1>0, <3>2, EndSyncFacts
      <4> QED BY <1>0, <4>1 DEF TypeInv, Run, Flushing
    <3>3. CASE EndSync /\ work.kind # "reconcile"
      BY <1>0, <3>3, EndSyncFacts, IdleFacts DEF Flushing
    <3> QED BY <1>7, <3>1, <3>2, <3>3
  <2> QED BY <2>1, NamesRest
<1>8. ASSUME NEW r \in reports, EndReport(r)
      PROVE  NamesInv'
  <2>1. /\ UNCHANGED <<disk, owed, events, pending>>
        /\ \/ UNCHANGED <<work, check>>
           \/ \E batch \in SUBSET Key : Begun("reconcile", batch)
    BY <1>0, <1>8, EndReportFacts
  <2> QED BY <2>1, NamesAside, NamesBegun
<1>9. ASSUME NEW p \in Path, Foreign(p)
      PROVE  NamesInv'
  <2>1. work' = work /\ owed' = owed /\ Spend("foreign")
    BY <1>9 DEF Foreign, startup
  <2>2. used'.foreign > used.foreign
    BY <1>0, <2>1, SpendKeeps, StepFacts
  <2> QED BY <2>1, <2>2, NamesAside
<1>10. ASSUME NEW p \in Path, Recover(p)
       PROVE  NamesInv'
  <2>1. work' = work /\ owed' = owed /\ disk' = disk /\ events' = events /\ pending' = pending
    BY <1>10 DEF Recover, startup, queue, vault
  <2> QED BY <2>1, NamesAside
<1> QED BY <1>1, <1>2, <1>3, <1>4, <1>5, <1>6, <1>7, <1>8, <1>9, <1>10 DEF Verification

\* What the failure of deletes and of an upload leave of the run.
LEMMA DeletesFailNames ==
  ASSUME NEW w \in Run, NEW paths \in SUBSET Path, NEW conflict \in BOOLEAN, work \in Run, DeletesFail(w, paths, conflict)
  PROVE  work'.seen = w.seen /\ work'.failed = w.failed \cup paths /\ work'.clash = w.clash
<1> DEFINE f == w.failing \/ (paths # {} /\ (Flushing \/ ~conflict))
           e == [p \in Path |-> IF p \in w.todo \cup w.sending THEN 0 ELSE w.expect[p]]
           c == IF conflict THEN w.conflicts \cup {Delete(p) : p \in paths} ELSE w.conflicts
           g == w.failed \cup paths
<1>1. work' = [w EXCEPT !.failing = f, !.sending = {}, !.todo = {}, !.failed = g, !.expect = e, !.conflicts = c]
  BY DEF DeletesFail
<1> HIDE DEF f, e, c, g
<1>2. work'.seen = w.seen /\ work'.failed = g
  BY <1>1 DEF Run
<1>3. work'.clash = w.clash
  BY <1>1 DEF Run
<1> QED BY <1>2, <1>3 DEF g

\* A step of the work under way that loses nothing or one request.
LEMMA CountsKept ==
  ASSUME TypeInv, used' = used \/ Spend("losses")
  PROVE  used'.edits = used.edits /\ used'.foreign = used.foreign
BY SpendKeeps

LEMMA DeleteIsOne ==
  \A p, q \in Path : Delete(p) = Delete(q) => p = q
BY KeyFacts

LEMMA PlanNames ==
  ASSUME Inv, ServerInv, NamesInv, [Next]_vars, Plan
  PROVE  NamesInv'
<1>0. TypeInv /\ work \in Run
  BY DEF Inv, TypeInv
<1>1. /\ WorkGoesOn /\ QuietStep /\ pending' = pending /\ work.pc = "recover" /\ used' = used
      /\ Flushing => work'.pc = "clearing"
  BY <1>0, PlanFacts DEF Plan
<1>2. CASE ~Flushing
  BY <1>1, <1>2, NamesRest DEF WorkGoesOn, Flushing
<1>3. CASE Flushing
  <2> DEFINE u == {p \in Path : Upload(p) \in work.batch}
             e == [p \in Path |-> IF Delete(p) \in work.batch THEN base[p] ELSE 0]
             w == [work EXCEPT !.uploads = u, !.expect = e]
             t == Clearing(w)
  <2>1. work' = [w EXCEPT !.pc = "clearing", !.todo = t]
    BY <1>3 DEF Plan
  <2>2. t = {p \in Path : w.expect[p] # 0 /\ Twins(p) \cap w.uploads # {}} /\ u \subseteq Path
    BY DEF Clearing
  <2> HIDE DEF u, e, t
  <2>3. /\ w.uploads = u /\ w.expect = e /\ work'.uploads = u /\ work'.expect = e /\ work'.todo = t
        /\ work'.seen = work.seen
    BY <1>0, <2>1 DEF Run
  <2>4. work'.clash = work.clash
    BY <1>0, <2>1 DEF Run
  <2>5. FlushStep
    BY <1>0, <1>1, <1>3, <2>3 DEF FlushStep, QuietStep
  <2>6. RefusedInv'
    BY <1>1, <2>4, <2>5, RefusedKept
  <2>7. ASSUME Still
        PROVE  ClearedInv'
    <3>1. events' = <<>> /\ pending'.queued = {} /\ work'.pc = "clearing"
      BY <1>1, <1>3, <2>5, <2>7, FlushStepFacts DEF NamesInv, ClearedInv
    <3>2. ASSUME NEW p \in u, NEW q \in Twins(p), e[q] # 0
          PROVE  q \in t
      BY <2>2, <2>3, <3>2, TwinFacts, TwinsArePaths
    <3> QED BY <2>3, <3>1, <3>2 DEF ClearedInv
  <2> QED BY <2>5, <2>6, <2>7, NamesFrom
<1> QED BY <1>2, <1>3

\* A batch of deletes of a flush fails, in part or whole.
LEMMA DeletesNames ==
  ASSUME Inv, ServerInv, NamesInv, [Next]_vars, FlushStep, work.pc \in {"clearing", "deleting"},
         work'.pc = work.pc, work'.sending = {}, work'.todo = {}, work'.uploads = work.uploads,
         \A p \in Path : work'.expect[p] = IF p \in work.todo \cup work.sending THEN 0 ELSE work.expect[p],
         NEW paths \in SUBSET Path, work'.failed = work.failed \cup paths, work'.clash = work.clash,
         pending'.queued = pending.queued \cup {Delete(p) : p \in paths}
  PROVE  NamesInv'
<1>1. RefusedInv'
  BY RefusedKept
<1>2. ASSUME Still
      PROVE  ClearedInv'
  <2> SUFFICES ASSUME work.pc = "clearing"
               PROVE  /\ \A q \in Path : Delete(q) \in pending'.queued => q \in work'.failed
                      /\ \A p \in work'.uploads : \A q \in Twins(p) : work'.expect[q] # 0 => q \in work'.todo
    BY <1>2, FlushStepFacts DEF ClearedInv
  <2>1. /\ \A q \in Path : Delete(q) \in pending.queued => q \in work.failed
        /\ \A p \in work.uploads : \A q \in Twins(p) : work.expect[q] # 0 => q \in work.todo
    BY <1>2 DEF NamesInv, ClearedInv
  <2>2. \A q \in Path : Delete(q) \in {Delete(p) : p \in paths} => q \in paths
    BY DeleteIsOne
  <2>3. \A p : \A q \in Twins(p) : q \in Path
    BY TwinsArePaths
  <2> QED BY <2>1, <2>2, <2>3
<1> QED BY <1>1, <1>2, NamesFrom

LEMMA CheckDeletesNames ==
  ASSUME Inv, ServerInv, NamesInv, [Next]_vars, CheckDeletes
  PROVE  NamesInv'
<1>0. TypeInv /\ work \in Run /\ work.todo \in SUBSET Path
  BY DEF Inv, TypeInv, Run
<1>1. WorkGoesOn /\ QuietStep /\ work.pc \in {"clearing", "deleting"} /\ work.sending = {} /\ used' = used
  BY <1>0, CheckDeletesFacts DEF CheckDeletes
<1>2. CASE ~Flushing
  BY <1>1, <1>2, NamesRest DEF WorkGoesOn, Flushing
<1>3. ASSUME Flushing, NEW conflict \in BOOLEAN, DeletesFail(work, work.todo, conflict)
      PROVE  NamesInv'
  <2>1. DeletesFailed(work, work.todo, conflict)
    BY <1>0, <1>3, DeletesFailFacts DEF CheckDeletes
  <2>2. work'.seen = work.seen /\ work'.failed = work.failed \cup work.todo /\ work'.clash = work.clash
    BY <1>0, <1>3, DeletesFailNames
  <2>3. FlushStep
    BY <1>1, <1>3, <2>2 DEF FlushStep, QuietStep
  <2> QED BY <1>0, <1>1, <1>3, <2>1, <2>2, <2>3, DeletesNames DEF DeletesFailed
<1>4. CASE Flushing /\ work' = [work EXCEPT !.sending = @ \cup work.todo] /\ UNCHANGED pending
  <2>1. /\ work'.pc = work.pc /\ work'.todo = work.todo /\ work'.uploads = work.uploads /\ work'.expect = work.expect
        /\ work'.failed = work.failed /\ work'.seen = work.seen
    BY <1>0, <1>4 DEF Run
  <2>2. work'.clash = work.clash
    BY <1>0, <1>4 DEF Run
  <2>3. FlushStep
    BY <1>1, <1>4, <2>1 DEF FlushStep, QuietStep
  <2>4. RefusedInv'
    BY <2>1, <2>2, <2>3, RefusedKept
  <2>5. Still => ClearedInv'
    BY <1>1, <1>4, <2>1, <2>3, FlushStepFacts DEF NamesInv, ClearedInv
  <2> QED BY <2>3, <2>4, <2>5, NamesFrom
<1> QED BY <1>2, <1>3, <1>4 DEF CheckDeletes

LEMMA LoseDeletesNames ==
  ASSUME Inv, ServerInv, NamesInv, [Next]_vars, LoseDeletes
  PROVE  NamesInv'
<1>0. TypeInv /\ work \in Run /\ work.sending \in SUBSET Path
  BY DEF Inv, TypeInv, Run
<1>1. /\ WorkGoesOn /\ QuietStep /\ work.pc \in {"clearing", "deleting"} /\ DeletesFailed(work, work.sending, FALSE)
      /\ used'.edits = used.edits /\ used'.foreign = used.foreign
  BY <1>0, LoseDeletesFacts, CountsKept DEF LoseDeletes
<1>2. CASE ~Flushing
  BY <1>1, <1>2, NamesRest DEF WorkGoesOn, Flushing
<1>3. CASE Flushing
  <2>1. work'.seen = work.seen /\ work'.failed = work.failed \cup work.sending /\ work'.clash = work.clash
    <3>1. PICK how \in Failures : DeletesFail(Judged(work, how), work.sending, FALSE)
      BY DEF LoseDeletes
    <3> DEFINE j == Judged(work, how)
    <3>2. j \in Run /\ j.seen = work.seen /\ j.failed = work.failed /\ j.clash = work.clash
      BY <1>0, JudgedFacts
    <3>3. DeletesFail(j, work.sending, FALSE)
      BY <3>1
    <3> HIDE DEF j
    <3> QED BY <1>0, <3>2, <3>3, DeletesFailNames
  <2>2. FlushStep
    BY <1>1, <1>3, <2>1 DEF FlushStep, QuietStep
  <2> QED BY <1>0, <1>1, <1>3, <2>1, <2>2, DeletesNames DEF DeletesFailed
<1> QED BY <1>2, <1>3

LEMMA SendDeletesNames ==
  ASSUME Inv, ServerInv, NamesInv, [Next]_vars, SendDeletes
  PROVE  NamesInv'
<1>0. TypeInv /\ work \in Run /\ work.sending \in SUBSET Path
  BY DEF Inv, TypeInv, Run
<1>1. /\ WorkGoesOn /\ UNCHANGED <<disk, events>> /\ work.pc \in {"clearing", "deleting"} /\ used' = used
      /\ work'.pc = work.pc /\ work'.sending = {} /\ work'.todo = {} /\ work'.uploads = work.uploads
      /\ \A p \in Path : work'.expect[p] = IF p \in work.todo \cup work.sending THEN 0 ELSE work.expect[p]
  BY <1>0, SendDeletesFacts DEF SendDeletes
<1>2. CASE ~Flushing
  BY <1>1, <1>2, NamesRest DEF WorkGoesOn, Flushing
<1>3. CASE Flushing
  <2> DEFINE s == work.settled \cup UNION {KeysOf(p, Delete(p)) : p \in Accepted}
             t == work.touched \cup Accepted
             w == [work EXCEPT !.settled = s, !.touched = t]
             paths == work.sending \ Accepted
  <2>1. DeletesFail(w, paths, TRUE)
    BY DEF SendDeletes
  <2>2. s \in SUBSET Key /\ t \in SUBSET Path /\ paths \in SUBSET Path
    <3>1. Accepted \in SUBSET work.sending
      BY DEF Accepted
    <3>2. \A p \in Accepted : KeysOf(p, Delete(p)) \in SUBSET Key
      BY <1>0, <3>1, KeyFacts, KeysOfFacts
    <3> QED BY <1>0, <3>1, <3>2 DEF Run
  <2> HIDE DEF s, t, paths
  <2>3. w \in Run /\ w.seen = work.seen /\ w.failed = work.failed
    BY <1>0, <2>2 DEF Run
  <2>4. w.clash = work.clash
    BY <1>0, <2>2 DEF Run
  <2>5. work'.seen = work.seen /\ work'.failed = work.failed \cup paths /\ work'.clash = work.clash
    <3> HIDE DEF w
    <3> QED BY <1>0, <2>1, <2>2, <2>3, <2>4, DeletesFailNames
  <2>6. pending'.queued = pending.queued \cup {Delete(p) : p \in paths}
    <3>1. pending' = [pending EXCEPT !.queued = @ \cup {Delete(p) : p \in paths}] /\ pending \in PendingSet
      BY <1>0, <1>3, <2>1 DEF DeletesFail, TypeInv, QueueTyped
    <3> QED BY <3>1 DEF PendingSet
  <2>7. FlushStep
    BY <1>1, <1>3, <2>5 DEF FlushStep
  <2> QED BY <1>1, <2>2, <2>5, <2>6, <2>7, DeletesNames
<1> QED BY <1>2, <1>3

\* A flush that has no names to clear or to send any more.
LEMMA NamesOver ==
  ASSUME Inv, ServerInv, NamesInv, [Next]_vars, FlushStep, work'.failed = work.failed, work'.clash = work.clash,
         work'.pc \notin {"recover", "clearing", "uploading"}
  PROVE  NamesInv'
<1>1. RefusedInv'
  BY RefusedKept
<1>2. Still => ClearedInv'
  BY FlushStepFacts DEF ClearedInv
<1> QED BY <1>1, <1>2, NamesFrom

LEMMA RecoverFailsNames ==
  ASSUME Inv, ServerInv, NamesInv, [Next]_vars, RecoverFails
  PROVE  NamesInv'
<1>0. TypeInv /\ work \in Run
  BY DEF Inv, TypeInv
<1>1. /\ WorkGoesOn /\ QuietStep /\ work'.pc = "saving" /\ used'.edits = used.edits /\ used'.foreign = used.foreign
  BY <1>0, RecoverFailsFacts, CountsKept DEF RecoverFails
<1>a. PICK how \in Failures : Fail(how)
  BY DEF RecoverFails
<1>2. work'.seen = work.seen /\ work'.failed = work.failed
  BY <1>0, <1>a, FailFacts DEF RecoverFails
<1>3. work'.clash = work.clash
  BY <1>0, <1>a, FailFacts DEF RecoverFails
<1>4. CASE ~Flushing
  BY <1>1, <1>4, NamesRest DEF WorkGoesOn, Flushing
<1>5. CASE Flushing
  BY <1>1, <1>2, <1>3, <1>5, NamesOver DEF FlushStep, QuietStep
<1> QED BY <1>4, <1>5

LEMMA ScanningNames ==
  ASSUME Inv, ServerInv, NamesInv, [Next]_vars,
         ScanFails \/ EndScan \/ \E p \in Path : Scan(p) \/ Missed(p)
  PROVE  NamesInv'
<1>0. TypeInv
  BY DEF Inv
<1>1. work.pc = "scan"
  BY DEF ScanFails, EndScan, Scan, Missed
<1>2. ~Flushing /\ gate # "off"
  BY <1>1, Shape DEF Inv, WorkInv, PhasesInv
<1>3. WorkGoesOn
  <2>1. CASE ScanFails \/ EndScan
    BY <1>0, <2>1, ScanFailsFacts, EndScanFacts
  <2>2. ASSUME NEW p \in Path, Scan(p) \/ Missed(p)
        PROVE  WorkGoesOn
    BY <1>0, <1>2, <2>2, ScanFacts, MissedFacts
  <2> QED BY <2>1, <2>2
<1> QED BY <1>2, <1>3, NamesRest DEF WorkGoesOn, Flushing

LEMMA EndClearingNames ==
  ASSUME Inv, ServerInv, NamesInv, [Next]_vars, EndClearing
  PROVE  NamesInv'
<1>0. TypeInv /\ work \in Run /\ work.uploads \in SUBSET Path /\ pending \in PendingSet
  BY QueueTypes DEF Inv, TypeInv, Run
<1>1. WorkGoesOn /\ QuietStep /\ work.pc = "clearing" /\ work.todo = {} /\ work.sending = {} /\ used' = used
  BY <1>0, EndClearingFacts DEF EndClearing
<1>2. CASE ~Flushing
  BY <1>1, <1>2, NamesRest DEF WorkGoesOn, Flushing
<1>3. CASE Flushing
  <2> DEFINE b == {p \in work.uploads : Twins(p) \cap work.failed # {}}
             t == work.uploads \ b
  <2>1. /\ work' = [work EXCEPT !.pc = "uploading", !.todo = t, !.failed = b]
        /\ pending' = [pending EXCEPT !.queued = @ \cup {Upload(p) : p \in b}]
    BY <1>3 DEF EndClearing, Again, Blocked
  <2>2. /\ \A p \in t : p \in work.uploads /\ p \in Path /\ \A q \in Twins(p) : q \notin work.failed
        /\ b \subseteq Path
    BY <1>0
  <2> HIDE DEF b, t
  <2>3. /\ work'.pc = "uploading" /\ work'.todo = t /\ work'.seen = work.seen /\ work'.expect = work.expect
        /\ work'.sending = work.sending
    BY <1>0, <2>1 DEF Run
  <2>4. work'.clash = work.clash
    BY <1>0, <2>1 DEF Run
  <2>5. pending'.queued = pending.queued \cup {Upload(p) : p \in b}
    BY <1>0, <2>1 DEF PendingSet
  <2>6. FlushStep
    BY <1>1, <1>3, <2>3 DEF FlushStep, QuietStep
  <2>7. RefusedInv'
    BY <1>1, <2>3, <2>4, <2>6, RefusedKept
  <2>8. ASSUME Still
        PROVE  ClearedInv'
    <3>1. /\ \A q \in Path : Delete(q) \in pending.queued => q \in work.failed
          /\ \A p \in work.uploads : \A q \in Twins(p) : work.expect[q] = 0
      BY <1>1, <2>8 DEF NamesInv, ClearedInv
    <3>2. ASSUME NEW p \in t, NEW q \in Twins(p)
          PROVE  work.expect[q] = 0 /\ Delete(q) \notin pending'.queued
      <4>1. q \in Path /\ q \notin work.failed /\ work.expect[q] = 0
        BY <2>2, <3>1, TwinsArePaths
      <4>2. Delete(q) \notin {Upload(r) : r \in b}
        BY <2>2, <4>1, KeyFacts
      <4> QED BY <2>5, <3>1, <4>1, <4>2
    <3> QED BY <1>1, <2>3, <2>6, <2>8, <3>2, FlushStepFacts DEF ClearedInv
  <2> QED BY <2>6, <2>7, <2>8, NamesFrom
<1> QED BY <1>2, <1>3

LEMMA PrepareNames ==
  ASSUME Inv, ServerInv, NamesInv, [Next]_vars, NEW p \in Path, Prepare(p)
  PROVE  NamesInv'
<1>0. TypeInv /\ work \in Run
  BY DEF Inv, TypeInv
<1>1. /\ WorkGoesOn /\ UNCHANGED <<disk, events, pending>> /\ used' = used
      /\ work.pc = "uploading" /\ p \in work.todo /\ work'.pc = work.pc /\ work'.todo = work.todo \ {p}
      /\ work'.expect = work.expect
      /\ work'.sending = work.sending \/ (disk[p] # 0 /\ work'.sending = work.sending \cup {p})
  BY <1>0, PrepareFacts DEF Prepare
<1>2. CASE ~Flushing
  BY <1>1, <1>2, NamesRest DEF WorkGoesOn, Flushing
<1>3. CASE Flushing
  <2> DEFINE t == work.todo \ {p}
             s == work.sending \cup {p}
  <2>1. PICK f \in BOOLEAN : \/ work' = [work EXCEPT !.todo = t, !.failing = f]
                             \/ work' = [work EXCEPT !.todo = t, !.sending = s]
    <3>1. CASE disk[p] = 0 \/ (Flushing /\ disk[p] = base[p])
      <4>1. PICK full \in {FALSE, ~Flushing} : work' = [work EXCEPT !.todo = t, !.failing = @ \/ full]
        BY <3>1 DEF Prepare
      <4> DEFINE g == work.failing \/ full
      <4>2. g \in BOOLEAN /\ work' = [work EXCEPT !.todo = t, !.failing = g]
        BY <1>0, <4>1 DEF Run
      <4> QED BY <4>2
    <3>2. CASE ~(disk[p] = 0 \/ (Flushing /\ disk[p] = base[p]))
      BY <3>2 DEF Prepare
    <3> QED BY <3>1, <3>2
  <2> HIDE DEF t, s
  <2>2. work'.seen = work.seen /\ work'.failed = work.failed
    BY <1>0, <2>1 DEF Run
  <2>3. work'.clash = work.clash
    BY <1>0, <2>1 DEF Run
  <2>4. FlushStep
    BY <1>1, <1>3, <2>2 DEF FlushStep
  <2>5. RefusedInv'
    BY <1>1, <2>2, <2>3, <2>4, RefusedKept
  <2>6. ASSUME Still
        PROVE  ClearedInv'
    <3>1. work'.todo \cup work'.sending \subseteq work.todo \cup work.sending
      BY <1>1
    <3> QED BY <1>1, <2>4, <2>6, <3>1, FlushStepFacts DEF NamesInv, ClearedInv
  <2> QED BY <2>4, <2>5, <2>6, NamesFrom
<1> QED BY <1>2, <1>3

\* What an upload that is over leaves of the names.
LEMMA UploadCleared ==
  ASSUME Inv, ServerInv, NamesInv, FlushStep, Still, work.pc = "uploading", NEW p \in Path,
         work'.pc = work.pc, work'.todo = work.todo, work'.sending = work.sending \ {p}, work'.expect = work.expect,
         pending'.queued \subseteq pending.queued \cup {Upload(p)}
  PROVE  ClearedInv'
<1>1. \A q \in Path : Delete(q) # Upload(p)
  BY KeyFacts
<1>2. work'.todo \cup work'.sending \subseteq work.todo \cup work.sending
  OBVIOUS
<1>3. \A r : Twins(r) \subseteq Path
  BY TwinsArePaths
<1>4. \A r \in work'.todo \cup work'.sending : \A q \in Twins(r) : work'.expect[q] = 0 /\ Delete(q) \notin pending'.queued
  BY <1>1, <1>2, <1>3 DEF NamesInv, ClearedInv
<1>5. \A r \in work'.sending : disk'[r] # 0
  BY DEF NamesInv, ClearedInv, FlushStep
<1> QED BY <1>4, <1>5, FlushStepFacts DEF ClearedInv

LEMMA LoseUploadNames ==
  ASSUME Inv, ServerInv, NamesInv, [Next]_vars, NEW p \in Path, LoseUpload(p)
  PROVE  NamesInv'
<1>0. TypeInv /\ work \in Run
  BY DEF Inv, TypeInv
<1>1. /\ WorkGoesOn /\ UNCHANGED <<disk, events>> /\ work.pc = "uploading" /\ UploadFailed(p, FALSE)
      /\ used'.edits = used.edits /\ used'.foreign = used.foreign
  BY <1>0, LoseUploadFacts, CountsKept DEF LoseUpload
<1>2. CASE ~Flushing
  BY <1>1, <1>2, NamesRest DEF WorkGoesOn, Flushing
<1>3. CASE Flushing
  <2>a. PICK how \in Failures : UploadFails(p, how)
    BY DEF LoseUpload, Failures
  <2>1. work'.seen = work.seen /\ work'.failed = work.failed \cup {p}
    BY <1>0, <2>a, UploadFailsFacts DEF LoseUpload
  <2>2. work'.clash = work.clash
    <3>1. work'.clash = (work.clash \/ how = "namespace") /\ work.clash \in BOOLEAN
      BY <1>0, <2>a, UploadFailsFacts DEF LoseUpload, TypeInv, Run
    <3>2. how # "namespace"
      BY DEF Failures
    <3> QED BY <3>1, <3>2
  <2>3. FlushStep
    BY <1>1, <1>3, <2>1 DEF FlushStep
  <2>4. RefusedInv'
    BY <1>1, <2>1, <2>2, <2>3, RefusedKept DEF UploadFailed
  <2>5. Still => ClearedInv'
    BY <1>1, <1>3, <2>3, UploadCleared DEF UploadFailed
  <2> QED BY <2>3, <2>4, <2>5, NamesFrom
<1> QED BY <1>2, <1>3

LEMMA EndUploadsNames ==
  ASSUME Inv, ServerInv, NamesInv, [Next]_vars, EndUploads
  PROVE  NamesInv'
<1>0. TypeInv /\ work \in Run
  BY DEF Inv, TypeInv
<1>1. WorkGoesOn /\ QuietStep /\ used' = used
  BY <1>0, EndUploadsFacts DEF EndUploads
<1>2. CASE ~Flushing
  BY <1>1, <1>2, NamesRest DEF WorkGoesOn, Flushing
<1>3. CASE Flushing
  <2> DEFINE f == work.failing \/ Deferred # {}
             c == IF work.conflicts # {} THEN work.conflicts \cup {Delete(p) : p \in Deferred} ELSE work.conflicts
             t == Remaining \ Deferred
  <2>1. work' = [work EXCEPT !.pc = "deleting", !.todo = t, !.failing = f, !.uploads = {}, !.conflicts = c]
    BY <1>3 DEF EndUploads, Again
  <2> HIDE DEF f, c, t
  <2>2. work'.pc = "deleting" /\ work'.seen = work.seen /\ work'.failed = work.failed
    BY <1>0, <2>1 DEF Run
  <2>3. work'.clash = work.clash
    BY <1>0, <2>1 DEF Run
  <2> QED BY <1>1, <1>3, <2>2, <2>3, NamesOver DEF FlushStep, QuietStep
<1> QED BY <1>2, <1>3

LEMMA EndDeletesNames ==
  ASSUME Inv, ServerInv, NamesInv, [Next]_vars, EndDeletes
  PROVE  NamesInv'
<1>0. TypeInv /\ work \in Run
  BY DEF Inv, TypeInv
<1>1. WorkGoesOn /\ QuietStep /\ used' = used
  BY <1>0, EndDeletesFacts DEF EndDeletes
<1>2. CASE ~Flushing
  BY <1>1, <1>2, NamesRest DEF WorkGoesOn, Flushing
<1>3. CASE Flushing
  <2>1. work' = [work EXCEPT !.pc = "saving"]
    BY <1>3 DEF EndDeletes, Again, Moves
  <2>2. work'.pc = "saving" /\ work'.seen = work.seen /\ work'.failed = work.failed
    BY <1>0, <2>1 DEF Run
  <2>3. work'.clash = work.clash
    BY <1>0, <2>1 DEF Run
  <2> QED BY <1>1, <1>3, <2>2, <2>3, NamesOver DEF FlushStep, QuietStep
<1> QED BY <1>2, <1>3

\* While nothing changes, a twin the server still has was renamed while nothing ran.
LEMMA TwinWasOwed ==
  ASSUME Inv, ServerInv, NamesInv, Still, work.pc = "uploading", NEW p \in work.sending, NEW q \in Twins(p),
         server[q] # 0
  PROVE  q \in owed
<1>1. p \in Path /\ q \in Path /\ used.foreign = 0 /\ Flushing
  BY TwinsArePaths DEF Inv, TypeInv, Run, Still
<1>2. disk[p] # 0 /\ work.expect[q] = 0 /\ Delete(q) \notin pending.queued /\ events = <<>>
  BY DEF NamesInv, ClearedInv
<1>3. disk[q] = 0 /\ KeyFor(q) = Delete(q)
  BY <1>1, <1>2 DEF NamesInv, NamesApart, KeyFor
<1>4. gate = "open" /\ recorded = {}
  BY <1>1 DEF Flushing, Inv, GateInv
<1>5. ~Coming(q)
  BY <1>2 DEF Coming, Sent
<1>6. CASE Landed(q)
  <2>1. journal[q] # None /\ journal[q].hash # disk[q]
    BY <1>1, <1>3, <1>6 DEF ServerInv, ServerKnown, Known, Landed
  <2>2. Safe(q)
    BY <1>1, <1>4, <2>1 DEF Inv, WorkInv, JournalInv
  <2> QED BY <1>2, <1>3, <1>4, <1>5, <2>2 DEF Safe
<1>7. CASE ~Landed(q)
  <2>1. disk[q] # base[q]
    BY <1>1, <1>3, <1>7 DEF ServerInv, ServerKnown, Known
  <2>2. Held(q) \/ FlushHas(q)
    BY <1>1, <1>4, <2>1 DEF Inv, WorkInv, KeyInv
  <2>3. ~FlushHas(q)
    BY <1>2, <1>3 DEF FlushHas
  <2> QED BY <1>2, <1>3, <1>4, <1>5, <2>2, <2>3 DEF Held
<1> QED BY <1>6, <1>7

LEMMA SendUploadNames ==
  ASSUME Inv, ServerInv, NamesInv, [Next]_vars, NEW p \in Path, SendUpload(p)
  PROVE  NamesInv'
<1>0. TypeInv /\ work \in Run
  BY DEF Inv, TypeInv
<1>1. /\ WorkGoesOn /\ UNCHANGED <<disk, events>> /\ used' = used /\ work.pc = "uploading" /\ p \in work.sending
      /\ work'.pc = work.pc /\ work'.todo = work.todo /\ work'.sending = work.sending \ {p}
      /\ work'.expect = work.expect
  BY <1>0, SendUploadFacts DEF UploadFailed, SendUpload
<1>2. CASE ~Flushing
  BY <1>1, <1>2, NamesRest DEF WorkGoesOn, Flushing
<1>3. ASSUME Flushing, NEW how \in {"namespace", "conflict"}, UploadFails(p, how), how = "namespace" => ~Fits(p)
      PROVE  NamesInv'
  <2>1. work'.seen = work.seen /\ work'.failed = work.failed \cup {p}
    BY <1>0, <1>3, UploadFailsFacts DEF SendUpload
  <2>2. work'.clash => work.clash \/ how = "namespace"
    BY <1>0, <1>3, UploadFailsFacts DEF SendUpload
  <2>3. FlushStep
    BY <1>1, <1>3, <2>1 DEF FlushStep
  <2>4. Still => ClearedInv'
    <3>1. pending'.queued = pending.queued \cup {Upload(p)}
      <4>1. pending' = [pending EXCEPT !.queued = @ \cup {Upload(p)}] /\ pending \in PendingSet
        BY <1>0, <1>3 DEF UploadFails, TypeInv, QueueTyped
      <4> QED BY <4>1 DEF PendingSet
    <3> QED BY <1>1, <2>3, <3>1, UploadCleared
  <2>5. Unknown => Unknown'
    BY <2>1, <2>3, FlushStepFacts DEF Unknown, FlushStep
  <2>6. how = "namespace" => Unknown'
    <3> SUFFICES ASSUME how = "namespace" PROVE Unknown'
      OBVIOUS
    <3>1. CASE ~Still
      <4>1. used.edits \in Nat /\ used.foreign \in Nat /\ work.seen \in Int
        BY <1>0 DEF TypeInv, CountsTyped, Run
      <4>2. used.edits > work.seen \/ used.foreign > 0
        BY <1>3, <3>1, <4>1 DEF Still
      <4> QED BY <2>5, <4>2 DEF Unknown
    <3>2. CASE Still
      <4>1. PICK q \in Twins(p) : server[q] # 0
        BY <1>3 DEF Fits
      <4>2. q \in owed /\ q \in Path
        BY <1>1, <3>2, <4>1, TwinWasOwed, TwinsArePaths
      <4>3. p \in Twins(q) /\ p \in work'.failed
        BY <2>1, <4>1, <4>2, TwinFacts
      <4>4. owed' = owed
        BY <2>3, FlushStepFacts
      <4> QED BY <4>2, <4>3, <4>4 DEF Unknown
    <3> QED BY <3>1, <3>2
  <2>7. RefusedInv'
    BY <1>1, <2>2, <2>5, <2>6, <1>3 DEF NamesInv, RefusedInv
  <2> QED BY <2>3, <2>4, <2>7, NamesFrom
<1>4. CASE Flushing /\ work' = [work EXCEPT !.sending = @ \ {p}, !.settled = @ \cup KeysOf(p, Upload(p))] /\ UNCHANGED pending
  <2> DEFINE s == work.sending \ {p}
             k == work.settled \cup KeysOf(p, Upload(p))
  <2>1. work' = [work EXCEPT !.sending = s, !.settled = k]
    BY <1>4
  <2> HIDE DEF s, k
  <2>2. work'.seen = work.seen /\ work'.failed = work.failed
    BY <1>0, <2>1 DEF Run
  <2>3. work'.clash = work.clash
    BY <1>0, <2>1 DEF Run
  <2>4. FlushStep
    BY <1>1, <1>4, <2>2 DEF FlushStep
  <2>5. RefusedInv'
    BY <1>1, <2>2, <2>3, <2>4, RefusedKept
  <2>6. Still => ClearedInv'
    BY <1>1, <1>4, <2>4, UploadCleared
  <2> QED BY <2>4, <2>5, <2>6, NamesFrom
<1> QED BY <1>2, <1>3, <1>4 DEF SendUpload

LEMMA NamesInit ==
  ASSUME Init
  PROVE  NamesInv
<1>1. disk = [p \in Path |-> IF p = Stored THEN 1 ELSE 0] /\ work = Idle
  BY DEF Init
<1>2. NamesApart
  <2> SUFFICES ASSUME NEW p \in Path, disk[p] # 0, NEW q \in Twins(p) PROVE disk[q] = 0
    BY DEF NamesApart
  <2>1. p = Stored /\ q \in Path /\ q # p
    BY <1>1, TwinFacts, TwinsArePaths
  <2> QED BY <1>1, <2>1
<1> QED BY <1>1, <1>2, IdleFacts DEF NamesInv, SeenInv, ClearedInv, RefusedInv, Still, Flushing

LEMMA NamesNext ==
  ASSUME Inv, ServerInv, NamesInv, [Next]_vars
  PROVE  NamesInv'
<1>1. CASE User \/ Verification \/ Deliver \/ Record \/ BeginFlush \/ PeriodicSync \/ Start \/ EndApplied
           \/ (\E r \in reports : EndReport(r)) \/ (\E p \in Path : Foreign(p)) \/ UNCHANGED vars
  BY <1>1, AroundNames
<1>2. CASE Faults
  <2>1. CASE Stop
    BY <2>1, AroundNames
  <2>2. CASE RecoverFails \/ ScanFails \/ LoseDeletes
    BY <2>2, RecoverFailsNames, ScanningNames, LoseDeletesNames
  <2>3. ASSUME NEW p \in Path, LoseUpload(p)
        PROVE  NamesInv'
    BY <2>3, LoseUploadNames
  <2> QED BY <1>2, <2>1, <2>2, <2>3 DEF Faults
<1>3. CASE Work
  <2>1. CASE Plan \/ EndScan \/ CheckDeletes \/ SendDeletes
    BY <2>1, PlanNames, ScanningNames, CheckDeletesNames, SendDeletesNames
  <2>2. CASE EndClearing \/ EndUploads \/ EndDeletes
    BY <2>2, EndClearingNames, EndUploadsNames, EndDeletesNames
  <2>3. CASE EndFlush \/ EndSync \/ \E p \in Path : Recover(p)
    BY <2>3, AroundNames
  <2>4. CASE \E p \in Path : Scan(p) \/ Missed(p)
    BY <2>4, ScanningNames
  <2>5. ASSUME NEW p \in Path, Prepare(p) \/ SendUpload(p)
        PROVE  NamesInv'
    BY <2>5, PrepareNames, SendUploadNames
  <2> QED BY <1>3, <2>1, <2>2, <2>3, <2>4, <2>5 DEF Work
<1> QED BY <1>1, <1>2, <1>3 DEF Next

LEMMA NamesHold == Spec => [](ServerInv /\ NamesInv)
<1>1. Init => ServerInv /\ NamesInv
  BY ServerInit, NamesInit
<1>2. Inv /\ ServerInv /\ NamesInv /\ [Next]_vars => ServerInv' /\ NamesInv'
  BY ServerNext, NamesNext
<1> QED BY <1>1, <1>2, InvariantHolds, PTL DEF Spec

(* While no other device writes, the server holds for each file what the baseline says or nothing,
   or the bytes of an upload whose answer was lost and which the journal still holds: so whoever
   finds an unknown file there has lost an answer, or another device wrote it
   (sync/durability/durable-uploads.ts, sync/transfer/upload.ts, sync/transfer/delete.ts). *)
THEOREM ServerIsKnown == Spec => []ServerKnown
<1>1. ServerInv => ServerKnown
  BY DEF ServerInv
<1> QED BY <1>1, NamesHold, PTL

(* A flush of a rename that only changes the case of a name is refused only for a change made
   since it began, on this device or another, or for the old name of a file renamed while nothing
   ran: its delete goes first, and an upload whose delete failed waits
   (sync/queue/delete-plan.ts, sync/queue/flush.ts). *)
THEOREM VariantsNeverRefused == Spec => []NoVariantRefused
<1>1. NamesInv => NoVariantRefused
  BY DEF NamesInv, RefusedInv, Unknown, NoVariantRefused
<1> QED BY <1>1, NamesHold, PTL

=============================================================================
