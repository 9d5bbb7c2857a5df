--------------------- MODULE FileStoreOperationProofs ---------------------
(* What clients are promised about their operations, for every number of       *)
(* retries, clock movements and prunings, and of the names that are live.      *)
EXTENDS FileStoreSafetyProofs

(***************************************************************************)
(* Why an operation takes effect at most once: its receipt stays until the  *)
(* persisted floor has passed its day, and from then on every batch that     *)
(* carries it aborts, whatever the clock says.                               *)
(***************************************************************************)
\* From these steps on an attempt knows what it will answer, unless a call fails.
Ended == {"bytes", "discard", "sweeping", "answered"}

\* An operation ID stands for one request, and an attempt carries the request of its ID.
RequestsBound ==
  /\ \A o \in Op : request[o] # None => request[o].op = o
  /\ \A a \in Upload : pc[a] # "idle" /\ job[a].op # NoOp => request[job[a].op] = job[a]

\* The receipt names the revision that its operation published.
ReceiptsReal ==
  \A o \in Op : receipts[o] \in Upload => receipts[o] \in Published /\ job[receipts[o]] = request[o]

\* A published operation has its receipt, or is too old for ever.
PublishedReceipted ==
  \A k \in Published : job[k].op # NoOp =>
    receipts[job[k].op] = k \/ (receipts[job[k].op] = None /\ request[job[k].op].day < floor)

\* An operation is closed when it was refused, or is too old for ever, without a revision.
Closed(o) ==
  /\ receipts[o] = Rejected \/ (receipts[o] = None /\ request[o].day < floor)
  /\ \A k \in Published : job[k].op # o

ConflictsClosed ==
  \A a \in Upload : pc[a] \in Ended /\ answer[a] = Conflict /\ job[a].op # NoOp => Closed(job[a].op)

AnswersReal ==
  \A a \in Upload : pc[a] \in Ended /\ answer[a] \in Upload =>
    /\ answer[a] \in Published
    /\ job[answer[a]].path = job[a].path /\ job[answer[a]].hash = job[a].hash

OperationInv ==
  /\ RequestsBound /\ ReceiptsReal /\ PublishedReceipted /\ OperationAppliedOnce
  /\ ConflictsClosed /\ AnswersReal

-----------------------------------------------------------------------------

\* Nothing is published or refused at first.
LEMMA OperationInit == Init => OperationInv
<1> SUFFICES ASSUME Init PROVE OperationInv
  OBVIOUS
<1>1. Published = {}
  BY DEF Init, Published
<1>2. RequestsBound /\ ReceiptsReal
  BY MarkerAssumption DEF Init, RequestsBound, ReceiptsReal
<1>3. PublishedReceipted /\ OperationAppliedOnce /\ ConflictsClosed /\ AnswersReal
  BY <1>1 DEF Init, PublishedReceipted, OperationAppliedOnce, ConflictsClosed, AnswersReal, Ended
<1>4. QED
  BY <1>2, <1>3 DEF OperationInv

\* A step that decides no operation and answers no attempt.
LEMMA OperationQuiet ==
  ASSUME TypeInv, OperationInv,
         UNCHANGED <<request, receipts, floor, job, answer>>, Published' = Published,
         \A k \in Upload : \/ pc'[k] = pc[k]
                           \/ pc[k] # "idle" /\ (pc'[k] \in Ended => pc[k] \in Ended)
  PROVE  OperationInv'
<1>1. RequestsBound' /\ ReceiptsReal' /\ PublishedReceipted' /\ OperationAppliedOnce'
  BY DEF OperationInv, RequestsBound, ReceiptsReal, PublishedReceipted, OperationAppliedOnce
<1>2. ConflictsClosed' /\ AnswersReal'
  BY DEF OperationInv, ConflictsClosed, AnswersReal, Closed
<1>3. QED
  BY <1>1, <1>2 DEF OperationInv

\* A step that answers one attempt, and decides no operation.
LEMMA OperationAnswered ==
  ASSUME TypeInv, OperationInv, NEW a \in Upload,
         UNCHANGED <<request, receipts, floor, changelog>>,
         \A b \in Upload \ {a} : pc'[b] = pc[b] /\ job'[b] = job[b] /\ answer'[b] = answer[b],
         \/ job'[a] = job[a] /\ pc[a] # "idle"
         \/ a \notin Published /\ (job'[a].op # NoOp => request[job'[a].op] = job'[a]),
         pc'[a] \in Ended /\ answer'[a] = Conflict /\ job'[a].op # NoOp => Closed(job'[a].op),
         pc'[a] \in Ended /\ answer'[a] \in Upload =>
           /\ answer'[a] \in Published /\ (job'[a] = job[a] \/ answer'[a] # a)
           /\ job[answer'[a]].path = job'[a].path /\ job[answer'[a]].hash = job'[a].hash
  PROVE  OperationInv'
<1>1. Published' = Published /\ Published \subseteq Upload
  BY SameReferences, PublishedFacts
<1>2. \A k \in Published : job'[k] = job[k]
  BY <1>1
<1>3. RequestsBound'
  BY DEF OperationInv, RequestsBound
<1>4. ReceiptsReal' /\ PublishedReceipted' /\ OperationAppliedOnce'
  BY <1>1, <1>2 DEF OperationInv, ReceiptsReal, PublishedReceipted, OperationAppliedOnce
<1>5. \A o : Closed(o) => Closed(o)'
  BY <1>1, <1>2 DEF Closed
<1>6. ConflictsClosed'
  BY <1>5 DEF OperationInv, ConflictsClosed
<1>7. AnswersReal'
  BY <1>1, <1>2 DEF OperationInv, AnswersReal
<1>8. QED
  BY <1>3, <1>4, <1>6, <1>7 DEF OperationInv

\* A refused operation has no revision, whichever attempt hears of it.
LEMMA ReceiptClosed ==
  ASSUME TypeInv, OperationInv, NEW o \in Op
  PROVE  /\ receipts[o] = Rejected => Closed(o)
         /\ receipts[o] \in Upload => receipts[o] \in Published /\ job[receipts[o]] = request[o]
<1>1. receipts[o] = Rejected => \A k \in Published : job[k].op # o
  BY MarkerAssumption, PublishedFacts DEF OperationInv, PublishedReceipted
<1>2. QED
  BY <1>1 DEF OperationInv, ReceiptsReal, Closed

\* An attempt whose batch may record a receipt belongs to an operation that
\* nobody has published or refused.
LEMMA OpenUnpublished ==
  ASSUME TypeInv, OperationInv, NEW a \in Upload,
         pc[a] = "staged", ~Aborts(a), job[a].op # NoOp, receipts[job[a].op] = None
  PROVE  /\ job[a].op \in Op /\ job[a] \in Request /\ request[job[a].op] = job[a]
         /\ floor <= job[a].day
         /\ \A k \in Published : job[k].op # job[a].op
         /\ ~Closed(job[a].op)
<1>1. job[a] \in Request /\ job[a].op \in Op /\ request[job[a].op] = job[a] /\ job[a].day \in Int
  BY AttemptFacts, NumberAssumption DEF JobsFixed, Request, Day, OperationInv, RequestsBound
<1>2. floor <= job[a].day
  <2>1. floor \in Int /\ now \in Int /\ RetryDays \in Int
    BY NumberAssumption DEF TypeInv, TypeOK, Day
  <2>2. QED
    BY <1>1, <2>1 DEF Aborts, Valid, OperationFloor, Larger
<1>3. floor \in Int
  BY NumberAssumption DEF TypeInv, TypeOK, Day
<1>4. ~(request[job[a].op].day < floor)
  BY <1>1, <1>2, <1>3
<1>5. \A k \in Published : job[k].op # job[a].op
  BY <1>1, <1>4, MarkerAssumption, PublishedFacts DEF OperationInv, PublishedReceipted
<1>6. ~Closed(job[a].op)
  BY <1>4, MarkerAssumption DEF Closed
<1>7. QED
  BY <1>1, <1>2, <1>5, <1>6

\* Fixing what an operation stands for touches no decided one.
LEMMA OperationSubmit == ASSUME TypeInv, OperationInv, NEW r, r \in Request, Submit(r), r.op \in Op PROVE OperationInv'
<1>1. /\ request[r.op] = None /\ request' = [request EXCEPT ![r.op] = r] /\ Published' = Published
      /\ UNCHANGED <<receipts, floor, job, pc, answer>>
  BY SameReferences DEF Submit, d1, attempts
<1>2. \A a \in Upload : pc[a] # "idle" /\ job[a].op # NoOp => job[a].op \in Op /\ job[a].op # r.op
  BY <1>1, MarkerAssumption, AttemptFacts DEF JobsFixed, Request, OperationInv, RequestsBound
<1>3. \A k \in Published : job[k].op # NoOp => request'[job[k].op] = request[job[k].op] /\ job[k].op # r.op
  BY <1>1, <1>2, AttemptFacts, PublishedFacts DEF PublishedAnswered
<1>4. RequestsBound'
  BY <1>1, <1>2, AttemptFacts DEF OperationInv, RequestsBound
<1>5. ReceiptsReal'
  <2>1. \A o \in Op : receipts[o] \in Upload => o # r.op
    BY <1>1, MarkerAssumption, AttemptFacts, PublishedFacts
       DEF OperationInv, ReceiptsReal, PublishedAnswered, JobsFixed
  <2>2. QED
    BY <1>1, <2>1, AttemptFacts DEF OperationInv, ReceiptsReal
<1>6. PublishedReceipted' /\ OperationAppliedOnce'
  BY <1>1, <1>3 DEF OperationInv, PublishedReceipted, OperationAppliedOnce
<1>7. ConflictsClosed' /\ AnswersReal'
  <2>1. \A o \in Op \ {r.op} : Closed(o) => Closed(o)'
    BY <1>1, AttemptFacts DEF Closed
  <2>2. QED
    BY <1>1, <1>2, <2>1 DEF OperationInv, ConflictsClosed, AnswersReal, Ended
<1>8. QED
  BY <1>4, <1>5, <1>6, <1>7 DEF OperationInv

\* An attempt that begins, or answers a retry from its receipt, keeps OperationInv.
LEMMA OperationBegin == ASSUME TypeInv, OperationInv, NEW a \in Upload, NEW o \in Op, Begin(a, o) PROVE OperationInv'
<1>1. /\ pc[a] = "idle" /\ request[o] # None /\ request[o].op = o /\ a \notin Published
      /\ job' = [job EXCEPT ![a] = request[o]]
      /\ UNCHANGED <<request, receipts, floor, changelog>>
  BY PublishedFacts DEF Begin, d1, OperationInv, RequestsBound, PublishedAnswered
<1>2. \A b \in Upload \ {a} : pc'[b] = pc[b] /\ job'[b] = job[b] /\ answer'[b] = answer[b]
  BY AttemptFacts DEF Begin, Respond
<1>3. job'[a] = request[o]
  BY <1>1, AttemptFacts
<1>4. \/ pc'[a] \notin Ended
      \/ answer'[a] = Outdated
      \/ answer'[a] = Conflict /\ receipts[o] = Rejected
      \/ answer'[a] = receipts[o] /\ receipts[o] \notin {Rejected, None}
  BY AttemptFacts DEF Begin, Respond, Ended
<1>5. receipts[o] = Rejected => Closed(o)
  BY ReceiptClosed
<1>6. receipts[o] \in Upload => receipts[o] \in Published /\ job[receipts[o]] = request[o]
  BY ReceiptClosed
<1>7. receipts[o] \notin {Rejected, None} => receipts[o] \in Upload /\ receipts[o] # Conflict
  BY AttemptFacts, MarkerAssumption
<1>8. pc'[a] \in Ended /\ answer'[a] = Conflict => Closed(o)
  BY <1>4, <1>5, <1>7 DEF Conflict, Outdated
<1>9. pc'[a] \in Ended /\ answer'[a] \in Upload =>
        /\ answer'[a] \in Published /\ answer'[a] # a
        /\ job[answer'[a]] = request[o]
  BY <1>1, <1>4, <1>6, MarkerAssumption
<1>10. QED
  BY <1>1, <1>2, <1>3, <1>8, <1>9, OperationAnswered

\* A note write carries no operation.
LEMMA OperationBeginNote == ASSUME TypeInv, OperationInv, NEW a \in Upload, NEW r \in NoteRequests, BeginNote(a, r) PROVE OperationInv'
<1>1. /\ pc[a] = "idle" /\ r.op = NoOp /\ a \notin Published
      /\ job' = [job EXCEPT ![a] = r] /\ pc' = [pc EXCEPT ![a] = "begun"]
      /\ UNCHANGED <<request, receipts, floor, changelog, answer>>
  BY PublishedFacts DEF BeginNote, d1, PublishedAnswered, NoteRequests
<1>2. job'[a] = r /\ pc'[a] = "begun" /\ \A b \in Upload \ {a} : pc'[b] = pc[b] /\ job'[b] = job[b]
  BY <1>1, AttemptFacts
<1>3. QED
  BY <1>1, <1>2, OperationAnswered DEF Ended

\* An attempt that ends without an outcome decides nothing.
LEMMA OperationUnknown ==
  ASSUME TypeInv, OperationInv, NEW a \in Upload, pc[a] # "idle", Respond(a, Unknown),
         UNCHANGED <<request, receipts, floor, changelog, job>>
  PROVE  OperationInv'
<1>1. /\ \A b \in Upload \ {a} : pc'[b] = pc[b] /\ job'[b] = job[b] /\ answer'[b] = answer[b]
      /\ answer'[a] = Unknown
  BY AttemptFacts DEF Respond
<1>2. Unknown \notin Upload /\ Unknown # Conflict
  BY MarkerAssumption DEF Unknown, Conflict
<1>3. UNCHANGED <<request, receipts, floor, changelog>>
  OBVIOUS
<1>4. job'[a] = job[a] /\ pc[a] # "idle"
  OBVIOUS
<1>5. QED
  BY <1>1, <1>2, <1>3, <1>4, OperationAnswered

\* An answer read from a receipt agrees with it.
LEMMA OperationReadReceipt == ASSUME TypeInv, OperationInv, NEW a \in Upload, ReadReceipt(a) PROVE OperationInv'
<1> DEFINE o == job[a].op
<1>1. /\ pc[a] = "reread" /\ o # NoOp /\ a \notin Published
      /\ UNCHANGED <<request, receipts, floor, changelog, job>>
  BY PublishedFacts DEF ReadReceipt, d1, PublishedAnswered
<1>2. o \in Op /\ request[o] = job[a]
  BY <1>1, AttemptFacts DEF JobsFixed, Request, OperationInv, RequestsBound
<1>3. CASE receipts[o] = None
  BY <1>1, <1>3, OperationUnknown DEF ReadReceipt
<1>4. CASE receipts[o] # None
  <2>1. /\ \A b \in Upload \ {a} : pc'[b] = pc[b] /\ job'[b] = job[b] /\ answer'[b] = answer[b]
        /\ answer'[a] = IF receipts[o] = Rejected THEN Conflict ELSE receipts[o]
    BY <1>1, <1>4, AttemptFacts DEF ReadReceipt
  <2>2. receipts[o] # Rejected => receipts[o] \in Upload /\ receipts[o] # Conflict
    BY <1>2, <1>4, AttemptFacts, MarkerAssumption
  <2>3. /\ receipts[o] = Rejected => Closed(o)
        /\ receipts[o] \in Upload => receipts[o] \in Published /\ job[receipts[o]] = job[a]
    BY <1>2, ReceiptClosed
  <2>4. answer'[a] = Conflict => Closed(o)
    BY <2>1, <2>2, <2>3
  <2>5. answer'[a] \in Upload => answer'[a] \in Published /\ job[answer'[a]] = job[a]
    BY <2>1, <2>2, <2>3, MarkerAssumption
  <2>6. job'[a] = job[a]
    BY <1>1
  <2>7. QED
    BY <1>1, <2>1, <2>4, <2>5, <2>6, OperationAnswered
<1>5. QED
  BY <1>3, <1>4

\* The live revision whose content a note finds is one published at its path.
LEMMA OperationReadNames == ASSUME TypeInv, OperationInv, NEW a \in Upload, ReadNames(a) PROVE OperationInv'
<1>1. /\ pc[a] = "reread" /\ job[a].op = NoOp
      /\ UNCHANGED <<request, receipts, floor, changelog, job>>
  BY DEF ReadNames, d1
<1>2. CASE pc' = [pc EXCEPT ![a] = "row"] /\ answer' = answer
  BY <1>1, <1>2, AttemptFacts, SameReferences, OperationQuiet DEF Ended
<1>3. CASE pc' = [pc EXCEPT ![a] = "discard"] /\ answer' = [answer EXCEPT ![a] = Conflict]
  <2>1. /\ \A b \in Upload \ {a} : pc'[b] = pc[b] /\ job'[b] = job[b] /\ answer'[b] = answer[b]
        /\ answer'[a] = Conflict /\ job'[a] = job[a]
    BY <1>1, <1>3, AttemptFacts
  <2>2. Conflict \notin Upload
    BY MarkerAssumption
  <2> QED BY <1>1, <2>1, <2>2, OperationAnswered
<1> QED BY <1>2, <1>3 DEF ReadNames

LEMMA OperationReadRow == ASSUME TypeInv, KeyInv, OperationInv, NEW a \in Upload, ReadRow(a) PROVE OperationInv'
<1>1. /\ pc[a] = "row" /\ job[a] \in Request /\ job[a].op = NoOp
      /\ UNCHANGED <<request, receipts, floor, changelog, job>>
  BY AttemptFacts DEF ReadRow, d1, JobsFixed
<1>2. Target(a) # Absent => Target(a) \in Published /\ job[Target(a)].path = job[a].path
  BY <1>1 DEF Target, Request, KeyInv, ReferencesPublished
<1>3. /\ \A b \in Upload \ {a} : pc'[b] = pc[b] /\ job'[b] = job[b] /\ answer'[b] = answer[b]
      /\ \/ answer'[a] = Conflict
         \/ answer'[a] = Target(a) /\ Target(a) # Absent /\ job[Target(a)].hash = job[a].hash
  BY <1>1, AttemptFacts DEF ReadRow
<1>4. answer'[a] \in Upload =>
        /\ answer'[a] \in Published
        /\ job[answer'[a]].path = job[a].path /\ job[answer'[a]].hash = job[a].hash
  BY <1>2, <1>3, MarkerAssumption
<1>5. job'[a] = job[a]
  BY <1>1
<1> QED BY <1>1, <1>3, <1>4, <1>5, OperationAnswered

\* Its answer stands once the object was read, or the request fails.
LEMMA OperationReadBytes == ASSUME TypeInv, OperationInv, NEW a \in Upload, ReadBytes(a) PROVE OperationInv'
<1>1. pc[a] = "bytes" /\ UNCHANGED <<request, receipts, floor, changelog, job>>
  BY DEF ReadBytes, d1
<1>2. CASE Respond(a, Unknown)
  BY <1>1, <1>2, OperationUnknown
<1>3. CASE pc' = [pc EXCEPT ![a] = "discard"] /\ answer' = answer
  BY <1>1, <1>3, AttemptFacts, SameReferences, OperationQuiet DEF Ended
<1> QED BY <1>2, <1>3 DEF ReadBytes

\* A recorded refusal closes the operation.
LEMMA OperationRefuse == ASSUME TypeInv, OperationInv, NEW a \in Upload, Refuse(a) PROVE OperationInv'
<1> DEFINE o == job[a].op
<1>1. /\ pc[a] = "staged" /\ ~Aborts(a) /\ o # NoOp /\ receipts[o] = None
      /\ receipts' = [receipts EXCEPT ![o] = Rejected]
      /\ pc' = [pc EXCEPT ![a] = "discard"] /\ answer' = [answer EXCEPT ![a] = Conflict]
      /\ UNCHANGED <<request, floor, job>> /\ Published' = Published
  BY SameReferences DEF Refuse
<1>2. /\ o \in Op /\ \A k \in Published : job[k].op # o
      /\ ~Closed(o)
  BY <1>1, OpenUnpublished
<1>3. RequestsBound'
  BY <1>1, AttemptFacts DEF OperationInv, RequestsBound
<1>4. ReceiptsReal'
  BY <1>1, <1>2, AttemptFacts, MarkerAssumption DEF OperationInv, ReceiptsReal
<1>5. PublishedReceipted' /\ OperationAppliedOnce'
  <2>1. \A k \in Published : job[k].op # NoOp => receipts'[job[k].op] = receipts[job[k].op]
    BY <1>1, <1>2, AttemptFacts, PublishedFacts DEF PublishedAnswered, JobsFixed, Request
  <2>2. QED
    BY <1>1, <2>1 DEF OperationInv, PublishedReceipted, OperationAppliedOnce
<1>6. Closed(o)' /\ \A p \in Op : Closed(p) => Closed(p)'
  BY <1>1, <1>2, AttemptFacts DEF Closed
<1>7. ConflictsClosed'
  BY <1>1, <1>6, AttemptFacts DEF OperationInv, ConflictsClosed, JobsFixed, Request, Ended
<1>8. AnswersReal'
  BY <1>1, AttemptFacts, MarkerAssumption DEF OperationInv, AnswersReal, Ended
<1>9. QED
  BY <1>3, <1>4, <1>5, <1>7, <1>8 DEF OperationInv

\* A publication decides its operation and leaves a receipt.
LEMMA OperationPublish == ASSUME TypeInv, OperationInv, NEW a \in Upload, Publish(a) PROVE OperationInv'
<1> DEFINE o == job[a].op
<1>1. /\ pc[a] = "staged" /\ ~Aborts(a) /\ (o # NoOp => receipts[o] = None)
      /\ receipts' = IF o = NoOp THEN receipts ELSE [receipts EXCEPT ![o] = a]
      /\ pc' = [pc EXCEPT ![a] = "answered"] /\ answer' = [answer EXCEPT ![a] = a]
      /\ UNCHANGED <<request, floor, job>>
  BY DEF Publish, CanPublish, Respond
<1>2. job[a] \in Request
  BY <1>1, AttemptFacts DEF JobsFixed
<1>3. Published' = Published \cup {a}
  BY <1>2, PublishedAppend, MarkerAssumption DEF Publish, TypeInv, Request
<1>4. o # NoOp => /\ o \in Op /\ request[o] = job[a]
                  /\ \A k \in Published : job[k].op # o
                  /\ ~Closed(o)
  BY <1>1, OpenUnpublished
<1>5. RequestsBound'
  BY <1>1, AttemptFacts DEF OperationInv, RequestsBound
<1>6. ReceiptsReal'
  BY <1>1, <1>3, <1>4, AttemptFacts DEF OperationInv, ReceiptsReal
<1>7. PublishedReceipted' /\ OperationAppliedOnce'
  <2>1. \A k \in Published : job[k].op # NoOp => receipts'[job[k].op] = receipts[job[k].op]
    BY <1>1, <1>4, AttemptFacts, PublishedFacts DEF PublishedAnswered, JobsFixed, Request
  <2>2. o # NoOp => receipts'[o] = a
    BY <1>1, <1>4, AttemptFacts
  <2>3. QED
    BY <1>1, <1>3, <1>4, <2>1, <2>2 DEF OperationInv, PublishedReceipted, OperationAppliedOnce
<1>8. \A p \in Op : Closed(p) => Closed(p)' /\ p # o
  <2>1. ASSUME NEW p \in Op, Closed(p) PROVE p # o
    BY <1>4, <2>1, MarkerAssumption
  <2>2. ASSUME NEW p \in Op, Closed(p), p # o PROVE Closed(p)'
    BY <1>1, <1>3, <2>2, AttemptFacts DEF Closed
  <2>3. QED
    BY <2>1, <2>2
<1>9. ConflictsClosed'
  BY <1>1, <1>8, AttemptFacts, MarkerAssumption DEF OperationInv, ConflictsClosed, JobsFixed, Request, Ended
<1>10. AnswersReal'
  BY <1>1, <1>3, AttemptFacts DEF OperationInv, AnswersReal, Ended
<1>11. QED
  BY <1>5, <1>6, <1>7, <1>9, <1>10 DEF OperationInv

\* A pruned receipt's day is below the floor that is published with the pruning.
LEMMA OperationPruneReceipts == ASSUME TypeInv, OperationInv, PruneReceipts PROVE OperationInv'
<1>1. PICK pruned \in SUBSET {o \in Op : receipts[o] # None /\ request[o].day < OperationFloor} :
        receipts' = [o \in Op |-> IF o \in pruned THEN None ELSE receipts[o]]
  BY DEF PruneReceipts
<1>2. /\ floor' = OperationFloor /\ UNCHANGED <<request, job, pc, answer>> /\ Published' = Published
  BY SameReferences DEF PruneReceipts, attempts
<1>3. floor \in Int /\ floor' \in Int /\ floor <= floor'
  BY <1>2, NumberAssumption DEF TypeInv, TypeOK, Day, OperationFloor, Larger
<1>4. \A o \in Op : \/ receipts'[o] = receipts[o]
                    \/ receipts'[o] = None /\ request[o].day < floor'
  BY <1>1, <1>2
<1>5. \A a \in Upload : pc[a] # "idle" /\ job[a].op # NoOp => job[a].op \in Op /\ request[job[a].op].day \in Int
  BY AttemptFacts, NumberAssumption DEF JobsFixed, Request, Day, OperationInv, RequestsBound
<1>6. RequestsBound'
  BY <1>2 DEF OperationInv, RequestsBound
<1>7. ReceiptsReal'
  BY <1>2, <1>4, MarkerAssumption DEF OperationInv, ReceiptsReal
<1>8. PublishedReceipted' /\ OperationAppliedOnce'
  BY <1>2, <1>3, <1>4, <1>5, PublishedFacts
     DEF OperationInv, PublishedReceipted, PublishedAnswered, OperationAppliedOnce
<1>9. \A o \in Op : request[o].day \in Int /\ Closed(o) => Closed(o)'
  BY <1>2, <1>3, <1>4 DEF Closed
<1>10. ConflictsClosed' /\ AnswersReal'
  BY <1>2, <1>5, <1>9 DEF OperationInv, ConflictsClosed, AnswersReal, Ended
<1>11. QED
  BY <1>6, <1>7, <1>8, <1>10 DEF OperationInv

\* Every step keeps OperationInv.
LEMMA OperationStep == TypeInv /\ KeyInv /\ OperationInv /\ [Next]_vars => OperationInv'
<1> SUFFICES ASSUME TypeInv, KeyInv, OperationInv, [Next]_vars PROVE OperationInv'
  OBVIOUS
<1> USE SameReferences DEF d1, r2, attempts
<1>1. ASSUME NEW r \in UploadRequests \cup RestoreRequests, Submit(r) PROVE OperationInv'
  BY <1>1, OperationSubmit, RequestsTyped DEF UploadRequests, RestoreRequests
<1>2. ASSUME MoveClock PROVE OperationInv'
  BY <1>2, OperationQuiet DEF MoveClock
<1>3. ASSUME NEW k \in Upload, LeaseAges(k) \/ VersionAges(k) \/ PutLands(k) PROVE OperationInv'
  BY <1>3, OperationQuiet DEF LeaseAges, VersionAges, PutLands
<1>4. ASSUME NEW d \in Deletion, NEW k, LoadDeletion(d, k) \/ RecheckDeletion(d) PROVE OperationInv'
  BY <1>4, OperationQuiet DEF LoadDeletion, RecheckDeletion
<1>5. ASSUME NEW d \in Deletion, CommitDeletion(d) PROVE OperationInv'
  <2>1. deletion[d].revision \in Published /\ job[deletion[d].revision].path \in Path
    BY <1>5, AttemptFacts, DeletionFacts, PublishedFacts
       DEF CommitDeletion, DeletionsNamed, PublishedAnswered, JobsFixed, Request
  <2>2. Published' = Published
    BY <1>5, <2>1, PublishedAppend DEF CommitDeletion, TypeInv
  <2>3. QED
    BY <1>5, <2>2, OperationQuiet DEF CommitDeletion
<1>6. ASSUME NEW a \in Upload, NEW o \in Op, Begin(a, o) PROVE OperationInv'
  BY <1>6, OperationBegin
<1>7. ASSUME NEW a \in Upload, NEW r \in NoteRequests, BeginNote(a, r) PROVE OperationInv'
  BY <1>7, OperationBeginNote
<1>8. ASSUME NEW a \in Upload, Stage(a) PROVE OperationInv'
  BY <1>8, AttemptFacts, OperationQuiet DEF Stage, Ended
<1>9. ASSUME NEW a \in Upload, PutReturns(a) PROVE OperationInv'
  BY <1>9, AttemptFacts, OperationQuiet DEF PutReturns, Ended
<1>10. ASSUME NEW a \in Upload, Miss(a) PROVE OperationInv'
  BY <1>10, AttemptFacts, OperationQuiet DEF Miss, Ended
<1>11. ASSUME NEW a \in Upload, QueueDiscard(a) PROVE OperationInv'
  BY <1>11, AttemptFacts, OperationQuiet DEF QueueDiscard, Ended
<1>12. ASSUME NEW a \in Upload, Fail(a) \/ Abort(a) PROVE OperationInv'
  BY <1>12, OperationUnknown DEF Fail, Abort
<1>13. ASSUME NEW a \in Upload, Publish(a) PROVE OperationInv'
  BY <1>13, OperationPublish
<1>14. ASSUME NEW a \in Upload, Refuse(a) PROVE OperationInv'
  BY <1>14, OperationRefuse
<1>15. ASSUME NEW a \in Upload, ReadReceipt(a) PROVE OperationInv'
  BY <1>15, OperationReadReceipt
<1>16. ASSUME NEW a \in Upload, ReadNames(a) \/ ReadRow(a) \/ ReadBytes(a) PROVE OperationInv'
  BY <1>16, OperationReadNames, OperationReadRow, OperationReadBytes
<1>17. ASSUME NEW s \in Sweeper, SweepCheck(s) \/ SweepDelete(s) \/ SweepLeases(s) PROVE OperationInv'
  BY <1>17, OperationQuiet DEF SweepCheck, SweepDelete, SweepLeases
<1>18. ASSUME NEW s \in Sweeper, SweepDequeue(s) PROVE OperationInv'
  BY <1>18, EndSweepFacts, OperationQuiet DEF SweepDequeue, Ended
<1>19. ASSUME NEW s \in Sweeper, SweepFails(s) PROVE OperationInv'
  BY <1>19, EndSweepFacts, OperationQuiet DEF SweepFails, Ended
<1>20. ASSUME DrainQueue \/ ExpireVersions PROVE OperationInv'
  BY <1>20, OperationQuiet DEF DrainQueue, ExpireVersions
<1>21. ASSUME PruneReceipts PROVE OperationInv'
  BY <1>21, OperationPruneReceipts
<1>22. ASSUME ClaimLeases \/ ClaimCheck \/ ClaimLook \/ ClaimDelete \/ ClaimFinish \/ ClaimFails PROVE OperationInv'
  BY <1>22, OperationQuiet DEF ClaimLeases, ClaimCheck, ClaimLook, ClaimDelete, ClaimFinish, ClaimFails
<1>23. CASE UNCHANGED vars
  BY <1>23, OperationQuiet DEF vars
<1>24. QED
  BY <1>1, <1>2, <1>3, <1>4, <1>5, <1>6, <1>7, <1>8, <1>9, <1>10, <1>11, <1>12, <1>13, <1>14,
     <1>15, <1>16, <1>17, <1>18, <1>19, <1>20, <1>21, <1>22, <1>23
     DEF Next, Client, Attempt, Delete, Sweep, Maintain, Environment

\* OperationInv holds in every reachable state.
LEMMA OperationInvariant == Spec => []OperationInv
<1>1. QED
  BY OperationInit, OperationStep, TypeInvariant, KeyInvariant, PTL DEF Spec

(* However often an operation is retried, and even after its receipt was       *)
(* pruned and the clock set back, it publishes at most one revision            *)
(* (uploadMutation, recordUploadReceipt and pruneOperationReceipts together).  *)
THEOREM OperationsAppliedOnce == Spec => []OperationAppliedOnce
<1>1. OperationInv => OperationAppliedOnce
  BY DEF OperationInv
<1>2. QED
  BY <1>1, OperationInvariant, PTL

(* An operation some attempt was told has failed never takes effect, then or   *)
(* later (recordUploadReceipt's rejected receipts and resolveOperation).       *)
THEOREM RejectionsFinal == Spec => []RejectionIsFinal
<1>1. OperationInv => RejectionIsFinal
  BY DEF OperationInv, ConflictsClosed, Closed, RejectionIsFinal, Ended
<1>2. QED
  BY <1>1, OperationInvariant, PTL

(* A reported revision was published at the attempt's path with its content,   *)
(* whether the batch, a receipt or the verified live file said so.             *)
THEOREM SuccessesReal == Spec => []SuccessIsReal
<1>1. OperationInv => SuccessIsReal
  BY DEF OperationInv, AnswersReal, SuccessIsReal, Ended
<1>2. QED
  BY <1>1, OperationInvariant, PTL

(***************************************************************************)
(* What is live: names that can coexist, deletions that last, and a          *)
(* changelog that tells devices of both.                                     *)
(***************************************************************************)
\* The rows change in two batches only, and each of them writes the changelog.
LEMMA FilesChange ==
  [Next]_vars => \/ UNCHANGED <<files, changelog>>
                 \/ \E a \in Upload : Publish(a)
                 \/ \E d \in Deletion : CommitDeletion(d)
<1> SUFFICES ASSUME [Next]_vars,
                    ~(\E a \in Upload : Publish(a)), ~(\E d \in Deletion : CommitDeletion(d))
             PROVE  UNCHANGED <<files, changelog>>
  OBVIOUS
<1> USE DEF d1
<1>1. CASE Client \/ Environment
  BY <1>1 DEF Client, Submit, LoadDeletion, Environment, MoveClock, PutLands, LeaseAges, VersionAges
<1>2. ASSUME NEW a \in Upload, Attempt(a) PROVE UNCHANGED <<files, changelog>>
  BY <1>2 DEF Attempt, Begin, BeginNote, Stage, PutReturns, Fail, Refuse, Abort, Miss, ReadReceipt,
              ReadNames, ReadRow, ReadBytes, QueueDiscard
<1>3. ASSUME NEW d \in Deletion, Delete(d) PROVE UNCHANGED <<files, changelog>>
  BY <1>3 DEF Delete, RecheckDeletion
<1>4. ASSUME NEW s \in Sweeper, Sweep(s) PROVE UNCHANGED <<files, changelog>>
  BY <1>4 DEF Sweep, SweepCheck, SweepDelete, SweepLeases, SweepDequeue, SweepFails
<1>5. CASE Maintain
  BY <1>5 DEF Maintain, DrainQueue, ExpireVersions, PruneReceipts, ClaimLeases, ClaimCheck, ClaimLook, ClaimDelete,
              ClaimFinish, ClaimFails
<1>6. CASE UNCHANGED vars
  BY <1>6 DEF vars
<1>7. QED
  BY <1>1, <1>2, <1>3, <1>4, <1>5, <1>6 DEF Next

\* What the two batches do to the rows and the changelog.
LEMMA PublishChange ==
  ASSUME TypeInv, NEW a \in Upload, Publish(a)
  PROVE  /\ pc[a] = "staged" /\ job[a].path \in Path
         /\ NamespaceFree(job[a].path)
         /\ files' = [files EXCEPT ![job[a].path] = a]
         /\ changelog' = Append(changelog, [path |-> job[a].path, revision |-> a])
BY AttemptFacts DEF Publish, CanPublish, JobsFixed, Request

\* A deletion that commits removes its live revision and logs the path, or finds it gone.
LEMMA DeletionChange ==
  ASSUME TypeInv, NEW d \in Deletion, CommitDeletion(d)
  PROVE  LET p == job[deletion[d].revision].path IN
         /\ deletion[d].revision \in Published /\ p \in Path
         /\ \/ UNCHANGED <<files, changelog>> /\ files[p] # deletion[d].revision
               /\ deletion' = [deletion EXCEPT ![d].step = "recheck"]
            \/ /\ files' = [files EXCEPT ![p] = Absent] /\ files[p] = deletion[d].revision
               /\ changelog' = Append(changelog, [path |-> p, revision |-> Absent])
               /\ deletion' = [deletion EXCEPT ![d].step = "deleted"]
<1>1. deletion[d].revision \in Published /\ job[deletion[d].revision].path \in Path
  BY AttemptFacts, DeletionFacts, PublishedFacts
     DEF CommitDeletion, DeletionsNamed, PublishedAnswered, JobsFixed, Request
<1>2. QED
  BY <1>1 DEF CommitDeletion

(* Concurrent creations never leave two files whose names cannot coexist: the  *)
(* guard is part of the batch (fileNamespaceGuard), not of a check before it.  *)
THEOREM LiveNamesAlwaysCompatible == Spec => []LiveNamesCompatible
<1>1. Init => LiveNamesCompatible
  BY DEF Init, LiveNamesCompatible
<1>2. TypeInv /\ LiveNamesCompatible /\ [Next]_vars => LiveNamesCompatible'
  <2> SUFFICES ASSUME TypeInv, LiveNamesCompatible, [Next]_vars PROVE LiveNamesCompatible'
    OBVIOUS
  <2>1. files \in [Path -> Upload \cup {Absent}]
    BY DEF TypeInv, TypeOK
  <2>2. CASE UNCHANGED <<files, changelog>>
    BY <2>2 DEF LiveNamesCompatible
  <2>3. ASSUME NEW a \in Upload, Publish(a) PROVE LiveNamesCompatible'
    <3>1. /\ files' = [files EXCEPT ![job[a].path] = a] /\ job[a].path \in Path
          /\ \A q \in Path : <<job[a].path, q>> \in Clash => files[q] = Absent
      BY <2>3, PublishChange DEF NamespaceFree
    <3>2. QED
      BY <2>1, <3>1, ClashAssumption DEF LiveNamesCompatible
  <2>4. ASSUME NEW d \in Deletion, CommitDeletion(d) PROVE LiveNamesCompatible'
    BY <2>1, <2>4, DeletionChange DEF LiveNamesCompatible
  <2>5. QED
    BY <2>2, <2>3, <2>4, FilesChange
<1>3. QED
  BY <1>1, <1>2, TypeInvariant, PTL DEF Spec

\* A step that empties a path commits a delete request that names what was live there.
LEMMA NamedDeletionStep ==
  TypeInv /\ [Next]_vars =>
    \A p \in Path : files[p] # Absent /\ files'[p] = Absent
      => \E d \in Deletion : deletion[d].revision = files[p]
<1> SUFFICES ASSUME TypeInv, [Next]_vars, NEW p \in Path, files[p] # Absent, files'[p] = Absent
             PROVE  \E d \in Deletion : deletion[d].revision = files[p]
  OBVIOUS
<1>1. files \in [Path -> Upload \cup {Absent}] /\ Absent \notin Upload
  BY MarkerAssumption DEF TypeInv, TypeOK
<1>2. ~UNCHANGED <<files, changelog>>
  OBVIOUS
<1>3. ASSUME NEW a \in Upload, Publish(a) PROVE FALSE
  <2>1. files' = [files EXCEPT ![job[a].path] = a]
    BY <1>3, PublishChange
  <2>2. files'[p] = IF p = job[a].path THEN a ELSE files[p]
    BY <1>1, <2>1
  <2> QED BY <1>1, <2>2
<1>4. ASSUME NEW d \in Deletion, CommitDeletion(d) PROVE deletion[d].revision = files[p]
  <2>1. LET q == job[deletion[d].revision].path IN
        q \in Path /\ files' = [files EXCEPT ![q] = Absent] /\ files[q] = deletion[d].revision
    BY <1>2, <1>4, DeletionChange
  <2> QED BY <1>1, <2>1
<1> QED BY <1>2, <1>3, <1>4, FilesChange

(* A path is emptied only by a delete request that names the revision then     *)
(* live (the predicate of commitFileDelete's batch): a file that was replaced  *)
(* or recreated since the client, or the request itself, read it stays.        *)
THEOREM OnlyNamedRevisionsAreDeleted == Spec => OnlyNamedRevisionsDeleted
<1>1. TypeInv /\ [Next]_vars =>
        [\A p \in Path : files[p] # Absent /\ files'[p] = Absent
           => \E d \in Deletion : deletion[d].revision = files[p]]_vars
  BY NamedDeletionStep
<1> QED BY <1>1, TypeInvariant, PTL DEF Spec, OnlyNamedRevisionsDeleted

\* The revision a confirmed deletion consumed is at no path.
LEMMA DeletionStep ==
  TypeInv /\ KeyInv /\ DeletedStaysDeleted /\ [Next]_vars => DeletedStaysDeleted'
<1> SUFFICES ASSUME TypeInv, KeyInv, DeletedStaysDeleted, [Next]_vars,
                    NEW d \in Deletion, deletion'[d].step = "deleted"
             PROVE  deletion'[d].revision \notin Live'
  BY DEF DeletedStaysDeleted
<1>0. deletion \in [Deletion -> DeletionRun] /\ files \in [Path -> Upload \cup {Absent}]
  BY DEF TypeInv, TypeOK
<1>1. CASE deletion[d].step = "deleted" /\ deletion'[d].revision = deletion[d].revision
  <2>1. deletion[d].revision \in Published /\ deletion[d].revision \notin Live
    BY <1>1, DeletionFacts DEF DeletionsNamed, DeletedStaysDeleted
  <2>2. Live' \subseteq Live \cup (Upload \ Published)
    <3>1. ASSUME NEW a \in Upload, Publish(a) PROVE Live' \subseteq Live \cup (Upload \ Published)
      <4>1. /\ files' = [files EXCEPT ![job[a].path] = a] /\ a \notin Published
        BY <3>1, PublishChange, PublishedFacts DEF PublishedAnswered
      <4>2. \A p \in Path : files'[p] \in {files[p], a}
        BY <1>0, <4>1
      <4>3. QED
        BY <4>1, <4>2 DEF Live
    <3>2. ASSUME NEW e \in Deletion, CommitDeletion(e) PROVE Live' \subseteq Live
      <4>1. \A p \in Path : files'[p] \in {files[p], Absent}
        BY <1>0, <3>2, DeletionChange
      <4>2. QED
        BY <4>1 DEF Live
    <3>3. QED
      BY <3>1, <3>2, FilesChange, SameReferences DEF Live
  <2>3. QED
    BY <1>1, <2>1, <2>2
<1>2. CASE ~(deletion[d].step = "deleted" /\ deletion'[d].revision = deletion[d].revision)
  <2>1. deletion'[d] # deletion[d]
    BY <1>2
  <2>2. \/ \E k \in Published : LoadDeletion(d, k)
        \/ CommitDeletion(d) \/ RecheckDeletion(d)
    <3>1. CASE \E e \in Deletion, k \in Published : LoadDeletion(e, k)
      BY <1>0, <2>1, <3>1 DEF LoadDeletion
    <3>2. CASE \E e \in Deletion : CommitDeletion(e) \/ RecheckDeletion(e)
      BY <1>0, <2>1, <3>2 DEF CommitDeletion, RecheckDeletion
    <3>3. CASE (\E r \in UploadRequests \cup RestoreRequests : Submit(r)) \/ Environment \/ Maintain
      BY <2>1, <3>3 DEF Submit, Environment, MoveClock, PutLands, LeaseAges, VersionAges, Maintain,
           DrainQueue, ExpireVersions, PruneReceipts, ClaimLeases, ClaimCheck, ClaimLook, ClaimDelete, ClaimFinish, ClaimFails
    <3>4. CASE \E a \in Upload : Attempt(a)
      BY <2>1, <3>4 DEF Attempt, Begin, BeginNote, Stage, PutReturns, Fail, Publish, Refuse, Abort, Miss,
           ReadReceipt, ReadNames, ReadRow, ReadBytes, QueueDiscard
    <3>5. CASE \E s \in Sweeper : Sweep(s)
      BY <2>1, <3>5 DEF Sweep, SweepCheck, SweepDelete, SweepLeases, SweepDequeue, SweepFails
    <3>6. CASE UNCHANGED vars
      BY <2>1, <3>6 DEF vars
    <3>7. QED
      BY <3>1, <3>2, <3>3, <3>4, <3>5, <3>6 DEF Next, Client, Delete
  <2>3. \A k \in Published : k \in Upload /\ job'[k] = job[k]
    BY <2>2, PublishedFacts DEF LoadDeletion, CommitDeletion, RecheckDeletion, attempts
  <2>4. deletion'[d].revision \in Published
    BY <1>0, <2>2, DeletionFacts DEF LoadDeletion, CommitDeletion, RecheckDeletion, DeletionRun, DeletionsNamed
  <2>5. files'[job[deletion'[d].revision].path] = Absent
    <3>1. ASSUME NEW k \in Published, LoadDeletion(d, k) PROVE files'[job[deletion'[d].revision].path] = Absent
      <4>1. /\ files' = files
            /\ deletion'[d] = [step |-> IF files[job[k].path] = Absent THEN "deleted" ELSE "loaded", revision |-> k]
        BY <1>0, <3>1 DEF LoadDeletion, d1
      <4>2. QED
        BY <4>1
    <3>2. CASE CommitDeletion(d)
      <4>1. deletion'[d].revision = deletion[d].revision
        BY <1>0, <3>2 DEF CommitDeletion, DeletionRun
      <4>2. deletion' # [deletion EXCEPT ![d].step = "recheck"]
        BY <1>0 DEF DeletionRun
      <4>3. LET p == job[deletion[d].revision].path IN
              p \in Path /\ files' = [files EXCEPT ![p] = Absent]
        BY <3>2, <4>2, DeletionChange
      <4>4. QED
        BY <1>0, <4>1, <4>3
    <3>3. CASE RecheckDeletion(d)
      <4>1. /\ files' = files /\ deletion'[d].revision = deletion[d].revision
            /\ deletion'[d].step = IF files[job[deletion[d].revision].path] = Absent THEN "deleted" ELSE "conflict"
        BY <1>0, <3>3 DEF RecheckDeletion, DeletionRun, d1
      <4>2. QED
        BY <4>1
    <3>4. QED
      BY <2>2, <3>1, <3>2, <3>3
  <2>6. \A q \in Path : files'[q] # Absent => job[files'[q]].path = q
    BY <1>0, <2>2, DeletionChange DEF LoadDeletion, RecheckDeletion, d1, KeyInv, ReferencesPublished
  <2>7. QED
    BY <2>3, <2>4, <2>5, <2>6, MarkerAssumption DEF Live
<1>3. QED
  BY <1>1, <1>2

(* A confirmed deletion is final (commitFileDelete and the recheck after it):  *)
(* no retry, restore or late commit makes the consumed revision live again.    *)
THEOREM DeletionsFinal == Spec => []DeletedStaysDeleted
<1>1. Init => DeletedStaysDeleted
  BY DEF Init, DeletedStaysDeleted
<1>2. QED
  BY <1>1, DeletionStep, TypeInvariant, KeyInvariant, PTL DEF Spec

\* A row appended for p makes its revision the last one of p, and of no other path.
LEMMA AppendAgrees ==
  ASSUME TypeOK, ChangelogAgrees, NEW p \in Path, NEW k \in Upload \cup {Absent},
         files' = [files EXCEPT ![p] = k],
         changelog' = Append(changelog, [path |-> p, revision |-> k])
  PROVE  ChangelogAgrees'
<1> DEFINE Row == [path : Path, revision : Upload \cup {Absent}]
           row == [path |-> p, revision |-> k]
           n == Len(changelog)
<1>1. changelog \in Seq(Row) /\ files \in [Path -> Upload \cup {Absent}]
  BY DEF TypeOK
<1>2. row \in Row /\ row.path = p /\ row.revision = k
  OBVIOUS
<1> HIDE DEF Row, row
<1>3. /\ n \in Nat /\ DOMAIN changelog = 1..n /\ DOMAIN changelog' = 1..(n + 1)
      /\ \A i \in 1..n : changelog'[i] = changelog[i]
      /\ changelog'[n + 1] = row
  BY <1>1, <1>2 DEF row
<1> HIDE DEF n
<1> SUFFICES ASSUME NEW q \in Path
             PROVE  LET rows == {i \in DOMAIN changelog' : changelog'[i].path = q} IN
                    IF rows = {} THEN files'[q] = Absent
                    ELSE \E last \in rows : (\A i \in rows : i <= last) /\ changelog'[last].revision = files'[q]
  BY DEF ChangelogAgrees
<1>4. CASE q = p
  <2>1. n + 1 \in {i \in DOMAIN changelog' : changelog'[i].path = q}
    BY <1>2, <1>3, <1>4
  <2>2. \A i \in DOMAIN changelog' : i <= n + 1
    BY <1>3
  <2>3. changelog'[n + 1].revision = files'[q]
    BY <1>1, <1>2, <1>3, <1>4
  <2>4. QED
    BY <2>1, <2>2, <2>3
<1>5. CASE q # p
  <2>1. {i \in DOMAIN changelog' : changelog'[i].path = q} = {i \in DOMAIN changelog : changelog[i].path = q}
    BY <1>2, <1>3, <1>5
  <2>2. files'[q] = files[q]
    BY <1>1, <1>5
  <2>3. QED
    BY <1>3, <2>1, <2>2 DEF ChangelogAgrees
<1>6. QED
  BY <1>4, <1>5

(* Applying the changelog in order gives exactly the live files: every batch   *)
(* that changes a row logs it, and no other batch logs anything                *)
(* (publishedChangelogStatement and deletedFileStatements).                    *)
THEOREM ChangelogAlwaysAgrees == Spec => []ChangelogAgrees
<1>1. Init => ChangelogAgrees
  BY DEF Init, ChangelogAgrees
<1>2. TypeInv /\ ChangelogAgrees /\ [Next]_vars => ChangelogAgrees'
  <2> SUFFICES ASSUME TypeInv, ChangelogAgrees, [Next]_vars PROVE ChangelogAgrees'
    OBVIOUS
  <2>1. CASE UNCHANGED <<files, changelog>>
    BY <2>1 DEF ChangelogAgrees
  <2>2. ASSUME NEW a \in Upload, Publish(a) PROVE ChangelogAgrees'
    BY <2>2, PublishChange, AppendAgrees DEF TypeInv
  <2>3. ASSUME NEW d \in Deletion, CommitDeletion(d) PROVE ChangelogAgrees'
    <3>1. \/ UNCHANGED <<files, changelog>>
          \/ \E p \in Path : /\ files' = [files EXCEPT ![p] = Absent]
                             /\ changelog' = Append(changelog, [path |-> p, revision |-> Absent])
      BY <2>3, DeletionChange
    <3>2. QED
      BY <2>1, <3>1, AppendAgrees DEF TypeInv
  <2>4. QED
    BY <2>1, <2>2, <2>3, FilesChange
<1>3. QED
  BY <1>1, <1>2, TypeInvariant, PTL DEF Spec

(***************************************************************************)
(* The store implements the registers: what a path shows and how an        *)
(* operation ended change only as FileRegister allows.                     *)
(***************************************************************************)

\* What FileRegister's variables stand for, one path and one operation at a time.
Row(p) == IF files[p] = Absent THEN None
          ELSE [hash |-> job[files[p]].hash, revision |-> files[p]]

OneOf(keys) == CHOOSE k \in keys : TRUE

Outcome(o) ==
  IF Writers(o) # {} THEN OneOf(Writers(o))
  ELSE IF receipts[o] = Rejected THEN "closed"
  ELSE IF request[o] # None /\ request[o].day < floor THEN "closed"
  ELSE None

Rows == [p \in Path |-> Row(p)]

Outcomes == [o \in Op |-> Outcome(o)]

\* Only an operation somebody asked for is refused.
RefusedAsked == \A o \in Op : receipts[o] = Rejected => request[o] # None

\* The registers of a state, in terms of the store.
LEMMA RegisterState ==
  Register!vars = <<request, Rows, Published, Outcomes>>
BY DEF Register!vars, Rows, Row, Outcomes, Outcome, OneOf

\* At first every register is empty.
LEMMA RegisterInit == Init => Register!Init
<1> SUFFICES ASSUME Init PROVE Register!Init
  OBVIOUS
<1>1. Published = {}
  BY DEF Init, Published
<1>2. \A o \in Op : Writers(o) = {}
  BY <1>1 DEF Writers
<1>3. \A o \in Op : receipts[o] = None /\ request[o] = None
  BY DEF Init
<1> QED BY <1>1, <1>2, <1>3, MarkerAssumption DEF Init, Register!Init

\* Writers of an operation depend on what is published.
LEMMA SameWriters ==
  ASSUME \A k \in Published : job'[k] = job[k], Published' = Published, NEW o
  PROVE  Writers(o)' = Writers(o)
BY DEF Writers

\* A step that publishes, deletes and decides nothing changes no register.
LEMMA RegisterQuiet ==
  ASSUME TypeInv, KeyInv, UNCHANGED <<request, files, changelog, receipts, floor>>,
         \A k \in Published : job'[k] = job[k]
  PROVE  UNCHANGED Register!vars
<1>1. Published' = Published
  BY SameReferences
<1>2. \A o : Writers(o)' = Writers(o)
  BY <1>1, SameWriters
<1>3. \A o \in Op : Outcome(o)' = Outcome(o)
  <2> TAKE o \in Op
  <2>1. Writers(o)' = Writers(o)
    BY <1>2
  <2> QED BY <2>1 DEF Outcome
<1>4. \A p \in Path : Row(p)' = Row(p)
  BY <1>1 DEF Row, KeyInv, ReferencesPublished
<1>5. Rows' = Rows /\ Outcomes' = Outcomes
  BY <1>3, <1>4 DEF Rows, Outcomes
<1>6. Register!vars' = <<request', Rows', Published', Outcomes'>>
  BY DEF Register!vars, Rows, Row, Outcomes, Outcome, OneOf
<1> QED BY <1>1, <1>5, <1>6, RegisterState

\* The steps of the registers, in terms of the store.
LEMMA RegisterDelete ==
  ASSUME NEW p \in Path, Row(p) # None, Rows' = [Rows EXCEPT ![p] = None],
         request' = request, Published' = Published, Outcomes' = Outcomes
  PROVE  Register!Delete(p)
<1>1. Rows[p] = Row(p)
  BY DEF Rows
<1> QED BY <1>1 DEF Register!Delete, Rows, Row, Outcomes, Outcome, OneOf

\* A step closes operations that had no outcome, or none.
LEMMA RegisterClose ==
  ASSUME request' = request, Published' = Published, Rows' = Rows,
         \A o \in Op : Outcome(o)' = Outcome(o)
                       \/ (request[o] # None /\ Outcome(o) = None /\ Outcome(o)' = "closed")
  PROVE  Register!Close
<1> DEFINE closed == {o \in Op : request[o] # None /\ Outcome(o) = None /\ Outcome(o)' = "closed"}
<1>1. closed \in SUBSET {o \in Op : request[o] # None /\ Outcomes[o] = None}
  BY DEF Outcomes
<1>2. \A o \in Op : Outcome(o)' = IF o \in closed THEN "closed" ELSE Outcomes[o]
  BY DEF Outcomes
<1> HIDE DEF closed
<1>3. Outcomes' = [o \in Op |-> IF o \in closed THEN "closed" ELSE Outcomes[o]]
  BY <1>2 DEF Outcomes
<1>4. \E shut \in SUBSET {o \in Op : request[o] # None /\ Outcomes[o] = None} :
        Outcomes' = [o \in Op |-> IF o \in shut THEN "closed" ELSE Outcomes[o]]
  BY <1>1, <1>3
<1> QED BY <1>4 DEF Register!Close, Rows, Row, Outcomes, Outcome, OneOf

\* An operation is submitted once, perhaps too late to write.
LEMMA RegisterSubmit ==
  ASSUME NEW o \in Op, request[o] = None, request'[o] \in Request,
         request' = [request EXCEPT ![o] = request'[o]],
         Outcomes' \in {Outcomes, [Outcomes EXCEPT ![o] = "closed"]},
         Rows' = Rows, Published' = Published
  PROVE  Register!Submit(o)
BY DEF Register!Submit, Rows, Row, Outcomes, Outcome, OneOf

\* The condition of a write, on the rows.
Fits(p, expected, revision) ==
  IF Rows[p] = None THEN expected \notin Hash
  ELSE Rows[p].hash = expected /\ revision \in {None, Rows[p].revision}

\* A write replaces the row its precondition names.
LEMMA RegisterWrite ==
  ASSUME NEW p, NEW hash, NEW expected, NEW revision, NEW k \in Upload \ Published,
         \A q \in Path : <<p, q>> \in Clash => Rows[q] = None,
         Fits(p, expected, revision),
         Rows' = [Rows EXCEPT ![p] = [hash |-> hash, revision |-> k]],
         Published' = Published \cup {k}
  PROVE  Register!Write(p, hash, expected, revision, k)
BY DEF Register!Write, Fits, Rows, Row

\* A write that decides an operation.
LEMMA RegisterApply ==
  ASSUME NEW o \in Op, NEW k, request[o] # None, Outcomes[o] = None,
         Register!Write(request[o].path, request[o].hash, request[o].expected, request[o].revision, k),
         Outcomes' = [Outcomes EXCEPT ![o] = k], request' = request
  PROVE  Register!Apply(o, k)
BY DEF Register!Apply, Outcomes, Outcome, OneOf

\* A write that decides none.
LEMMA RegisterNote ==
  ASSUME NEW p, NEW hash, NEW expected, NEW k, Register!Write(p, hash, expected, None, k),
         Outcomes' = Outcomes, request' = request
  PROVE  Register!WriteNote(p, hash, expected, k)
BY DEF Register!WriteNote, Outcomes, Outcome, OneOf

-----------------------------------------------------------------------------
\* An operation that no attempt published and nobody refused has no outcome
\* until the floor passes its day.
LEMMA OpenOutcome ==
  ASSUME NEW o \in Op, Writers(o) = {}, receipts[o] = None
  PROVE  Outcome(o) = IF request[o] # None /\ request[o].day < floor THEN "closed" ELSE None
BY MarkerAssumption DEF Outcome

\* Steps that decide no operation leave the outcomes alone.
LEMMA SameOutcomes ==
  ASSUME NEW o \in Op, Writers(o)' = Writers(o), request'[o] = request[o],
         receipts'[o] = receipts[o], floor' = floor
  PROVE  Outcome(o)' = Outcome(o)
BY DEF Outcome

\* What an operation stands for is fixed before anybody may publish it.
LEMMA MapSubmit ==
  ASSUME TypeInv, KeyInv, OperationInv, RefusedAsked, NEW r \in Request, r.op \in Op, Submit(r)
  PROVE  Register!Submit(r.op)
<1> DEFINE o == r.op
<1>1. /\ request[o] = None /\ request' = [request EXCEPT ![o] = r] /\ request'[o] = r
      /\ UNCHANGED <<files, changelog, receipts, floor, job>>
  BY AttemptFacts DEF Submit, d1, attempts
<1>2. Published' = Published
  BY <1>1, SameReferences
<1>3. \A x : Writers(x)' = Writers(x)
  BY <1>1, <1>2, SameWriters
<1>4. Writers(o) = {}
  <2> SUFFICES ASSUME NEW k \in Published, job[k].op = o PROVE FALSE
    BY DEF Writers
  <2>1. request[o] = job[k] /\ job[k] \in Request
    BY MarkerAssumption, PublishedFacts, AttemptFacts
       DEF PublishedAnswered, OperationInv, RequestsBound, JobsFixed
  <2> QED BY <1>1, <2>1, MarkerAssumption
<1>5. receipts[o] = None
  BY <1>1, MarkerAssumption, AttemptFacts, ReceiptClosed, PublishedFacts
     DEF RefusedAsked, PublishedAnswered, JobsFixed
<1>6. Outcome(o) = None /\ Outcome(o)' \in {None, "closed"}
  <2>1. Outcome(o) = None
    BY <1>1, <1>4, <1>5, OpenOutcome
  <2>2. Writers(o)' = {} /\ receipts'[o] = None
    BY <1>1, <1>3, <1>4, <1>5
  <2> QED BY <2>1, <2>2, MarkerAssumption DEF Outcome
<1>7. \A x \in Op : x # o => Outcome(x)' = Outcome(x)
  <2> TAKE x \in Op
  <2> HAVE x # o
  <2>1. request'[x] = request[x]
    BY <1>1, AttemptFacts
  <2> QED BY <1>1, <1>3, <2>1 DEF Outcome
<1>8. Outcomes' \in {Outcomes, [Outcomes EXCEPT ![o] = "closed"]}
  BY <1>6, <1>7 DEF Outcomes
<1>9. Rows' = Rows
  BY <1>1 DEF Rows, Row
<1> QED BY <1>1, <1>2, <1>8, <1>9, RegisterSubmit

\* A path with a live revision has a row.
LEMMA RowHeld ==
  ASSUME TypeInv, KeyInv, NEW p \in Path, files[p] # Absent
  PROVE  Row(p) # None
<1>1. files[p] \in Upload /\ job[files[p]] \in Request
  BY PublishedFacts DEF KeyInv, ReferencesPublished, PublishedAnswered, TypeInv, JobsFixed
<1>2. job[files[p]].hash \in Hash
  BY <1>1 DEF Request
<1>3. [hash |-> job[files[p]].hash, revision |-> files[p]] \in [hash : Hash, revision : Upload]
  BY <1>1, <1>2
<1> QED BY <1>3, MarkerAssumption DEF Row

\* A committed batch, on the rows.
LEMMA MapWrite ==
  ASSUME TypeInv, KeyInv, OperationInv, NEW a \in Upload, Publish(a)
  PROVE  /\ job[a] \in Request /\ Published' = Published \cup {a} /\ job' = job
         /\ \A expected, revision :
              /\ expected = job[a].expected \/ (expected = None /\ job[a].expected = Absent)
              /\ revision = job[a].revision \/ revision = None
              => Register!Write(job[a].path, job[a].hash, expected, revision, a)
<1> DEFINE p == job[a].path
<1>1. /\ pc[a] = "staged" /\ CanPublish(a) /\ job' = job
      /\ files' = [files EXCEPT ![p] = a]
      /\ changelog' = Append(changelog, [path |-> p, revision |-> a])
  BY DEF Publish
<1>2. job[a] \in Request /\ p \in Path /\ a # Absent
  BY <1>1, AttemptFacts, MarkerAssumption DEF JobsFixed, Request
<1>3. Published' = Published \cup {a} /\ a \notin Published
  BY <1>1, <1>2, PublishedAppend, PublishedFacts DEF TypeInv, PublishedAnswered
<1>4. files \in [Path -> Upload \cup {Absent}]
  BY DEF TypeInv, TypeOK
<1>5. \A q \in Path : Rows[q] = IF files[q] = Absent THEN None
                              ELSE [hash |-> job[files[q]].hash, revision |-> files[q]]
  BY DEF Rows, Row
<1>6. Rows' = [Rows EXCEPT ![p] = [hash |-> job[a].hash, revision |-> a]]
  BY <1>1, <1>2, <1>4 DEF Rows, Row
<1>7. \A q \in Path : <<p, q>> \in Clash => Rows[q] = None
  BY <1>1, <1>5 DEF CanPublish, NamespaceFree
<1>8. files[p] # Absent => Rows[p] # None
  BY <1>2, RowHeld DEF Rows
<1>9. ASSUME NEW expected, NEW revision,
             expected = job[a].expected \/ (expected = None /\ job[a].expected = Absent),
             revision = job[a].revision \/ revision = None
      PROVE  Fits(p, expected, revision)
  <2>1. CASE job[a].expected = Absent
    BY <1>1, <1>2, <1>5, <1>9, <2>1, MarkerAssumption DEF Fits, CanPublish, Target
  <2>2. CASE job[a].expected # Absent
    <3>1. files[p] # Absent /\ job[files[p]].hash = expected
          /\ (job[a].revision # None => files[p] = job[a].revision)
      BY <1>1, <1>9, <2>2 DEF CanPublish, Target
    <3>2. Rows[p] = [hash |-> job[files[p]].hash, revision |-> files[p]] /\ Rows[p] # None
      BY <1>2, <1>5, <1>8, <3>1
    <3> QED BY <1>9, <3>1, <3>2 DEF Fits
  <2> QED BY <2>1, <2>2
<1>10. ASSUME NEW expected, NEW revision,
             expected = job[a].expected \/ (expected = None /\ job[a].expected = Absent),
             revision = job[a].revision \/ revision = None
      PROVE  Register!Write(p, job[a].hash, expected, revision, a)
  <2>1. Fits(p, expected, revision)
    BY <1>9, <1>10
  <2> HIDE DEF p
  <2> QED BY <1>3, <1>6, <1>7, <2>1, RegisterWrite
<1> QED BY <1>1, <1>2, <1>3, <1>10

\* A batch that publishes decides its operation, or writes a note.
LEMMA MapPublish ==
  ASSUME TypeInv, KeyInv, OperationInv, NEW a \in Upload, Publish(a)
  PROVE  Register!Next
<1>0. PICK o : o = job[a].op
  OBVIOUS
<1>1. /\ pc[a] = "staged" /\ ~Aborts(a) /\ (o # NoOp => receipts[o] = None)
      /\ receipts' = IF o = NoOp THEN receipts ELSE [receipts EXCEPT ![o] = a]
      /\ UNCHANGED <<request, floor, job>>
  BY <1>0 DEF Publish, CanPublish
<1>2. job[a] \in Request /\ Published' = Published \cup {a}
  BY MapWrite
<1>3. \A x : Writers(x)' = Writers(x) \cup (IF x = o THEN {a} ELSE {})
  BY <1>0, <1>1, <1>2 DEF Writers
<1>4. \A x \in Op : x # o => Outcome(x)' = Outcome(x)
  <2> TAKE x \in Op
  <2> HAVE x # o
  <2>1. Writers(x)' = Writers(x) /\ receipts'[x] = receipts[x]
    BY <1>1, <1>3, AttemptFacts
  <2> QED BY <1>1, <2>1, SameOutcomes
<1>5. CASE o # NoOp
  <2>1. /\ o \in Op /\ request[o] = job[a] /\ floor <= job[a].day /\ Writers(o) = {}
        /\ receipts[o] = None
    BY <1>0, <1>1, <1>5, OpenUnpublished DEF Writers
  <2>2. request[o] # None /\ ~(request[o].day < floor)
    BY <1>2, <2>1, MarkerAssumption, NumberAssumption DEF Request, Day, TypeInv, TypeOK
  <2>3. Outcome(o) = None
    BY <2>1, <2>2, OpenOutcome
  <2>4. Writers(o)' = {a}
    BY <1>3, <2>1
  <2>5. OneOf({a}) = a
    BY DEF OneOf
  <2>6. Outcome(o)' = a
    BY <2>4, <2>5 DEF Outcome
  <2>7. Outcomes' = [Outcomes EXCEPT ![o] = a] /\ Outcomes[o] = None
    BY <1>4, <2>1, <2>3, <2>6 DEF Outcomes
  <2>8. Register!Write(request[o].path, request[o].hash, request[o].expected, request[o].revision, a)
    BY <2>1, MapWrite
  <2>9. Register!Apply(o, a)
    BY <1>1, <2>1, <2>2, <2>7, <2>8, RegisterApply
  <2> QED BY <2>1, <2>9 DEF Register!Next
<1>6. CASE o = NoOp
  <2>1. Outcomes' = Outcomes
    BY <1>4, <1>6, MarkerAssumption DEF Outcomes
  <2>0. PICK path \in Path, hash \in Hash : path = job[a].path /\ hash = job[a].hash
    BY <1>2 DEF Request
  <2>2. PICK expected \in Hash \cup {None} :
          expected = job[a].expected \/ (expected = None /\ job[a].expected = Absent)
    BY <1>2 DEF Request
  <2>4. Register!Write(path, hash, expected, None, a)
    BY <2>0, <2>2, MapWrite
  <2>5. Register!WriteNote(path, hash, expected, a)
    BY <1>1, <2>1, <2>4, RegisterNote
  <2> QED BY <2>5 DEF Register!Next
<1> QED BY <1>5, <1>6

\* A deletion that finds its revision live empties the register.
LEMMA MapDeletion ==
  ASSUME TypeInv, KeyInv, NEW d \in Deletion, CommitDeletion(d)
  PROVE  [Register!Next]_(Register!vars)
<1>0. PICK p : p = job[deletion[d].revision].path
  OBVIOUS
<1>1. /\ deletion[d].revision \in Published /\ p \in Path
      /\ \/ UNCHANGED <<files, changelog>>
         \/ /\ files' = [files EXCEPT ![p] = Absent] /\ files[p] = deletion[d].revision
            /\ changelog' = Append(changelog, [path |-> p, revision |-> Absent])
  BY <1>0, DeletionChange
<1>2. UNCHANGED <<request, receipts, floor, job>>
  BY DEF CommitDeletion, attempts
<1>3. CASE UNCHANGED <<files, changelog>>
  BY <1>2, <1>3, RegisterQuiet
<1>4. CASE ~UNCHANGED <<files, changelog>>
  <2>1. files[p] # Absent
    BY <1>1, <1>4, PublishedFacts, MarkerAssumption
  <2>2. Row(p) # None
    BY <1>1, <2>1, RowHeld
  <2>3. Published' = Published
    BY <1>1, <1>4, PublishedAppend DEF TypeInv
  <2>4. \A x \in Op : Outcome(x)' = Outcome(x)
    BY <1>2, <2>3, SameWriters, SameOutcomes
  <2>5. files \in [Path -> Upload \cup {Absent}]
    BY DEF TypeInv, TypeOK
  <2>6. Rows' = [Rows EXCEPT ![p] = None]
    BY <1>1, <1>2, <1>4, <2>5 DEF Rows, Row
  <2>7. Outcomes' = Outcomes
    BY <2>4 DEF Outcomes
  <2>8. Register!Delete(p)
    BY <1>1, <1>2, <2>2, <2>3, <2>6, <2>7, RegisterDelete
  <2> QED BY <1>1, <2>8 DEF Register!Next
<1> QED BY <1>3, <1>4

\* A recorded refusal closes its operation.
LEMMA MapRefuse ==
  ASSUME TypeInv, KeyInv, OperationInv, NEW a \in Upload, Refuse(a)
  PROVE  Register!Close
<1> DEFINE o == job[a].op
<1>1. /\ pc[a] = "staged" /\ ~Aborts(a) /\ o # NoOp /\ receipts[o] = None
      /\ receipts' = [receipts EXCEPT ![o] = Rejected]
      /\ UNCHANGED <<request, floor, job, files, changelog>>
  BY DEF Refuse, d1
<1>2. /\ o \in Op /\ request[o] = job[a] /\ floor <= job[a].day /\ Writers(o) = {} /\ job[a] \in Request
  BY <1>1, OpenUnpublished DEF Writers
<1>3. request[o] # None /\ ~(request[o].day < floor)
  BY <1>2, MarkerAssumption, NumberAssumption DEF Request, Day, TypeInv, TypeOK
<1>4. Published' = Published
  BY <1>1, SameReferences
<1>5. \A x : Writers(x)' = Writers(x)
  BY <1>1, <1>4, SameWriters
<1>6. Outcome(o) = None
  BY <1>1, <1>2, <1>3, OpenOutcome
<1>7. Outcome(o)' = "closed"
  BY <1>1, <1>2, <1>5, AttemptFacts DEF Outcome
<1>8. \A x \in Op : x # o => Outcome(x)' = Outcome(x)
  BY <1>1, <1>5, AttemptFacts, SameOutcomes
<1>9. Rows' = Rows
  BY <1>1 DEF Rows, Row
<1> QED BY <1>1, <1>3, <1>4, <1>6, <1>7, <1>8, <1>9, RegisterClose

\* Raising the floor closes the operations that are too old, and pruning forgets
\* only receipts that the floor speaks for.
LEMMA MapPrune ==
  ASSUME TypeInv, KeyInv, OperationInv, RefusedAsked, PruneReceipts
  PROVE  Register!Close
<1>1. /\ floor' = OperationFloor /\ UNCHANGED <<request, job, files, changelog>>
      /\ \A o \in Op : receipts'[o] = receipts[o]
           \/ (receipts'[o] = None /\ receipts[o] # None /\ request[o].day < floor')
  BY DEF PruneReceipts, attempts
<1>2. floor \in Int /\ floor' \in Int /\ floor <= floor'
  BY <1>1, NumberAssumption DEF TypeInv, TypeOK, Day, OperationFloor, Larger
<1>3. Published' = Published
  BY <1>1, SameReferences
<1>4. \A x : Writers(x)' = Writers(x)
  BY <1>1, <1>3, SameWriters
<1>5. ASSUME NEW o \in Op
      PROVE  Outcome(o)' = Outcome(o)
             \/ (request[o] # None /\ Outcome(o) = None /\ Outcome(o)' = "closed")
  <2>1. Writers(o)' = Writers(o)
    BY <1>4
  <2>2. CASE Writers(o) # {}
    BY <2>1, <2>2 DEF Outcome
  <2>3. CASE Writers(o) = {}
    <3>1. receipts[o] \in {Rejected, None}
      <4>1. receipts[o] \notin Upload
        <5> SUFFICES ASSUME receipts[o] \in Upload PROVE FALSE
          OBVIOUS
        <5>1. receipts[o] \in Published /\ job[receipts[o]] = request[o] /\ job[receipts[o]] \in Request
          BY ReceiptClosed, PublishedFacts, AttemptFacts DEF PublishedAnswered, JobsFixed
        <5>2. request[o].op = o
          BY <5>1, MarkerAssumption DEF OperationInv, RequestsBound
        <5> QED BY <2>3, <5>1, <5>2 DEF Writers
      <4> QED BY <4>1, AttemptFacts
    <3>2. request[o] # None => request[o].day \in Int
      BY AttemptFacts, NumberAssumption DEF Request, Day
    <3>3. CASE receipts[o] = Rejected
      <4>1. request[o] # None /\ Outcome(o) = "closed"
        BY <2>3, <3>3 DEF RefusedAsked, Outcome
      <4>2. receipts'[o] = Rejected \/ (receipts'[o] = None /\ request[o].day < floor')
        BY <1>1, <3>3
      <4>3. Outcome(o)' = "closed"
        BY <1>1, <2>1, <2>3, <4>1, <4>2, MarkerAssumption DEF Outcome
      <4> QED BY <4>1, <4>3
    <3>4. CASE receipts[o] = None
      <4>1. receipts'[o] = None
        BY <1>1, <3>4
      <4>2. Outcome(o) = IF request[o] # None /\ request[o].day < floor THEN "closed" ELSE None
        BY <2>3, <3>4, OpenOutcome
      <4>3. Outcome(o)' = IF request[o] # None /\ request[o].day < floor' THEN "closed" ELSE None
        BY <1>1, <2>1, <2>3, <4>1, MarkerAssumption DEF Outcome
      <4>4. request[o] # None /\ request[o].day < floor => request[o].day < floor'
        BY <1>2, <3>2
      <4> QED BY <4>2, <4>3, <4>4
    <3> QED BY <3>1, <3>3, <3>4
  <2> QED BY <2>2, <2>3
<1>6. Rows' = Rows
  BY <1>1 DEF Rows, Row
<1> QED BY <1>1, <1>3, <1>5, <1>6, RegisterClose

-----------------------------------------------------------------------------
\* Only the four steps above decide operations, and only attempts that begin get a job.
LEMMA DecisionsChange ==
  [Next]_vars => \/ UNCHANGED <<request, receipts, floor>>
                 \/ \E r \in UploadRequests \cup RestoreRequests : Submit(r)
                 \/ \E a \in Upload : Publish(a) \/ Refuse(a)
                 \/ PruneReceipts
<1> SUFFICES ASSUME [Next]_vars, ~(\E r \in UploadRequests \cup RestoreRequests : Submit(r)),
                    ~(\E a \in Upload : Publish(a) \/ Refuse(a)), ~PruneReceipts
             PROVE  UNCHANGED <<request, receipts, floor>>
  OBVIOUS
<1> USE DEF d1
<1>1. CASE Client \/ Environment
  BY <1>1 DEF Client, LoadDeletion, Environment, MoveClock, PutLands, LeaseAges, VersionAges
<1>2. ASSUME NEW a \in Upload, Attempt(a) PROVE UNCHANGED <<request, receipts, floor>>
  BY <1>2 DEF Attempt, Begin, BeginNote, Stage, PutReturns, Fail, Abort, Miss, ReadReceipt,
              ReadNames, ReadRow, ReadBytes, QueueDiscard
<1>3. ASSUME NEW d \in Deletion, Delete(d) PROVE UNCHANGED <<request, receipts, floor>>
  BY <1>3 DEF Delete, CommitDeletion, RecheckDeletion
<1>4. ASSUME NEW s \in Sweeper, Sweep(s) PROVE UNCHANGED <<request, receipts, floor>>
  BY <1>4 DEF Sweep, SweepCheck, SweepDelete, SweepLeases, SweepDequeue, SweepFails
<1>5. CASE Maintain
  BY <1>5 DEF Maintain, DrainQueue, ExpireVersions, ClaimLeases, ClaimCheck, ClaimLook, ClaimDelete,
              ClaimFinish, ClaimFails
<1>6. CASE UNCHANGED vars
  BY <1>6 DEF vars
<1> QED BY <1>1, <1>2, <1>3, <1>4, <1>5, <1>6 DEF Next

\* An attempt keeps its job once it has begun.
LEMMA JobsKept ==
  ASSUME TypeInv, [Next]_vars
  PROVE  \A k \in Published : job'[k] = job[k]
<1> USE DEF attempts
<1>1. CASE Client \/ Environment
  BY <1>1 DEF Client, Submit, LoadDeletion, Environment, MoveClock, PutLands, LeaseAges, VersionAges
<1>2. ASSUME NEW a \in Upload, Attempt(a) PROVE \A k \in Published : job'[k] = job[k]
  <2>1. CASE (\E o \in Op : Begin(a, o)) \/ (\E r \in NoteRequests : BeginNote(a, r))
    <3>1. pc[a] = "idle" /\ \E r : job' = [job EXCEPT ![a] = r]
      BY <2>1 DEF Begin, BeginNote
    <3>2. a \notin Published
      BY <3>1, PublishedFacts DEF PublishedAnswered
    <3> QED BY <3>1, <3>2, AttemptFacts, PublishedFacts
  <2>2. CASE ~((\E o \in Op : Begin(a, o)) \/ (\E r \in NoteRequests : BeginNote(a, r)))
    BY <1>2, <2>2 DEF Attempt, Stage, PutReturns, Fail, Publish, Refuse, Abort, Miss, ReadReceipt,
              ReadNames, ReadRow, ReadBytes, QueueDiscard
  <2> QED BY <2>1, <2>2
<1>3. ASSUME NEW d \in Deletion, Delete(d) PROVE job' = job
  BY <1>3 DEF Delete, CommitDeletion, RecheckDeletion
<1>4. ASSUME NEW s \in Sweeper, Sweep(s) PROVE job' = job
  BY <1>4 DEF Sweep, SweepCheck, SweepDelete, SweepLeases, SweepDequeue, SweepFails
<1>5. CASE Maintain
  BY <1>5 DEF Maintain, DrainQueue, ExpireVersions, PruneReceipts, ClaimLeases, ClaimCheck, ClaimLook,
              ClaimDelete, ClaimFinish, ClaimFails
<1>6. CASE UNCHANGED vars
  BY <1>6 DEF vars
<1> QED BY <1>1, <1>2, <1>3, <1>4, <1>5, <1>6 DEF Next

\* Refusals are of operations somebody asked for.
LEMMA RefusedStep ==
  TypeInv /\ OperationInv /\ RefusedAsked /\ [Next]_vars => RefusedAsked'
<1> SUFFICES ASSUME TypeInv, OperationInv, RefusedAsked, [Next]_vars PROVE RefusedAsked'
  OBVIOUS
<1>1. CASE UNCHANGED <<request, receipts, floor>>
  BY <1>1 DEF RefusedAsked
<1>2. ASSUME NEW r \in UploadRequests \cup RestoreRequests, Submit(r) PROVE RefusedAsked'
  <2>1. r # None
    BY RequestsTyped, MarkerAssumption
  <2> QED BY <1>2, <2>1, AttemptFacts DEF RefusedAsked, Submit, d1
<1>3. ASSUME NEW a \in Upload, Publish(a) PROVE RefusedAsked'
  BY <1>3, AttemptFacts, MarkerAssumption DEF RefusedAsked, Publish
<1>4. ASSUME NEW a \in Upload, Refuse(a) PROVE RefusedAsked'
  <2>1. job[a] \in Request /\ request[job[a].op] = job[a] /\ job[a].op \in Op
    BY <1>4, OpenUnpublished DEF Refuse
  <2>2. request[job[a].op] # None
    BY <2>1, MarkerAssumption
  <2> QED BY <1>4, <2>2, AttemptFacts DEF RefusedAsked, Refuse
<1>5. CASE PruneReceipts
  BY <1>5, MarkerAssumption DEF RefusedAsked, PruneReceipts
<1> QED BY <1>1, <1>2, <1>3, <1>4, <1>5, DecisionsChange

\* RefusedAsked holds in every reachable state.
LEMMA RefusedInvariant == Spec => []RefusedAsked
<1>1. Init => RefusedAsked
  BY MarkerAssumption DEF Init, RefusedAsked
<1> QED BY <1>1, RefusedStep, TypeInvariant, OperationInvariant, PTL DEF Spec

\* Every step of the store is a step of the registers or leaves them alone.
LEMMA RegisterStep ==
  TypeInv /\ KeyInv /\ OperationInv /\ RefusedAsked /\ [Next]_vars => [Register!Next]_(Register!vars)
<1> SUFFICES ASSUME TypeInv, KeyInv, OperationInv, RefusedAsked, [Next]_vars
             PROVE  [Register!Next]_(Register!vars)
  OBVIOUS
<1>1. CASE UNCHANGED <<request, receipts, floor, files, changelog>>
  BY <1>1, JobsKept, RegisterQuiet
<1>2. ASSUME NEW r \in UploadRequests \cup RestoreRequests, Submit(r) PROVE Register!Next
  <2>1. r \in Request /\ r.op \in Op
    BY RequestsTyped DEF UploadRequests, RestoreRequests
  <2>2. Register!Submit(r.op)
    BY <1>2, <2>1, MapSubmit
  <2> QED BY <2>1, <2>2 DEF Register!Next
<1>3. ASSUME NEW a \in Upload, Publish(a) PROVE Register!Next
  BY <1>3, MapPublish
<1>4. ASSUME NEW a \in Upload, Refuse(a) PROVE Register!Next
  <2>1. Register!Close
    BY <1>4, MapRefuse
  <2> QED BY <2>1 DEF Register!Next
<1>5. CASE PruneReceipts
  <2>1. Register!Close
    BY <1>5, MapPrune
  <2> QED BY <2>1 DEF Register!Next
<1>6. ASSUME NEW d \in Deletion, CommitDeletion(d) PROVE [Register!Next]_(Register!vars)
  BY <1>6, MapDeletion
<1> QED BY <1>1, <1>2, <1>3, <1>4, <1>5, <1>6, FilesChange, DecisionsChange

(* What the store shows of a path and answers about an operation changes only  *)
(* as in FileRegister: conditional writes that are decided at most once        *)
(* (commitStagedFile, commitFileDelete, pruneOperationReceipts), whatever       *)
(* leases, objects, late puts and clean-up runs are under way.                  *)
THEOREM StoreImplementsRegister == Spec => ImplementsRegister
<1> QED BY RegisterInit, RegisterStep, TypeInvariant, KeyInvariant, OperationInvariant,
           RefusedInvariant, PTL DEF Spec, ImplementsRegister, Register!Spec

=============================================================================
