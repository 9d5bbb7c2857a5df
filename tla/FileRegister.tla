---------------------------- MODULE FileRegister ----------------------------
(***************************************************************************)
(* What the committed-file store promises its clients, without leases,      *)
(* objects, receipts or clean-up: each path is a register that holds a      *)
(* content and the revision that wrote it; an operation ID stands for one   *)
(* conditional write, and it is decided at most once, for good.             *)
(***************************************************************************)
CONSTANTS
  Path, Clash, Hash, Op, Revision, None,
  Request    \* records with a path, the content to write and the expected content and revision

VARIABLES
  request,   \* what each submitted operation asks for
  live,      \* the content and revision of each path, or None
  used,      \* the revisions ever written
  outcome    \* the revision an operation wrote, "closed" when it may never write, or None

vars == <<request, live, used, outcome>>

Init ==
  /\ request = [o \in Op |-> None]
  /\ live = [p \in Path |-> None]
  /\ used = {}
  /\ outcome = [o \in Op |-> None]

\* An operation may be too old to write when it first appears.
Submit(o) ==
  /\ request[o] = None
  /\ request'[o] \in Request
  /\ request' = [request EXCEPT ![o] = request'[o]]
  /\ outcome' \in {outcome, [outcome EXCEPT ![o] = "closed"]}
  /\ UNCHANGED <<live, used>>

\* A write replaces exactly the content its author read, and never creates a
\* file beside one whose name it clashes with.
Write(p, hash, expected, revision, k) ==
  /\ k \in Revision \ used
  /\ \A q \in Path : <<p, q>> \in Clash => live[q] = None
  /\ IF live[p] = None THEN expected \notin Hash
     ELSE live[p].hash = expected /\ revision \in {None, live[p].revision}
  /\ live' = [live EXCEPT ![p] = [hash |-> hash, revision |-> k]]
  /\ used' = used \cup {k}

Apply(o, k) ==
  /\ request[o] # None /\ outcome[o] = None
  /\ Write(request[o].path, request[o].hash, request[o].expected, request[o].revision, k)
  /\ outcome' = [outcome EXCEPT ![o] = k]
  /\ UNCHANGED request

\* Refused, or too old to be retried.
Close ==
  /\ \E closed \in SUBSET {o \in Op : request[o] # None /\ outcome[o] = None} :
       outcome' = [o \in Op |-> IF o \in closed THEN "closed" ELSE outcome[o]]
  /\ UNCHANGED <<request, live, used>>

WriteNote(p, hash, expected, k) ==
  /\ Write(p, hash, expected, None, k)
  /\ UNCHANGED <<request, outcome>>

Delete(p) ==
  /\ live[p] # None
  /\ live' = [live EXCEPT ![p] = None]
  /\ UNCHANGED <<request, used, outcome>>

Next ==
  \/ \E o \in Op : Submit(o)
  \/ \E o \in Op, k \in Revision : Apply(o, k)
  \/ Close
  \/ \E p \in Path, hash \in Hash, expected \in Hash \cup {None}, k \in Revision :
       WriteNote(p, hash, expected, k)
  \/ \E p \in Path : Delete(p)

Spec == Init /\ [][Next]_vars

=============================================================================
