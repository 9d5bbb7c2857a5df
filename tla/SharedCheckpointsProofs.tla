---------------------- MODULE SharedCheckpointsProofs -----------------------
(* Proofs about SharedCheckpoints, for every set of requests, number of paths, *)
(* page size and bound.                                                        *)
EXTENDS SharedCheckpoints, FiniteSetTheorems, WellFoundedInduction, TLAPS

-----------------------------------------------------------------------------
(* The elements of a finite set that fewer than a limit precede. *)

Below(S, key, x) == {y \in S : key[y] < key[x]}

First(S, key, limit) == {x \in S : Cardinality(Below(S, key, x)) < limit}

LEMMA Least == ASSUME NEW T, T \subseteq Nat, T # {} PROVE \E n \in T : \A m \in T : n <= m
<1>1. PICK n \in T : \A m \in T : ~ (<<m, n>> \in OpToRel(<, Nat))
  BY NatLessThanWellFounded, WFMin, Zenon
<1>2. ASSUME NEW m \in T, m < n PROVE <<m, n>> \in OpToRel(<, Nat)
  BY <1>2, n \in Nat, m \in Nat, Zenon DEF OpToRel
<1>3. ASSUME NEW m \in T PROVE n <= m
  <2>1. ~ (m < n)
    BY <1>1, <1>2, Zenon
  <2> QED BY <2>1, n \in Nat, m \in Nat
<1> QED BY <1>3

LEMMA BelowFinite ==
  ASSUME NEW S, IsFiniteSet(S), NEW key, NEW x
  PROVE  /\ IsFiniteSet(Below(S, key, x)) /\ Cardinality(Below(S, key, x)) \in Nat
         /\ Cardinality(Below(S, key, x)) <= Cardinality(S)
<1>1. Below(S, key, x) \in SUBSET S
  BY DEF Below
<1> QED BY <1>1, FS_Subset, FS_CardinalityType

(* A finite set has a greatest element. *)
LEMMA Greatest ==
  ASSUME NEW S, IsFiniteSet(S), S # {}, NEW key \in [S -> Nat]
  PROVE  \E x \in S : \A y \in S : key[y] <= key[x]
<1> DEFINE rank(x) == Cardinality(S) - Cardinality(Below(S, key, x))
           T == {rank(x) : x \in S}
<1>1. Cardinality(S) \in Nat /\ \A x \in S : Cardinality(Below(S, key, x)) \in 0..Cardinality(S)
  BY BelowFinite, FS_CardinalityType
<1>2. \A x \in S : rank(x) \in Nat
  BY <1>1
<1>3. PICK x \in S : \A y \in S : rank(x) <= rank(y)
  <2>1. T \subseteq Nat /\ T # {}
    BY <1>2
  <2> HIDE DEF rank
  <2>2. PICK n \in T : \A m \in T : n <= m
    BY <2>1, Least
  <2> QED BY <2>2
<1>4. ASSUME NEW y \in S, key[x] < key[y] PROVE FALSE
  <2>1. Below(S, key, x) \cup {x} \subseteq Below(S, key, y) /\ x \notin Below(S, key, x)
    BY <1>4 DEF Below
  <2>2. Cardinality(Below(S, key, x) \cup {x}) = Cardinality(Below(S, key, x)) + 1
    BY <2>1, BelowFinite, FS_AddElement
  <2>3. Cardinality(Below(S, key, x) \cup {x}) <= Cardinality(Below(S, key, y))
    BY <2>1, BelowFinite, FS_Subset
  <2> QED BY <1>1, <1>3, <2>2, <2>3
<1>5. ASSUME NEW y \in S PROVE key[y] <= key[x]
  BY <1>4
<1> QED BY <1>5

(* First is closed downwards and no larger than the limit, which it reaches when it leaves *)
(* anything out.                                                                           *)
LEMMA FirstOnes ==
  ASSUME NEW S, IsFiniteSet(S), NEW key \in [S -> Nat], NEW limit \in Nat \ {0},
         \A x, y \in S : key[x] = key[y] => x = y
  PROVE  /\ First(S, key, limit) \subseteq S /\ IsFiniteSet(First(S, key, limit))
         /\ \A x \in First(S, key, limit), y \in S : key[y] < key[x] => y \in First(S, key, limit)
         /\ Cardinality(First(S, key, limit)) \in Nat
         /\ Cardinality(First(S, key, limit)) <= limit
         /\ First(S, key, limit) # S => Cardinality(First(S, key, limit)) = limit
<1> DEFINE F == First(S, key, limit)
<1>1. F \in SUBSET S
  BY DEF First
<1>2. IsFiniteSet(F) /\ Cardinality(F) \in Nat
  BY <1>1, FS_Subset, FS_CardinalityType
<1>3. ASSUME NEW x \in F, NEW y \in S, key[y] < key[x] PROVE y \in F
  <2>1. Below(S, key, y) \in SUBSET Below(S, key, x)
    BY <1>1, <1>3 DEF Below
  <2>2. Cardinality(Below(S, key, y)) <= Cardinality(Below(S, key, x))
    BY <2>1, BelowFinite, FS_Subset
  <2> QED BY <1>1, <2>2, BelowFinite DEF First
<1>4. Cardinality(F) <= limit
  <2> SUFFICES ASSUME Cardinality(F) > limit PROVE FALSE
    BY <1>2
  <2>1. F # {}
    BY FS_EmptySet
  <2> DEFINE k == [x \in F |-> key[x]]
  <2>2. k \in [F -> Nat]
    BY <1>1
  <2>3. PICK x \in F : \A y \in F : k[y] <= k[x]
    BY <1>2, <2>1, <2>2, Greatest
  <2>4. F \ {x} \in SUBSET Below(S, key, x)
    BY <1>1, <2>3 DEF Below
  <2>5. Cardinality(F \ {x}) = Cardinality(F) - 1
    BY <1>2, FS_RemoveElement
  <2>6. Cardinality(F \ {x}) <= Cardinality(Below(S, key, x))
    BY <2>4, BelowFinite, FS_Subset
  <2>7. Cardinality(Below(S, key, x)) < limit
    BY DEF First
  <2> QED BY <1>2, <2>5, <2>6, <2>7, BelowFinite
<1>5. ASSUME F # S PROVE Cardinality(F) = limit
  <2> DEFINE T == {key[y] : y \in S \ F}
  <2>1. T \subseteq Nat /\ T # {}
    BY <1>1, <1>5
  <2>2. PICK n \in T : \A m \in T : n <= m
    BY <2>1, Least
  <2>3. PICK y \in S \ F : \A z \in S \ F : key[y] <= key[z]
    BY <2>2
  <2>4. Below(S, key, y) \in SUBSET F
    BY <1>1, <2>3 DEF Below
  <2>5. Cardinality(Below(S, key, y)) <= Cardinality(F)
    BY <1>2, <2>4, FS_Subset
  <2>6. ~ (Cardinality(Below(S, key, y)) < limit)
    BY DEF First
  <2> QED BY <1>2, <1>4, <2>5, <2>6, BelowFinite
<1> QED BY <1>1, <1>2, <1>3, <1>4, <1>5

(* The same of a set of numbers in their own order. *)

Smallest(S, limit) == {x \in S : Cardinality({y \in S : y < x}) < limit}

LEMMA SmallestIsFirst ==
  ASSUME NEW S, S \subseteq Nat, NEW limit
  PROVE  Smallest(S, limit) = First(S, [x \in S |-> x], limit)
<1>1. \A x \in S : Below(S, [y \in S |-> y], x) = {y \in S : y < x}
  BY DEF Below
<1> QED BY <1>1 DEF First, Smallest

LEMMA SmallestOnes ==
  ASSUME NEW S, S \subseteq Nat, IsFiniteSet(S), NEW limit \in Nat \ {0}
  PROVE  /\ Smallest(S, limit) \subseteq S /\ IsFiniteSet(Smallest(S, limit))
         /\ \A x \in Smallest(S, limit), y \in S : y < x => y \in Smallest(S, limit)
         /\ Cardinality(Smallest(S, limit)) < limit => Smallest(S, limit) = S
         /\ S # {} => Smallest(S, limit) # {}
<1> DEFINE key == [x \in S |-> x]
           F == First(S, key, limit)
<1>1. Smallest(S, limit) = F
  BY SmallestIsFirst
<1>2. key \in [S -> Nat] /\ \A x, y \in S : key[x] = key[y] => x = y
  OBVIOUS
<1>3. \A x \in S : key[x] = x
  OBVIOUS
<1> HIDE DEF key
<1>4. /\ F \subseteq S /\ IsFiniteSet(F)
      /\ \A x \in F, y \in S : key[y] < key[x] => y \in F
      /\ F # S => Cardinality(F) = limit
  BY <1>2, FirstOnes
<1> HIDE DEF F
<1>5. ASSUME S # {}, F = {} PROVE FALSE
  <2>1. Cardinality(F) = 0
    BY <1>5, FS_EmptySet
  <2> QED BY <1>4, <1>5, <2>1
<1>6. S # {} => F # {}
  BY <1>5
<1>7. \A x \in F, y \in S : y < x => y \in F
  BY <1>3, <1>4
<1>8. Cardinality(F) < limit => F = S
  BY <1>4
<1> QED BY <1>1, <1>4, <1>6, <1>7, <1>8

LEMMA GreatestNumber ==
  ASSUME NEW S, S \subseteq Nat, IsFiniteSet(S), S # {}
  PROVE  \E x \in S : \A y \in S : y <= x
<1> DEFINE key == [x \in S |-> x]
<1>1. key \in [S -> Nat]
  OBVIOUS
<1>2. PICK x \in S : \A y \in S : key[y] <= key[x]
  BY <1>1, Greatest
<1> QED BY <1>2

-----------------------------------------------------------------------------
(* Types. *)

(* A request that has neither published nor given up. *)
Unpublished(r) ==
  pc[r] \in {"idle", "begun", "marking", "reading", "read", "storing", "fetching", "publishing"}

AttemptsLeft == \A r \in Request : Unpublished(r) => attempts[r] < MaxAttempts

Finite ==
  /\ IsFiniteSet(Stored) /\ IsFiniteSet(index) /\ \A r \in Request : IsFiniteSet(seen[r])
  /\ IsFiniteSet(listed) /\ (more => listed # {})

TypeInv == TypeOK /\ AttemptsLeft /\ Finite

File == [revision : Sequence \ {0}, modified : Time]

LEMMA LiveRows ==
  ASSUME NEW fs \in [Path -> File \cup {None}]
  PROVE  Live(fs) \subseteq Row
BY DEF Live, Row, File

LEMMA PageOfPaths ==
  ASSUME TypeOK, NEW r \in Request
  PROVE  /\ Page(r) \subseteq Path /\ IsFiniteSet(Page(r)) /\ Cardinality(Page(r)) \in Nat
         /\ ~ (Cardinality(Page(r)) < PageSize) =>
               /\ (CHOOSE p \in Page(r) : \A q \in Page(r) : q <= p) \in Page(r)
               /\ \A q \in Page(r) : q <= (CHOOSE p \in Page(r) : \A q_1 \in Page(r) : q_1 <= p)
<1>1. Page(r) \subseteq Path
  BY DEF Page
<1>2. IsFiniteSet(Path)
  BY SizeAssumption, FS_Interval DEF Path
<1>3. IsFiniteSet(Page(r)) /\ Cardinality(Page(r)) \in Nat
  BY <1>1, <1>2, FS_Subset, FS_CardinalityType
<1>4. ASSUME ~ (Cardinality(Page(r)) < PageSize)
      PROVE  \E p \in Page(r) : \A q \in Page(r) : q <= p
  <2>1. Page(r) # {}
    BY <1>4, SizeAssumption, FS_EmptySet
  <2>2. Page(r) \subseteq Nat
    BY <1>1 DEF Path
  <2> QED BY <1>3, <2>1, <2>2, GreatestNumber
<1> QED BY <1>1, <1>3, <1>4

LEMMA EntryTyped == ASSUME TypeOK, NEW r \in Request PROVE EntryOf(r) \in Entry
BY RequestAssumption, SizeAssumption DEF TypeOK, EntryOf, Entry, Time

LEMMA TypeInit == Init => TypeInv
<1> SUFFICES ASSUME Init PROVE TypeInv
  OBVIOUS
<1>1. TypeOK
  <2>1. 0 \in Time /\ 0 \in Sequence /\ 0 \in 0..NPath /\ 0 \in 0..MaxAttempts
    BY SizeAssumption DEF Time, Sequence
  <2>2. objects \in [Request -> Inventory \cup {None}]
    BY DEF Init
  <2>3. pc \in [Request -> {"idle", "begun", "marking", "reading", "read", "storing", "fetching",
                          "publishing", "deleting", "done"}]
    BY DEF Init
  <2>4. start \in [Request -> [sequence : Sequence, now : Time]]
    BY <2>1 DEF Init
  <2> QED BY <2>1, <2>2, <2>3, <2>4 DEF Init, TypeOK
<1>2. AttemptsLeft
  BY SizeAssumption DEF Init, AttemptsLeft
<1>3. Stored = {}
  BY DEF Init, Stored
<1>4. Finite
  BY <1>3, FS_EmptySet DEF Init, Finite
<1> QED BY <1>1, <1>2, <1>4 DEF TypeInv

(* A step that leaves the requests' progress and the objects alone keeps the rest. *)
LEMMA RestKept ==
  ASSUME TypeInv, UNCHANGED <<objects, request, index, sweeping>>
  PROVE  AttemptsLeft' /\ Finite'
BY DEF TypeInv, AttemptsLeft, Unpublished, Finite, Stored, request, sweeping

LEMMA ChangedTyped ==
  ASSUME TypeInv, NEW p \in Path, NEW row \in File \cup {None}, Changed(p, row),
         versions' \subseteq versions \cup (IF files[p] # None THEN {Copy(p)} ELSE {})
  PROVE  TypeInv'
<1>1. sequence' \in Sequence /\ files' \in [Path -> File \cup {None}]
  BY SizeAssumption DEF TypeInv, TypeOK, Changed, Sequence, File
<1>2. files[p] # None => Copy(p) \in [path : Path, revision : Sequence \ {0}, created : Time, expires : 0..(MaxTime + Retention)]
  BY SizeAssumption DEF TypeInv, TypeOK, Copy, Time
<1>3. vault' \in [Sequence -> SUBSET Row]
  BY <1>1, LiveRows DEF TypeInv, TypeOK, Changed
<1>4. versions' \subseteq [path : Path, revision : Sequence \ {0}, created : Time, expires : 0..(MaxTime + Retention)]
  BY <1>2 DEF TypeInv, TypeOK
<1>5. TypeOK'
  BY <1>1, <1>3, <1>4 DEF TypeInv, TypeOK, Changed, request, sweeping, File
<1> QED BY <1>5, RestKept DEF TypeInv, Changed

LEMMA FileRow ==
  ASSUME TypeInv, sequence < MaxSequence
  PROVE  [revision |-> sequence + 1, modified |-> now] \in File
BY SizeAssumption DEF TypeInv, TypeOK, File, Sequence

(* What a step of one request may do to the attempts and to the sets that stay finite. *)
LEMMA RequestKeepsRest ==
  ASSUME TypeInv, NEW r \in Request, UNCHANGED sweeping,
         \A q \in Request \ {r} : pc'[q] = pc[q] /\ attempts'[q] = attempts[q],
         Unpublished(r)' => attempts'[r] < MaxAttempts,
         objects' \in [Request -> Inventory \cup {None}],
         \A q \in Request \ {r} : objects'[q] # None => objects[q] # None,
         IsFiniteSet(index'), \A q \in Request : IsFiniteSet(seen'[q])
  PROVE  AttemptsLeft' /\ Finite'
<1>1. AttemptsLeft'
  BY DEF TypeInv, AttemptsLeft, Unpublished
<1>2. Stored' \in SUBSET (Stored \cup {r})
  BY DEF Stored
<1>3. IsFiniteSet(Stored')
  BY <1>2, FS_AddElement, FS_Subset DEF TypeInv, Finite
<1> QED BY <1>1, <1>3 DEF TypeInv, Finite, sweeping

LEMMA BeginTyped == ASSUME TypeInv, NEW r \in Request, Begin(r) PROVE TypeInv'
<1>1. [sequence |-> sequence, now |-> now] \in [sequence : Sequence, now : Time]
  BY DEF TypeInv, TypeOK
<1>2. TypeOK'
  BY <1>1 DEF TypeInv, TypeOK, Begin, Step, database, sweeping
<1>3. AttemptsLeft' /\ Finite'
  BY RequestKeepsRest DEF TypeInv, TypeOK, Finite, AttemptsLeft, Unpublished, Begin, Step
<1> QED BY <1>2, <1>3 DEF TypeInv

LEMMA LookupTyped == ASSUME TypeInv, NEW r \in Request, Lookup(r) PROVE TypeInv'
<1>1. TypeOK'
  BY DEF TypeInv, TypeOK, Lookup, Step, database, sweeping
<1>2. AttemptsLeft' /\ Finite'
  BY RequestKeepsRest DEF TypeInv, TypeOK, Finite, AttemptsLeft, Unpublished, Lookup, Step
<1> QED BY <1>1, <1>2 DEF TypeInv

LEMMA MarkTyped == ASSUME TypeInv, NEW r \in Request, Mark(r) PROVE TypeInv'
<1>1. TypeOK'
  BY DEF TypeInv, TypeOK, Mark, Step, sweeping
<1>2. AttemptsLeft' /\ Finite'
  BY RequestKeepsRest DEF TypeInv, TypeOK, Finite, AttemptsLeft, Unpublished, Mark, Step
<1> QED BY <1>1, <1>2 DEF TypeInv

LEMMA ReadPageTyped == ASSUME TypeInv, NEW r \in Request, ReadPage(r) PROVE TypeInv'
<1> DEFINE read == {<<p, files[p].revision>> : p \in Page(r)}
<1>1. read \subseteq Row
  <2>1. \A p \in Page(r) : p \in Path /\ files[p] # None
    BY DEF Page
  <2> QED BY <2>1 DEF TypeInv, TypeOK, Row
<1> HIDE DEF read
<1>2. rows' \in [Request -> SUBSET Row]
  <2>1. rows' = [rows EXCEPT ![r] = @ \cup read]
    BY DEF ReadPage, read
  <2> QED BY <1>1, <2>1 DEF TypeInv, TypeOK
<1>3. after' \in [Request -> 0..NPath]
  <2> DEFINE last == CHOOSE p \in Page(r) : \A q \in Page(r) : q <= p
  <2>1. ~ (Cardinality(Page(r)) < PageSize) => last \in Path
    BY PageOfPaths DEF TypeInv
  <2> HIDE DEF last
  <2>2. after' = [after EXCEPT ![r] = IF Cardinality(Page(r)) < PageSize THEN @ ELSE last]
    BY DEF ReadPage, last
  <2> QED BY <2>1, <2>2, SizeAssumption DEF TypeInv, TypeOK, Path
<1>4. pc' \in [Request -> {"idle", "begun", "marking", "reading", "read", "storing", "fetching",
                          "publishing", "deleting", "done"}]
  BY DEF TypeInv, TypeOK, ReadPage, Step
<1>5. TypeOK'
  BY <1>2, <1>3, <1>4 DEF TypeInv, TypeOK, ReadPage, database, sweeping
<1>6. AttemptsLeft' /\ Finite'
  BY RequestKeepsRest DEF TypeInv, TypeOK, Finite, AttemptsLeft, Unpublished, ReadPage, Step
<1> QED BY <1>5, <1>6 DEF TypeInv

LEMMA VerifyTyped == ASSUME TypeInv, NEW r \in Request, Verify(r) PROVE TypeInv'
<1>1. TypeOK'
  BY DEF TypeInv, TypeOK, Verify, Step, database, sweeping
<1>2. AttemptsLeft' /\ Finite'
  BY RequestKeepsRest DEF TypeInv, TypeOK, Finite, AttemptsLeft, Unpublished, Verify, Step
<1> QED BY <1>1, <1>2 DEF TypeInv

LEMMA StoreInventoryTyped == ASSUME TypeInv, NEW r \in Request, StoreInventory(r) PROVE TypeInv'
<1>1. [rows |-> rows[r], uploaded |-> now] \in Inventory
  BY DEF TypeInv, TypeOK, Inventory
<1>2. objects' \in [Request -> Inventory \cup {None}]
  BY <1>1 DEF TypeInv, TypeOK, StoreInventory
<1>3. TypeOK'
  BY <1>2 DEF TypeInv, TypeOK, StoreInventory, Step, database, sweeping
<1>4. AttemptsLeft' /\ Finite'
  BY <1>2, RequestKeepsRest DEF TypeInv, TypeOK, Finite, AttemptsLeft, Unpublished, StoreInventory, Step
<1> QED BY <1>3, <1>4 DEF TypeInv

LEMMA FetchIndexTyped == ASSUME TypeInv, NEW r \in Request, FetchIndex(r) PROVE TypeInv'
<1>1. TypeOK'
  BY DEF TypeInv, TypeOK, FetchIndex, Step, database, sweeping
<1>2. AttemptsLeft' /\ Finite'
  BY RequestKeepsRest DEF TypeInv, TypeOK, Finite, AttemptsLeft, Unpublished, FetchIndex, Step
<1> QED BY <1>1, <1>2 DEF TypeInv

LEMMA SupersededTyped == ASSUME TypeInv, NEW r \in Request, Superseded(r) PROVE TypeInv'
<1>1. TypeOK'
  BY DEF TypeInv, TypeOK, Superseded, Discard, database, sweeping
<1>2. AttemptsLeft' /\ Finite'
  BY RequestKeepsRest DEF TypeInv, TypeOK, Finite, AttemptsLeft, Unpublished, Superseded, Discard
<1> QED BY <1>1, <1>2 DEF TypeInv

LEMMA PublishTyped == ASSUME TypeInv, NEW r \in Request, Publish(r) PROVE TypeInv'
<1>1. Unexpired(seen[r]) \cup {EntryOf(r)} \subseteq Entry
  BY EntryTyped DEF TypeInv, TypeOK, Unexpired
<1>2. index' \in SUBSET (Unexpired(seen[r]) \cup {EntryOf(r)}) /\ index' \subseteq Entry
  BY <1>1 DEF Publish, Newest
<1>3. \A e \in seen[r] : e.id \in Request
  BY DEF TypeInv, TypeOK, Entry
<1>4. dropped' \in [Request -> SUBSET Request]
  <2> DEFINE ids == {e.id : e \in seen[r] \ index'}
  <2>1. ids \subseteq Request
    BY <1>3
  <2>2. dropped' = [dropped EXCEPT ![r] = ids]
    BY DEF Publish, Discard
  <2> HIDE DEF ids
  <2> QED BY <2>1, <2>2 DEF TypeInv, TypeOK
<1>5. pc' = [pc EXCEPT ![r] = "deleting"]
  BY DEF Publish, Discard
<1>6. UNCHANGED <<now, database, objects, start, after, rows, seen, attempts, sweeping, vault>>
  BY DEF Publish
<1>7. TypeOK'
  BY <1>2, <1>4, <1>5, <1>6 DEF TypeInv, TypeOK, database, sweeping
<1>8. IsFiniteSet(index')
  <2>1. IsFiniteSet(seen[r])
    BY DEF TypeInv, Finite
  <2>2. Unexpired(seen[r]) \in SUBSET seen[r]
    BY DEF Unexpired
  <2> QED BY <1>2, <2>1, <2>2, FS_Subset, FS_AddElement
<1>9. AttemptsLeft' /\ Finite'
  BY <1>5, <1>6, <1>8, RequestKeepsRest DEF TypeInv, TypeOK, Finite, AttemptsLeft, Unpublished
<1> QED BY <1>7, <1>9 DEF TypeInv

LEMMA PublishConflictTyped ==
  ASSUME TypeInv, NEW r \in Request, PublishConflict(r) PROVE TypeInv'
<1>1. attempts[r] \in 0..MaxAttempts /\ attempts[r] < MaxAttempts
  BY DEF PublishConflict, TypeInv, TypeOK, AttemptsLeft, Unpublished
<1>2. attempts' \in [Request -> 0..MaxAttempts] /\ attempts'[r] = attempts[r] + 1
  BY <1>1, SizeAssumption DEF PublishConflict, TypeInv, TypeOK
<1>3. TypeOK'
  <2>1. pc' \in [Request -> {"idle", "begun", "marking", "reading", "read", "storing", "fetching",
                          "publishing", "deleting", "done"}]
    BY DEF TypeInv, TypeOK, PublishConflict, Discard
  <2>2. dropped' \in [Request -> SUBSET Request]
    BY DEF TypeInv, TypeOK, PublishConflict, Discard
  <2>3. UNCHANGED <<now, database, index, objects, start, after, rows, seen, sweeping, vault>>
    BY DEF PublishConflict
  <2> QED BY <1>2, <2>1, <2>2, <2>3 DEF TypeInv, TypeOK, database, sweeping
<1>4. Unpublished(r)' => attempts'[r] < MaxAttempts
  BY <1>2 DEF TypeInv, TypeOK, PublishConflict, Discard, Unpublished
<1>5. AttemptsLeft' /\ Finite'
  BY <1>4, RequestKeepsRest DEF TypeInv, TypeOK, Finite, AttemptsLeft, PublishConflict, Discard
<1> QED BY <1>3, <1>5 DEF TypeInv

LEMMA DeleteDroppedTyped == ASSUME TypeInv, NEW r \in Request, DeleteDropped(r) PROVE TypeInv'
<1>1. TypeOK'
  BY DEF TypeInv, TypeOK, DeleteDropped, Step, database, sweeping
<1>2. AttemptsLeft' /\ Finite'
  BY RequestKeepsRest DEF TypeInv, TypeOK, Finite, AttemptsLeft, Unpublished, DeleteDropped, Step
<1> QED BY <1>1, <1>2 DEF TypeInv

LEMMA AbandonTyped == ASSUME TypeInv, NEW r \in Request, Abandon(r) PROVE TypeInv'
<1>1. TypeOK'
  BY DEF TypeInv, TypeOK, Abandon, database, sweeping
<1>2. AttemptsLeft' /\ Finite'
  BY RequestKeepsRest DEF TypeInv, TypeOK, Finite, AttemptsLeft, Unpublished, Abandon
<1> QED BY <1>1, <1>2 DEF TypeInv

LEMMA CreateTyped == ASSUME TypeInv, NEW r \in Request, Create(r) PROVE TypeInv'
BY BeginTyped, LookupTyped, MarkTyped, ReadPageTyped, VerifyTyped, StoreInventoryTyped, FetchIndexTyped,
   SupersededTyped, PublishTyped, PublishConflictTyped, DeleteDroppedTyped, Zenon DEF Create

LEMMA SweepListTyped == ASSUME TypeInv, SweepList PROVE TypeInv'
<1>1. Behind \in SUBSET Stored /\ Behind \subseteq Request /\ Behind \subseteq Nat /\ IsFiniteSet(Behind)
  BY RequestAssumption, FS_Subset DEF TypeInv, Finite, Behind, Stored
<1>2. IsFiniteSet(listed') /\ (Behind # {} => listed' # {})
  <2>1. listed' = Smallest(Behind, ListSize)
    BY DEF SweepList, Smallest
  <2>2. ListSize \in Nat \ {0}
    BY SizeAssumption
  <2> QED BY <1>1, <2>1, <2>2, SmallestOnes
<1>3. more' => listed' # {}
  <2>1. ASSUME more', Behind = {} PROVE FALSE
    <3>1. Cardinality(Behind) = 0
      BY <2>1, FS_EmptySet
    <3>2. Cardinality(Behind) > ListSize
      BY <2>1, Zenon DEF SweepList
    <3> QED BY <3>1, <3>2, SizeAssumption
  <2> QED BY <1>2, <2>1
<1>4. listed' \subseteq Request
  BY <1>1 DEF SweepList
<1>5. TypeOK'
  BY <1>4 DEF TypeInv, TypeOK, SweepList, database, request
<1>6. AttemptsLeft' /\ Finite'
  BY <1>2, <1>3 DEF TypeInv, AttemptsLeft, Unpublished, Finite, Stored, SweepList, request
<1> QED BY <1>5, <1>6 DEF TypeInv

LEMMA SweepIndexTyped == ASSUME TypeInv, SweepIndex PROVE TypeInv'
<1>1. TypeOK'
  BY DEF TypeInv, TypeOK, SweepIndex, database, request
<1>2. AttemptsLeft' /\ Finite'
  BY DEF TypeInv, AttemptsLeft, Unpublished, Finite, Stored, SweepIndex, request
<1> QED BY <1>1, <1>2 DEF TypeInv

LEMMA SweepDeleteTyped == ASSUME TypeInv, SweepDelete PROVE TypeInv'
<1>1. cursor' \in Request \cup {None}
  <2> DEFINE last == CHOOSE r \in listed : \A q \in listed : q <= r
  <2>1. listed \subseteq Request /\ listed \subseteq Nat /\ IsFiniteSet(listed) /\ (more => listed # {})
    BY RequestAssumption DEF TypeInv, TypeOK, Finite
  <2>2. more => \E r \in listed : \A q \in listed : q <= r
    BY <2>1, GreatestNumber
  <2>3. more => last \in listed
    BY <2>2
  <2> HIDE DEF last
  <2>4. cursor' = IF more THEN last ELSE None
    BY DEF SweepDelete, last
  <2> QED BY <2>1, <2>3, <2>4
<1>2. objects' \in [Request -> Inventory \cup {None}]
  BY DEF TypeInv, TypeOK, SweepDelete
<1>3. 0 \in Time
  BY SizeAssumption DEF Time
<1>4. TypeOK'
  BY <1>1, <1>2, <1>3 DEF TypeInv, TypeOK, SweepDelete, EndSweep, database, request
<1>5. Stored' \in SUBSET Stored
  BY DEF Stored, SweepDelete
<1>6. AttemptsLeft' /\ Finite'
  BY <1>5, FS_Subset, FS_EmptySet
  DEF TypeInv, AttemptsLeft, Unpublished, Finite, SweepDelete, EndSweep, request
<1> QED BY <1>4, <1>6 DEF TypeInv

LEMMA SweepFailsTyped == ASSUME TypeInv, SweepFails PROVE TypeInv'
<1>1. 0 \in Time
  BY SizeAssumption DEF Time
<1>2. TypeOK'
  BY <1>1 DEF TypeInv, TypeOK, SweepFails, EndSweep, database, request
<1>3. AttemptsLeft' /\ Finite'
  BY FS_EmptySet
  DEF TypeInv, AttemptsLeft, Unpublished, Finite, Stored, SweepFails, EndSweep, request
<1> QED BY <1>2, <1>3 DEF TypeInv

LEMMA WriteTyped == ASSUME TypeInv, NEW p \in Path, Write(p) PROVE TypeInv'
<1>1. [revision |-> sequence + 1, modified |-> now] \in File
  BY FileRow DEF Write, Changed
<1> HIDE DEF File
<1> QED BY <1>1, ChangedTyped DEF Write

LEMMA DeleteTyped == ASSUME TypeInv, NEW p \in Path, Delete(p) PROVE TypeInv'
BY ChangedTyped DEF Delete

LEMMA ExpireVersionTyped == ASSUME TypeInv, NEW v \in versions, ExpireVersion(v) PROVE TypeInv'
<1>1. TypeOK'
  BY DEF TypeInv, TypeOK, ExpireVersion, request, sweeping
<1> QED BY <1>1, RestKept DEF TypeInv, ExpireVersion

LEMMA TickTyped == ASSUME TypeInv, Tick PROVE TypeInv'
<1>1. now' \in Time
  BY SizeAssumption DEF TypeInv, TypeOK, Tick, Time
<1>2. TypeOK'
  BY <1>1 DEF TypeInv, TypeOK, Tick, database, request, sweeping
<1> QED BY <1>2, RestKept DEF TypeInv, Tick

LEMMA StutterTyped == ASSUME TypeInv, UNCHANGED vars PROVE TypeInv'
<1>1. TypeOK'
  BY DEF TypeInv, TypeOK, vars, database, request, sweeping
<1> QED BY <1>1, RestKept DEF TypeInv, vars

LEMMA TypeStep == ASSUME TypeInv, [Next]_vars PROVE TypeInv'
BY CreateTyped, AbandonTyped, SweepListTyped, SweepIndexTyped, SweepDeleteTyped, SweepFailsTyped,
   WriteTyped, DeleteTyped, ExpireVersionTyped, TickTyped, StutterTyped, Zenon
DEF Next, Sweep

LEMMA Typed == Spec => []TypeInv
<1>1. TypeInv /\ [Next]_vars => TypeInv'
  BY TypeStep
<1> QED BY <1>1, TypeInit, PTL DEF Spec

(* Every variable keeps its type: in particular the attempts of a request, the page it has *)
(* read up to and the cursor of the sweep stay in range.                                  *)
THEOREM TypeCorrect == Spec => []TypeOK
<1>1. TypeInv => TypeOK
  BY DEF TypeInv
<1> QED BY <1>1, Typed, PTL

-----------------------------------------------------------------------------
(* The index is bounded. *)

OneEach(entries) == \A e, f \in entries : e.sequence = f.sequence => e = f

(* Of entries of different sequences Newest keeps the highest ones. *)
LEMMA NewestOnes ==
  ASSUME NEW S, S \subseteq Entry, IsFiniteSet(S), OneEach(S)
  PROVE  /\ Newest(S) \subseteq S /\ Cardinality(Newest(S)) <= MaxCheckpoints
         /\ Newest(S) # S => Cardinality(Newest(S)) = MaxCheckpoints
         /\ \A e \in S \ Newest(S), f \in Newest(S) : f.sequence > e.sequence
<1> DEFINE key == [e \in S |-> MaxSequence - e.sequence]
           F == First(S, key, MaxCheckpoints)
<1>1. \A e \in S : e.sequence \in Sequence /\ e.expires \in Int
  BY SizeAssumption DEF Entry
<1>2. key \in [S -> Nat] /\ \A e, f \in S : key[e] < key[f] <=> f.sequence < e.sequence
  BY <1>1, SizeAssumption DEF Sequence
<1>3. \A e, f \in S : key[e] = key[f] => e = f
  BY <1>1, SizeAssumption DEF Sequence, OneEach
<1> HIDE DEF key
<1>4. \A e \in S : {f \in S : Newer(f, e)} = Below(S, key, e)
  <2> SUFFICES ASSUME NEW e \in S, NEW f \in S PROVE Newer(f, e) <=> key[f] < key[e]
    BY DEF Below
  <2>1. f.sequence = e.sequence => ~ (f.expires > e.expires)
    BY <1>1 DEF OneEach
  <2> QED BY <1>1, <1>2, <2>1 DEF Newer, Sequence
<1>5. Newest(S) = F
  BY <1>4 DEF Newest, First
<1>6. MaxCheckpoints \in Nat \ {0}
  BY SizeAssumption
<1>7. /\ F \subseteq S /\ Cardinality(F) <= MaxCheckpoints
      /\ \A e \in F, f \in S : key[f] < key[e] => f \in F
      /\ F # S => Cardinality(F) = MaxCheckpoints
  BY <1>2, <1>3, <1>6, FirstOnes
<1> HIDE DEF F
<1>8. ASSUME NEW e \in S \ F, NEW f \in F PROVE f.sequence > e.sequence
  <2>1. f \in S /\ f # e /\ ~ (key[e] < key[f])
    BY <1>7
  <2>2. f.sequence # e.sequence /\ ~ (f.sequence < e.sequence)
    BY <1>2, <2>1 DEF OneEach
  <2> QED BY <1>1, <2>1, <2>2 DEF Sequence
<1> QED BY <1>5, <1>7, <1>8

(* What a publication writes into an index whose entries are of different sequences. *)
LEMMA PublishedOnes ==
  ASSUME TypeInv, OneEach(index), NEW r \in Request, Publish(r)
  PROVE  /\ OneEach(index') /\ Cardinality(index') <= MaxCheckpoints
         /\ \A e \in Unexpired(index) \ index' :
              Cardinality(index') = MaxCheckpoints /\ \A f \in index' : f.sequence > e.sequence
<1> DEFINE S == Unexpired(seen[r]) \cup {EntryOf(r)}
<1>1. index' = Newest(S) /\ seen[r] = index /\ ~ Duplicate(r)
  BY DEF Publish
<1>2. S \subseteq Entry
  BY EntryTyped DEF TypeInv, TypeOK, Unexpired
<1>3. IsFiniteSet(S)
  <2>1. Unexpired(seen[r]) \in SUBSET seen[r] /\ IsFiniteSet(seen[r])
    BY DEF Unexpired, TypeInv, Finite
  <2> QED BY <2>1, FS_Subset, FS_AddElement
<1>4. OneEach(S)
  <2>1. Unexpired(seen[r]) \subseteq index /\ EntryOf(r).sequence = start[r].sequence
    BY <1>1 DEF Unexpired, EntryOf
  <2>2. \A e \in Unexpired(seen[r]) : e.sequence # EntryOf(r).sequence
    BY <1>1, <2>1 DEF Duplicate
  <2> HIDE DEF Unexpired, EntryOf
  <2> QED BY <2>1, <2>2 DEF OneEach
<1>5. Unexpired(index) \subseteq S
  BY <1>1
<1> HIDE DEF S
<1>6. /\ Newest(S) \subseteq S /\ Cardinality(Newest(S)) <= MaxCheckpoints
      /\ Newest(S) # S => Cardinality(Newest(S)) = MaxCheckpoints
      /\ \A e \in S \ Newest(S), f \in Newest(S) : f.sequence > e.sequence
  BY <1>2, <1>3, <1>4, NewestOnes
<1>7. OneEach(index')
  BY <1>1, <1>4, <1>6 DEF OneEach
<1> QED BY <1>1, <1>5, <1>6, <1>7

(* Only a publication replaces the index. *)
LEMMA IndexReplaced ==
  ASSUME [Next]_vars
  PROVE  UNCHANGED index \/ \E r \in Request : Publish(r)
BY DEF Next, Create, Sweep, vars, Write, Delete, Changed, ExpireVersion, Begin, Lookup, Mark, ReadPage, Verify,
       StoreInventory, FetchIndex, Superseded, PublishConflict, DeleteDropped, Abandon,
       SweepList, SweepIndex, SweepDelete, SweepFails, Tick

(* However many requests race, the index lists a sequence once and no more entries than *)
(* the code allows.                                                                      *)
THEOREM IndexStaysBounded == Spec => []IndexBounded
<1>1. Init => IndexBounded
  BY FS_EmptySet, SizeAssumption DEF Init, IndexBounded
<1>2. ASSUME TypeInv, IndexBounded, [Next]_vars PROVE IndexBounded'
  <2>1. CASE UNCHANGED index
    BY <1>2, <2>1 DEF IndexBounded
  <2>2. ASSUME NEW r \in Request, Publish(r) PROVE IndexBounded'
    BY <1>2, <2>2, PublishedOnes DEF IndexBounded, OneEach
  <2> QED BY <1>2, <2>1, <2>2, IndexReplaced
<1> QED BY <1>1, <1>2, Typed, PTL DEF Spec

(* No step takes an entry out of the index before it expires, unless the index is full of *)
(* newer ones: a writer that replaces the index never undoes another's publication.       *)
THEOREM OnlyOldestEvicted == Spec => EvictsOldest
<1> DEFINE Evicts == \A e \in Unexpired(index) \ index' :
                       /\ Cardinality(index') = MaxCheckpoints
                       /\ \A f \in index' : f.sequence > e.sequence
<1>1. ASSUME TypeInv, IndexBounded, [Next]_vars PROVE Evicts
  <2>1. CASE UNCHANGED index
    BY <2>1 DEF Unexpired
  <2>2. ASSUME NEW r \in Request, Publish(r) PROVE Evicts
    BY <1>1, <2>2, PublishedOnes DEF IndexBounded, OneEach
  <2> QED BY <1>1, <2>1, <2>2, IndexReplaced
<1> HIDE DEF Evicts
<1>2. TypeInv /\ IndexBounded /\ [Next]_vars => [Evicts]_vars
  BY <1>1
<1>3. Spec => [][Evicts]_vars
  BY <1>2, Typed, IndexStaysBounded, PTL DEF Spec
<1> QED BY <1>3, PTL DEF EvictsOldest, Evicts

-----------------------------------------------------------------------------
(* Listed checkpoints have their inventories. *)

ToPublish(r) == pc[r] \in {"fetching", "publishing"}

(* A request began at an instant that is over. *)
Begun == \A r \in Request : start[r].sequence <= sequence /\ start[r].now <= now

(* The entries are those of requests that no longer publish. *)
EntriesEnded == \A e \in index : e = EntryOf(e.id) /\ ~ Unpublished(e.id)

(* What a request is about to delete no entry names, and no request will name. *)
DroppedUnlisted ==
  \A r \in Request : pc[r] = "deleting" =>
    \A q \in dropped[r] : ~ Unpublished(q) /\ \A e \in index : e.id # q

Published == \A r \in Request : ToPublish(r) => objects[r] # None /\ now <= objects[r].uploaded + Life

(* What was listed since the sweep read the index is too young to be swept. *)
SweepInTime ==
  sweep = "indexed" =>
    /\ indexedAt <= now /\ now <= indexedAt + Life
    /\ \A e \in index :
         e \in named \/ e.expires <= now \/ (objects[e.id] # None => objects[e.id].uploaded >= indexedAt - Life)

IndexInv == Begun /\ EntriesEnded /\ DroppedUnlisted /\ Published /\ SweepInTime /\ ListedIsStored

LEMMA IndexInit == Init => IndexInv
<1> SUFFICES ASSUME Init PROVE IndexInv
  OBVIOUS
<1>1. Begun
  BY DEF Init, Begun
<1> QED BY <1>1 DEF Init, IndexInv, EntriesEnded, DroppedUnlisted, Published, ToPublish, SweepInTime,
                    ListedIsStored, Unexpired

(* A step of the database. *)
LEMMA ChangeKeepsIndex ==
  ASSUME TypeInv, IndexInv, UNCHANGED <<now, index, objects, request, sweeping>>,
         sequence' \in Sequence, sequence <= sequence'
  PROVE  IndexInv'
<1>1. Begun'
  BY DEF TypeInv, TypeOK, IndexInv, Begun, request, Sequence
<1> QED BY <1>1
    DEF IndexInv, EntriesEnded, EntryOf, Unpublished, DroppedUnlisted, Published, ToPublish, SweepInTime,
        ListedIsStored, Unexpired, request, sweeping

(* A step of a request before it publishes: it leaves the index and what others stored alone. *)
LEMMA PreparationKeepsIndex ==
  ASSUME TypeInv, IndexInv, NEW r \in Request, Unpublished(r), UNCHANGED <<now, sequence, index, sweeping>>,
         \A q \in Request \ {r} : /\ pc'[q] = pc[q] /\ start'[q] = start[q] /\ dropped'[q] = dropped[q]
                                  /\ objects'[q] = objects[q],
         start'[r].sequence <= sequence, start'[r].now <= now,
         pc'[r] = "deleting" => dropped'[r] = {r} /\ ~ Unpublished(r)',
         pc'[r] \in {"fetching", "publishing"} => objects'[r] # None /\ now <= objects'[r].uploaded + Life
  PROVE  IndexInv'
<1>1. Begun'
  BY DEF IndexInv, Begun
<1>2. \A e \in index : e.id \in Request \ {r}
  BY DEF TypeInv, TypeOK, Entry, IndexInv, EntriesEnded
<1>3. EntriesEnded'
  BY <1>2 DEF IndexInv, EntriesEnded, EntryOf, Unpublished
<1>4. ASSUME NEW q \in Request, pc'[q] = "deleting", NEW d \in dropped'[q]
      PROVE  ~ Unpublished(d)' /\ \A e \in index' : e.id # d
  <2>1. CASE q = r
    BY <1>2, <1>4, <2>1
  <2>2. CASE q # r
    <3>1. d \in Request /\ ~ Unpublished(d) /\ \A e \in index : e.id # d
      BY <1>4, <2>2 DEF TypeInv, TypeOK, IndexInv, DroppedUnlisted
    <3> QED BY <3>1 DEF Unpublished
  <2> QED BY <2>1, <2>2
<1>5. DroppedUnlisted'
  BY <1>4 DEF DroppedUnlisted
<1>6. Published'
  BY DEF IndexInv, Published, ToPublish
<1>7. SweepInTime'
  BY <1>2 DEF IndexInv, SweepInTime, sweeping
<1>8. ListedIsStored'
  BY <1>2 DEF IndexInv, ListedIsStored, Unexpired
<1> QED BY <1>1, <1>3, <1>5, <1>6, <1>7, <1>8 DEF IndexInv

LEMMA PublishKeepsIndex ==
  ASSUME TypeInv, IndexInv, NEW r \in Request, Publish(r)
  PROVE  IndexInv'
<1>1. /\ pc[r] = "publishing" /\ pc' = [pc EXCEPT ![r] = "deleting"] /\ index = seen[r]
      /\ dropped' = [dropped EXCEPT ![r] = {e.id : e \in index \ index'}]
      /\ UNCHANGED <<now, sequence, objects, start, sweeping>>
  BY DEF Publish, Discard, database
<1>2. index' \subseteq Unexpired(index) \cup {EntryOf(r)}
  BY DEF Publish, Newest
<1>3. Unexpired(index) \subseteq index /\ \A e \in index : e.id \in Request \ {r}
  BY <1>1 DEF TypeInv, TypeOK, Entry, IndexInv, EntriesEnded, Unpublished, Unexpired
<1>4. EntryOf(r).id = r /\ \A q \in Request : EntryOf(q)' = EntryOf(q)
  BY <1>1 DEF EntryOf
<1>5. \A q \in Request : ~ Unpublished(q) => ~ Unpublished(q)'
  BY <1>1 DEF TypeInv, TypeOK, Unpublished
<1>6. ~ Unpublished(r)' /\ Unpublished(r)
  BY <1>1 DEF TypeInv, TypeOK, Unpublished
<1>7. Begun'
  BY <1>1 DEF IndexInv, Begun
<1>8. EntriesEnded'
  <2> SUFFICES ASSUME NEW e \in index' PROVE e = EntryOf(e.id)' /\ ~ Unpublished(e.id)'
    BY DEF EntriesEnded
  <2>1. CASE e \in index
    BY <1>3, <1>4, <1>5, <2>1 DEF IndexInv, EntriesEnded
  <2>2. CASE e = EntryOf(r)
    BY <1>4, <1>6, <2>2
  <2> QED BY <1>2, <1>3, <2>1, <2>2
<1>9. ASSUME NEW q \in Request, pc'[q] = "deleting", NEW d \in dropped'[q]
      PROVE  ~ Unpublished(d)' /\ \A e \in index' : e.id # d
  <2>1. CASE q = r
    <3>1. PICK e \in index \ index' : d = e.id
      BY <1>1, <1>9, <2>1 DEF TypeInv, TypeOK
    <3>2. e = EntryOf(d) /\ d \in Request \ {r} /\ ~ Unpublished(d)
      BY <1>3, <3>1 DEF IndexInv, EntriesEnded
    <3>3. \A f \in index : f.id = d => f = e
      BY <3>2 DEF IndexInv, EntriesEnded
    <3> QED BY <1>2, <1>3, <1>4, <1>5, <3>1, <3>2, <3>3
  <2>2. CASE q # r
    <3>1. d \in Request /\ ~ Unpublished(d) /\ \A e \in index : e.id # d
      BY <1>1, <1>9, <2>2 DEF TypeInv, TypeOK, IndexInv, DroppedUnlisted
    <3> QED BY <1>2, <1>3, <1>4, <1>5, <1>6, <3>1
  <2> QED BY <2>1, <2>2
<1>10. DroppedUnlisted'
  BY <1>9 DEF DroppedUnlisted
<1>11. Published'
  BY <1>1 DEF TypeInv, TypeOK, IndexInv, Published, ToPublish
<1>12. objects[r] # None /\ objects[r].uploaded \in Nat /\ now <= objects[r].uploaded + Life
  BY <1>1 DEF TypeInv, TypeOK, Inventory, Time, IndexInv, Published, ToPublish
<1>13. SweepInTime'
  <2> SUFFICES ASSUME sweep = "indexed"
               PROVE  /\ indexedAt <= now /\ now <= indexedAt + Life
                      /\ \A e \in index' : \/ e \in named \/ e.expires <= now
                                           \/ objects[e.id] # None => objects[e.id].uploaded >= indexedAt - Life
    BY <1>1 DEF SweepInTime, sweeping
  <2>1. indexedAt <= now /\ now <= indexedAt + Life
    BY DEF IndexInv, SweepInTime
  <2>2. objects[r].uploaded >= indexedAt - Life
    BY <1>12, <2>1, LifeAssumption, SizeAssumption DEF TypeInv, TypeOK, Time
  <2> QED BY <1>2, <1>3, <1>4, <2>1, <2>2 DEF IndexInv, SweepInTime
<1>14. ListedIsStored'
  BY <1>1, <1>2, <1>4, <1>12 DEF IndexInv, ListedIsStored, Unexpired
<1> QED BY <1>7, <1>8, <1>10, <1>11, <1>13, <1>14 DEF IndexInv

(* A request that deletes, or that ends. *)
LEMMA EndingKeepsIndex ==
  ASSUME TypeInv, IndexInv, NEW r \in Request, pc' = [pc EXCEPT ![r] = "done"],
         UNCHANGED <<now, sequence, index, start, dropped, sweeping>>,
         \A q \in Request :
           \/ objects'[q] = objects[q]
           \/ objects'[q] = None /\ ~ Unpublished(q) /\ \A e \in index : e.id # q
  PROVE  IndexInv'
<1>1. \A q \in Request : ~ Unpublished(q) => ~ Unpublished(q)'
  BY DEF TypeInv, TypeOK, Unpublished
<1>2. Begun'
  BY DEF IndexInv, Begun
<1>3. \A e \in index : e.id \in Request
  BY DEF TypeInv, TypeOK, Entry
<1>4. EntriesEnded'
  BY <1>1, <1>3 DEF IndexInv, EntriesEnded, EntryOf
<1>5. DroppedUnlisted'
  BY <1>1 DEF TypeInv, TypeOK, IndexInv, DroppedUnlisted
<1>6. Published'
  BY DEF TypeInv, TypeOK, IndexInv, Published, ToPublish, Unpublished
<1>7. SweepInTime'
  BY <1>3 DEF IndexInv, SweepInTime, sweeping
<1>8. ListedIsStored'
  BY <1>3 DEF IndexInv, ListedIsStored, Unexpired
<1> QED BY <1>2, <1>4, <1>5, <1>6, <1>7, <1>8 DEF IndexInv

LEMMA SweepDeleteKeepsIndex ==
  ASSUME TypeInv, IndexInv, SweepDelete
  PROVE  IndexInv'
<1>1. /\ UNCHANGED <<now, sequence, index, request>> /\ sweep' = "idle"
      /\ objects' = [r \in Request |-> IF r \in Garbage THEN None ELSE objects[r]]
  BY DEF SweepDelete, EndSweep, database
<1>2. \A r \in Garbage : /\ objects[r] # None /\ objects[r].uploaded < now - Day
                         /\ \A e \in Unexpired(named) : e.id # r
  BY DEF Garbage
<1>3. \A r \in Request : objects[r] # None => objects[r].uploaded \in Nat
  BY DEF TypeInv, TypeOK, Inventory, Time
<1>4. now \in Nat /\ indexedAt \in Nat
  BY DEF TypeInv, TypeOK, Time
<1>5. Begun' /\ EntriesEnded' /\ DroppedUnlisted' /\ SweepInTime'
  BY <1>1 DEF IndexInv, Begun, EntriesEnded, EntryOf, Unpublished, DroppedUnlisted, SweepInTime, request
<1>6. Published'
  <2>1. \A r \in Request : ToPublish(r) => r \notin Garbage
    BY <1>2, <1>3, <1>4, LifeAssumption DEF IndexInv, Published
  <2> QED BY <1>1, <2>1 DEF IndexInv, Published, ToPublish, request
<1>7. ASSUME NEW e \in Unexpired(index) PROVE e.id \notin Garbage
  <2>1. e \in index /\ e.expires > now /\ e.id \in Request /\ e.expires \in Int
    BY SizeAssumption DEF Unexpired, TypeInv, TypeOK, Entry
  <2>2. sweep = "indexed"
    BY DEF SweepDelete
  <2>3. CASE e \in named
    BY <1>2, <2>1, <2>3 DEF Unexpired
  <2>4. CASE objects[e.id] # None => objects[e.id].uploaded >= indexedAt - Life
    BY <1>2, <1>3, <1>4, <2>1, <2>2, <2>4, LifeAssumption DEF IndexInv, SweepInTime
  <2>5. ~ (e.expires <= now)
    BY <1>4, <2>1
  <2> QED BY <2>1, <2>2, <2>3, <2>4, <2>5 DEF IndexInv, SweepInTime
<1>8. ListedIsStored'
  BY <1>1, <1>7 DEF TypeInv, TypeOK, Entry, IndexInv, ListedIsStored, Unexpired
<1> QED BY <1>5, <1>6, <1>8 DEF IndexInv

LEMMA TickKeepsIndex == ASSUME TypeInv, IndexInv, Tick PROVE IndexInv'
<1>1. /\ now' = now + 1 /\ now \in Nat /\ InTime
      /\ UNCHANGED <<sequence, index, objects, request, sweeping>>
  BY DEF Tick, TypeInv, TypeOK, Time, database
<1>2. \A r \in Request : objects[r] # None => objects[r].uploaded \in Nat
  BY DEF TypeInv, TypeOK, Inventory, Time
<1>3. Begun'
  BY <1>1 DEF TypeInv, TypeOK, Time, IndexInv, Begun, request
<1>4. EntriesEnded' /\ DroppedUnlisted'
  BY <1>1 DEF IndexInv, EntriesEnded, EntryOf, Unpublished, DroppedUnlisted, request
<1>5. Published'
  BY <1>1, <1>2, LifeAssumption DEF IndexInv, Published, ToPublish, InTime, Stored, request
<1>6. SweepInTime'
  <2>1. \A e \in index : e.expires \in Int
    BY SizeAssumption DEF TypeInv, TypeOK, Entry
  <2>2. indexedAt \in Nat
    BY DEF TypeInv, TypeOK, Time
  <2> QED BY <1>1, <2>1, <2>2, LifeAssumption DEF IndexInv, SweepInTime, InTime, sweeping
<1>7. ListedIsStored'
  <2>1. \A e \in index : e.expires \in Int
    BY SizeAssumption DEF TypeInv, TypeOK, Entry
  <2> QED BY <1>1, <2>1 DEF IndexInv, ListedIsStored, Unexpired
<1> QED BY <1>3, <1>4, <1>5, <1>6, <1>7 DEF IndexInv

LEMMA CreateKeepsIndex == ASSUME TypeInv, IndexInv, NEW r \in Request, Create(r) PROVE IndexInv'
<1>1. start[r].sequence <= sequence /\ start[r].now <= now
  BY DEF IndexInv, Begun
<1>2. CASE Begin(r)
  BY <1>2, PreparationKeepsIndex DEF TypeInv, TypeOK, Time, Sequence, Begin, Step, Unpublished, database
<1>3. CASE Lookup(r)
  BY <1>1, <1>3, PreparationKeepsIndex DEF TypeInv, TypeOK, Lookup, Step, Unpublished, database
<1>4. CASE Mark(r)
  BY <1>1, <1>4, PreparationKeepsIndex DEF TypeInv, TypeOK, Mark, Step, Unpublished, database
<1>5. CASE ReadPage(r)
  BY <1>1, <1>5, PreparationKeepsIndex DEF TypeInv, TypeOK, ReadPage, Step, Unpublished, database
<1>6. CASE Verify(r)
  BY <1>1, <1>6, PreparationKeepsIndex DEF TypeInv, TypeOK, Verify, Step, Unpublished, database
<1>7. CASE StoreInventory(r)
  <2>1. [rows |-> rows[r], uploaded |-> now] # None
    BY MarkerAssumption DEF TypeInv, TypeOK, Inventory
  <2>2. objects'[r] # None /\ objects'[r].uploaded = now /\ now <= now + Life
    BY <1>7, <2>1, LifeAssumption DEF StoreInventory, TypeInv, TypeOK, Time
  <2> QED BY <1>1, <1>7, <2>2, PreparationKeepsIndex DEF TypeInv, TypeOK, StoreInventory, Step, Unpublished, database
<1>8. CASE FetchIndex(r)
  BY <1>1, <1>8, PreparationKeepsIndex
  DEF TypeInv, TypeOK, FetchIndex, Step, Unpublished, database, IndexInv, Published, ToPublish
<1>9. CASE Superseded(r)
  BY <1>1, <1>9, PreparationKeepsIndex DEF TypeInv, TypeOK, Superseded, Discard, Unpublished, database
<1>10. CASE Publish(r)
  BY <1>10, PublishKeepsIndex
<1>11. CASE PublishConflict(r)
  <2>1. objects[r] # None /\ now <= objects[r].uploaded + Life
    BY <1>11 DEF PublishConflict, IndexInv, Published, ToPublish
  <2> QED BY <1>1, <1>11, <2>1, PreparationKeepsIndex
          DEF TypeInv, TypeOK, PublishConflict, Discard, Unpublished, database
<1>12. CASE DeleteDropped(r)
  <2>1. \A d \in dropped[r] : ~ Unpublished(d) /\ \A e \in index : e.id # d
    BY <1>12 DEF DeleteDropped, Step, IndexInv, DroppedUnlisted
  <2>2. \A q \in Request : objects'[q] = IF q \in dropped[r] THEN None ELSE objects[q]
    BY <1>12 DEF DeleteDropped
  <2> QED BY <1>12, <2>1, <2>2, EndingKeepsIndex DEF DeleteDropped, Step, database
<1> QED BY <1>2, <1>3, <1>4, <1>5, <1>6, <1>7, <1>8, <1>9, <1>10, <1>11, <1>12 DEF Create

LEMMA AbandonKeepsIndex == ASSUME TypeInv, IndexInv, NEW r \in Request, Abandon(r) PROVE IndexInv'
BY EndingKeepsIndex DEF Abandon, database

LEMMA SweepKeepsIndex ==
  ASSUME TypeInv, IndexInv, SweepList \/ SweepIndex \/ SweepDelete \/ SweepFails
  PROVE  IndexInv'
<1>1. CASE SweepList \/ SweepFails
  BY <1>1 DEF SweepList, SweepFails, EndSweep, IndexInv, Begun, EntriesEnded, EntryOf, Unpublished, DroppedUnlisted,
              Published, ToPublish, SweepInTime, ListedIsStored, Unexpired, database, request
<1>2. CASE SweepIndex
  <2>1. now <= now + Life
    BY LifeAssumption DEF TypeInv, TypeOK, Time
  <2> QED BY <1>2, <2>1
      DEF SweepIndex, IndexInv, Begun, EntriesEnded, EntryOf, Unpublished, DroppedUnlisted,
          Published, ToPublish, SweepInTime, ListedIsStored, Unexpired, database, request, TypeInv, TypeOK, Time
<1>3. CASE SweepDelete
  BY <1>3, SweepDeleteKeepsIndex
<1> QED BY <1>1, <1>2, <1>3

LEMMA DatabaseKeepsIndex ==
  ASSUME TypeInv, IndexInv, TypeInv',
         \/ \E p \in Path : Write(p) \/ Delete(p)
         \/ \E v \in versions : ExpireVersion(v)
         \/ UNCHANGED vars
  PROVE  IndexInv'
<1>1. sequence' \in Sequence /\ sequence <= sequence'
  BY DEF TypeInv, TypeOK, Sequence, Write, Delete, Changed, ExpireVersion, vars, database
<1>2. UNCHANGED <<now, index, objects, request, sweeping>>
  BY DEF Write, Delete, Changed, ExpireVersion, vars
<1> QED BY <1>1, <1>2, ChangeKeepsIndex

LEMMA IndexStep == ASSUME TypeInv, IndexInv, [Next]_vars PROVE IndexInv'
BY CreateKeepsIndex, AbandonKeepsIndex, SweepKeepsIndex, TickKeepsIndex, DatabaseKeepsIndex, TypeStep, Zenon
DEF Next, Sweep

LEMMA IndexCorrect == Spec => []IndexInv
<1>1. TypeInv /\ IndexInv /\ [Next]_vars => IndexInv'
  BY IndexStep
<1> QED BY <1>1, IndexInit, Typed, PTL DEF Spec

(* The index never lists a checkpoint whose inventory is gone: a request that gives up, an *)
(* eviction and a sweep that read the index before a publication all spare it.             *)
THEOREM ListedStaysStored == Spec => []ListedIsStored
<1>1. IndexInv => ListedIsStored
  BY DEF IndexInv
<1> QED BY <1>1, IndexCorrect, PTL

-----------------------------------------------------------------------------
(* An inventory is the vault of one instant. *)

(* What the vault was is recorded up to the present. *)
Recorded ==
  /\ vault[sequence] = Live(files)
  /\ \A p \in Path : files[p] # None => files[p].modified <= now
  /\ mark # None => mark <= now

Fresh(r) == rows[r] = {} /\ after[r] = 0

(* As long as nothing changed the pages read so far are the live rows up to the last path read. *)
ReadUpTo(r) ==
  sequence = start[r].sequence =>
    /\ pc[r] = "reading" => rows[r] = {row \in Live(files) : row[1] <= after[r]}
    /\ pc[r] = "read" => rows[r] = Live(files)

Inventoried(r) ==
  /\ pc[r] \in {"idle", "begun", "marking"} => Fresh(r)
  /\ pc[r] \in {"storing", "fetching", "publishing"} => rows[r] = vault[start[r].sequence]
  /\ objects[r] # None => /\ pc[r] \in {"fetching", "publishing", "deleting", "done"}
                          /\ objects[r].rows = vault[start[r].sequence]

RowsInv == Recorded /\ \A r \in Request : ReadUpTo(r) /\ Inventoried(r)

LEMMA RowsInit == Init => RowsInv
<1> SUFFICES ASSUME Init PROVE RowsInv
  OBVIOUS
<1>1. Recorded
  BY SizeAssumption DEF Init, Recorded, Live, Sequence
<1> QED BY <1>1 DEF Init, RowsInv, ReadUpTo, Inventoried, Fresh

(* The vault of an instant that is over is not rewritten. *)
LEMMA PastKept ==
  ASSUME TypeInv, NEW p \in Path, NEW row, Changed(p, row)
  PROVE  /\ sequence' = sequence + 1 /\ sequence' \in Sequence /\ sequence \in Nat
         /\ vault'[sequence'] = Live(files)'
         /\ \A n \in Sequence : n <= sequence => vault'[n] = vault[n]
<1>1. sequence \in Nat /\ sequence + 1 \in Sequence
  BY SizeAssumption DEF TypeInv, TypeOK, Changed, Sequence
<1>2. vault' = [vault EXCEPT ![sequence + 1] = Live(files')] /\ sequence' = sequence + 1
  BY DEF Changed
<1>3. Live(files') = Live(files)'
  BY DEF Live
<1> HIDE DEF Live
<1>4. vault'[sequence'] = Live(files)'
  BY <1>1, <1>2, <1>3 DEF TypeInv, TypeOK
<1>5. \A n \in Sequence : n <= sequence => vault'[n] = vault[n]
  BY <1>1, <1>2 DEF TypeInv, TypeOK, Sequence
<1> QED BY <1>1, <1>2, <1>4, <1>5

LEMMA ChangedKeepsRows ==
  ASSUME TypeInv, IndexInv, RowsInv, NEW p \in Path, NEW row \in File \cup {None},
         row # None => row.modified <= now, Changed(p, row)
  PROVE  RowsInv'
<1>1. /\ sequence' = sequence + 1 /\ sequence' \in Sequence /\ sequence \in Nat
      /\ vault'[sequence'] = Live(files)'
      /\ \A n \in Sequence : n <= sequence => vault'[n] = vault[n]
  BY PastKept
<1>2. UNCHANGED <<now, mark, objects, request>> /\ files' = [files EXCEPT ![p] = row]
  BY DEF Changed
<1>3. Recorded'
  BY <1>1, <1>2 DEF TypeInv, TypeOK, RowsInv, Recorded
<1>4. ASSUME NEW r \in Request PROVE ReadUpTo(r)' /\ Inventoried(r)'
  <2>1. start[r].sequence \in Sequence /\ start[r].sequence <= sequence
    BY DEF TypeInv, TypeOK, IndexInv, Begun
  <2>2. vault'[start[r].sequence] = vault[start[r].sequence] /\ sequence' # start[r].sequence
    BY <1>1, <2>1 DEF Sequence
  <2> QED BY <1>2, <2>2 DEF RowsInv, ReadUpTo, Inventoried, Fresh, request
<1> QED BY <1>3, <1>4 DEF RowsInv

(* A step of a request that reads and stores nothing. *)
LEMMA StepKeepsRows ==
  ASSUME TypeInv, RowsInv, NEW r \in Request, UNCHANGED <<now, sequence, files, after, rows, vault>>,
         \A q \in Request : objects'[q] = objects[q] \/ objects'[q] = None,
         \A q \in Request \ {r} : pc'[q] = pc[q],
         \A q \in Request : start'[q] = start[q] \/ (q = r /\ pc[r] = "idle" /\ pc'[r] = "begun"),
         mark' = mark \/ mark' = now,
         pc'[r] \notin {"idle", "begun", "marking"} \/ Fresh(r),
         pc'[r] = "reading" => Fresh(r), pc'[r] # "read",
         pc'[r] \in {"storing", "fetching", "publishing"} =>
           \/ pc[r] \in {"storing", "fetching", "publishing"}
           \/ pc[r] = "read" /\ sequence = start[r].sequence,
         pc[r] \in {"fetching", "publishing", "deleting", "done"} =>
           pc'[r] \in {"fetching", "publishing", "deleting", "done"}
  PROVE  RowsInv'
<1>1. Recorded'
  BY DEF TypeInv, TypeOK, Time, RowsInv, Recorded
<1>2. ASSUME NEW q \in Request PROVE ReadUpTo(q)'
  <2>1. CASE q = r
    <3>1. \A row \in Live(files) : ~ (row[1] <= 0)
      BY DEF Live, Path
    <3> QED BY <2>1, <3>1 DEF ReadUpTo, Fresh
  <2>2. CASE q # r
    BY <2>2 DEF RowsInv, ReadUpTo
  <2> QED BY <2>1, <2>2
<1>3. ASSUME NEW q \in Request PROVE Inventoried(q)'
  <2>1. CASE q = r
    BY <2>1 DEF RowsInv, Recorded, ReadUpTo, Inventoried, Fresh
  <2>2. CASE q # r
    BY <2>2 DEF RowsInv, Inventoried, Fresh
  <2> QED BY <2>1, <2>2
<1> QED BY <1>1, <1>2, <1>3 DEF RowsInv

(* One page: the live rows up to the last path read, all of them when the page is short. *)
LEMMA PageRead ==
  ASSUME TypeInv, NEW r \in Request, ReadPage(r), rows[r] = {row \in Live(files) : row[1] <= after[r]}
  PROVE  /\ pc'[r] = "reading" => rows'[r] = {row \in Live(files) : row[1] <= after'[r]}
         /\ pc'[r] = "read" => rows'[r] = Live(files)
<1> DEFINE rest == {p \in Path : p > after[r] /\ files[p] # None}
           short == Cardinality(Page(r)) < PageSize
<1>1. Page(r) = Smallest(rest, PageSize)
  BY DEF Page, Smallest
<1>2. rest \subseteq Path /\ rest \subseteq Nat /\ IsFiniteSet(rest)
  <2>1. rest \in SUBSET Path
    OBVIOUS
  <2>2. IsFiniteSet(Path) /\ Path \subseteq Nat
    BY SizeAssumption, FS_Interval DEF Path
  <2> HIDE DEF rest
  <2> QED BY <2>1, <2>2, FS_Subset
<1> HIDE DEF rest
<1>3. /\ Page(r) \subseteq rest
      /\ \A p \in Page(r), q \in rest : q < p => q \in Page(r)
      /\ short => Page(r) = rest
  <2>1. PageSize \in Nat \ {0}
    BY SizeAssumption
  <2> DEFINE first == Smallest(rest, PageSize)
  <2>2. /\ first \subseteq rest
        /\ \A p \in first, q \in rest : q < p => q \in first
        /\ Cardinality(first) < PageSize => first = rest
    BY <1>2, <2>1, SmallestOnes
  <2> HIDE DEF first
  <2>3. Page(r) = first
    BY <1>1 DEF first
  <2> QED BY <2>2, <2>3
<1>4. rows'[r] = rows[r] \cup {<<p, files[p].revision>> : p \in Page(r)}
  BY DEF ReadPage, TypeInv, TypeOK
<1>5. after[r] \in Int
  BY DEF TypeInv, TypeOK
<1>6. \A row \in Live(files) : row[1] \in Path /\ files[row[1]] # None /\ row = <<row[1], files[row[1]].revision>>
  BY DEF Live
<1>7. \A p \in Path : files[p] # None => <<p, files[p].revision>> \in Live(files)
  BY DEF Live
<1>8. \A row \in Live(files) : row[1] <= after[r] \/ row[1] \in rest
  BY <1>5, <1>6 DEF rest, Path
<1>9. \A p \in Page(r) : <<p, files[p].revision>> \in Live(files) /\ p > after[r]
  BY <1>3, <1>7 DEF rest
<1>10. CASE short
  <2>1. pc'[r] = "read"
    BY <1>10 DEF ReadPage, Step, TypeInv, TypeOK
  <2>2. rows'[r] \subseteq Live(files)
    BY <1>4, <1>9
  <2>3. ASSUME NEW row \in Live(files) PROVE row \in rows'[r]
    BY <1>3, <1>4, <1>6, <1>8, <1>10
  <2> QED BY <2>1, <2>2, <2>3
<1>11. CASE ~ short
  <2> DEFINE last == CHOOSE p \in Page(r) : \A q \in Page(r) : q <= p
  <2>1. last \in Page(r) /\ \A q \in Page(r) : q <= last
    BY <1>11, PageOfPaths DEF TypeInv
  <2>2. after'[r] = last /\ pc'[r] = "reading"
    BY <1>11 DEF ReadPage, Step, TypeInv, TypeOK
  <2> HIDE DEF last
  <2>3. last \in Nat /\ last > after[r]
    BY <1>2, <1>3, <1>9, <2>1
  <2>4. ASSUME NEW row \in rows'[r] PROVE row \in Live(files) /\ row[1] <= last
    <3>1. CASE row \in rows[r]
      BY <1>5, <1>6, <2>3, <3>1 DEF Path
    <3>2. CASE row \in {<<p, files[p].revision>> : p \in Page(r)}
      BY <1>9, <2>1, <3>2
    <3> QED BY <1>4, <3>1, <3>2
  <2>5. ASSUME NEW row \in Live(files), row[1] <= last PROVE row \in rows'[r]
    <3>1. CASE row[1] <= after[r]
      BY <1>4, <3>1
    <3>2. CASE row[1] \in rest
      <4>1. row[1] \in Nat
        BY <1>2, <3>2
      <4>2. row[1] = last \/ row[1] < last
        BY <2>3, <2>5, <4>1
      <4>3. row[1] \in Page(r)
        BY <1>3, <2>1, <3>2, <4>2
      <4> QED BY <1>4, <1>6, <4>3
    <3> QED BY <1>8, <3>1, <3>2
  <2> QED BY <2>2, <2>4, <2>5
<1> QED BY <1>10, <1>11

LEMMA ReadPageKeepsRows ==
  ASSUME TypeInv, RowsInv, NEW r \in Request, ReadPage(r)
  PROVE  RowsInv'
<1>1. /\ UNCHANGED <<now, sequence, files, mark, objects, start, vault>>
      /\ pc[r] = "reading" /\ pc'[r] \in {"reading", "read"}
      /\ \A q \in Request \ {r} : pc'[q] = pc[q] /\ after'[q] = after[q] /\ rows'[q] = rows[q]
  BY DEF ReadPage, Step, database, TypeInv, TypeOK
<1>2. Recorded'
  BY <1>1 DEF RowsInv, Recorded, Live
<1>3. ReadUpTo(r)'
  <2>1. sequence = start[r].sequence => rows[r] = {row \in Live(files) : row[1] <= after[r]}
    BY <1>1 DEF RowsInv, ReadUpTo
  <2> QED BY <1>1, <2>1, PageRead DEF ReadUpTo, Live
<1>4. \A q \in Request \ {r} : ReadUpTo(q)'
  BY <1>1 DEF RowsInv, ReadUpTo, Live
<1>5. \A q \in Request : Inventoried(q)'
  BY <1>1 DEF RowsInv, Inventoried, Fresh
<1> QED BY <1>2, <1>3, <1>4, <1>5 DEF RowsInv

LEMMA StoreInventoryKeepsRows ==
  ASSUME TypeInv, RowsInv, NEW r \in Request, StoreInventory(r)
  PROVE  RowsInv'
<1>1. /\ UNCHANGED <<now, sequence, files, mark, start, after, rows, vault>>
      /\ pc[r] = "storing" /\ pc'[r] = "fetching" /\ objects'[r] = [rows |-> rows[r], uploaded |-> now]
      /\ \A q \in Request \ {r} : pc'[q] = pc[q] /\ objects'[q] = objects[q]
  BY DEF StoreInventory, Step, database, TypeInv, TypeOK
<1>2. objects'[r].rows = rows[r]
  BY <1>1
<1>3. Recorded'
  BY <1>1 DEF RowsInv, Recorded, Live
<1>4. \A q \in Request : ReadUpTo(q)'
  BY <1>1 DEF RowsInv, ReadUpTo, Live
<1>5. Inventoried(r)'
  BY <1>1, <1>2 DEF RowsInv, Inventoried
<1>6. \A q \in Request \ {r} : Inventoried(q)'
  BY <1>1 DEF RowsInv, Inventoried, Fresh
<1> QED BY <1>3, <1>4, <1>5, <1>6 DEF RowsInv

LEMMA CreateKeepsRows == ASSUME TypeInv, RowsInv, NEW r \in Request, Create(r) \/ Abandon(r) PROVE RowsInv'
<1>1. CASE Begin(r)
  BY <1>1, StepKeepsRows DEF TypeInv, TypeOK, Begin, Step, database, RowsInv, Inventoried
<1>2. CASE Lookup(r)
  BY <1>2, StepKeepsRows DEF TypeInv, TypeOK, Lookup, Step, database, RowsInv, Inventoried
<1>3. CASE Mark(r)
  BY <1>3, StepKeepsRows DEF TypeInv, TypeOK, Mark, Step, database, RowsInv, Inventoried
<1>4. CASE ReadPage(r)
  BY <1>4, ReadPageKeepsRows
<1>5. CASE Verify(r)
  BY <1>5, StepKeepsRows DEF TypeInv, TypeOK, Verify, Step, database
<1>6. CASE StoreInventory(r)
  BY <1>6, StoreInventoryKeepsRows
<1>7. CASE FetchIndex(r)
  BY <1>7, StepKeepsRows DEF TypeInv, TypeOK, FetchIndex, Step, database
<1>8. CASE Superseded(r)
  BY <1>8, StepKeepsRows DEF TypeInv, TypeOK, Superseded, Discard, database
<1>9. CASE Publish(r)
  <2>1. /\ UNCHANGED <<now, database, objects, start, after, rows, vault>>
        /\ pc[r] = "publishing" /\ pc' = [pc EXCEPT ![r] = "deleting"]
    BY <1>9 DEF Publish, Discard
  <2> QED BY <2>1, StepKeepsRows DEF TypeInv, TypeOK, database
<1>10. CASE PublishConflict(r)
  BY <1>10, StepKeepsRows DEF TypeInv, TypeOK, PublishConflict, Discard, database
<1>11. CASE DeleteDropped(r)
  BY <1>11, StepKeepsRows DEF TypeInv, TypeOK, DeleteDropped, Step, database
<1>12. CASE Abandon(r)
  BY <1>12, StepKeepsRows DEF TypeInv, TypeOK, Abandon, database
<1> QED BY <1>1, <1>2, <1>3, <1>4, <1>5, <1>6, <1>7, <1>8, <1>9, <1>10, <1>11, <1>12 DEF Create

LEMMA RestKeepsRows ==
  ASSUME TypeInv, RowsInv,
         \/ \E v \in versions : ExpireVersion(v)
         \/ Sweep \/ SweepFails \/ Tick \/ UNCHANGED vars
  PROVE  RowsInv'
<1>1. UNCHANGED <<sequence, files, mark, pc, start, after, rows, vault>> /\ (now' = now \/ now' = now + 1)
  BY DEF ExpireVersion, Sweep, SweepList, SweepIndex, SweepDelete, SweepFails, Tick, vars, database, request
<1>2. \A r \in Request : objects'[r] = objects[r] \/ objects'[r] = None
  BY DEF ExpireVersion, Sweep, SweepList, SweepIndex, SweepDelete, SweepFails, Tick, vars
<1>3. Recorded'
  BY <1>1 DEF TypeInv, TypeOK, Time, RowsInv, Recorded, Live
<1>4. \A r \in Request : ReadUpTo(r)' /\ Inventoried(r)'
  BY <1>1, <1>2 DEF RowsInv, ReadUpTo, Inventoried, Fresh, Live
<1> QED BY <1>3, <1>4 DEF RowsInv

LEMMA WritesKeepRows ==
  ASSUME TypeInv, IndexInv, RowsInv, NEW p \in Path, Write(p) \/ Delete(p)
  PROVE  RowsInv'
<1>1. CASE Write(p)
  <2> DEFINE row == [revision |-> sequence + 1, modified |-> now]
  <2>1. Changed(p, row) /\ row \in File
    BY <1>1, FileRow DEF Write, Changed
  <2>2. row.modified <= now
    BY DEF TypeInv, TypeOK, Time
  <2> HIDE DEF row
  <2> QED BY <2>1, <2>2, ChangedKeepsRows
<1>2. CASE Delete(p)
  BY <1>2, ChangedKeepsRows DEF Delete
<1> QED BY <1>1, <1>2

LEMMA RowsStep == ASSUME TypeInv, IndexInv, RowsInv, [Next]_vars PROVE RowsInv'
BY CreateKeepsRows, RestKeepsRows, WritesKeepRows, Zenon DEF Next

LEMMA RowsCorrect == Spec => []RowsInv
<1>1. TypeInv /\ IndexInv /\ RowsInv /\ [Next]_vars => RowsInv'
  BY RowsStep
<1> QED BY <1>1, RowsInit, Typed, IndexCorrect, PTL DEF Spec

(* An inventory read in pages, outside any transaction and while files change, is the vault *)
(* of the one sequence the index gives it.                                                  *)
THEOREM InventoriesAreInstants == Spec => []InventoryIsAnInstant
<1>1. ASSUME TypeInv, IndexInv, RowsInv PROVE InventoryIsAnInstant
  <2> SUFFICES ASSUME NEW e \in index, objects[e.id] # None
               PROVE  objects[e.id].rows = vault[e.sequence]
    BY DEF InventoryIsAnInstant
  <2>1. e.id \in Request /\ e.sequence = start[e.id].sequence
    BY <1>1 DEF TypeInv, TypeOK, Entry, IndexInv, EntriesEnded, EntryOf
  <2> QED BY <1>1, <2>1 DEF RowsInv, Inventoried
<1>2. TypeInv /\ IndexInv /\ RowsInv => InventoryIsAnInstant
  BY <1>1
<1> QED BY <1>2, Typed, IndexCorrect, RowsCorrect, PTL

-----------------------------------------------------------------------------
(* The copies a listed checkpoint names are kept. *)

(* A revision is kept until it expires: it is live and older than the mark, so the write that *)
(* replaces it keeps it, or it is among the versions.                                         *)
Kept(row, expires) ==
  \/ /\ files[row[1]] # None /\ files[row[1]].revision = row[2]
     /\ mark # None /\ files[row[1]].modified <= mark
  \/ \E v \in versions : v.path = row[1] /\ v.revision = row[2] /\ v.expires >= expires

KeptFor(n, expires) == expires > now => \A row \in vault[n] : Kept(row, expires)

(* While nothing changed since it began, all that a request reads is older than the mark. *)
Marked(r) ==
  pc[r] \in {"reading", "read"} /\ sequence = start[r].sequence =>
    mark # None /\ \A p \in Path : files[p] # None => files[p].modified <= mark

ToList(r) == pc[r] \in {"storing", "fetching", "publishing"}

KeptInv ==
  /\ \A r \in Request : Marked(r) /\ (ToList(r) => KeptFor(start[r].sequence, start[r].now + Retention))
  /\ \A e \in index : KeptFor(e.sequence, e.expires)

LEMMA KeptInit == Init => KeptInv
BY DEF Init, KeptInv, Marked, ToList

(* A write or delete copies what it replaces, when it was kept. *)
LEMMA ReplacedKept ==
  ASSUME TypeInv, NEW p \in Path, Write(p) \/ Delete(p),
         NEW row \in Row, NEW expires \in Int, expires <= now + Retention, Kept(row, expires)
  PROVE  Kept(row, expires)'
<1>1. UNCHANGED mark /\ versions \subseteq versions' /\ \A q \in Path \ {p} : files'[q] = files[q]
  BY DEF Write, Delete, Changed, TypeInv, TypeOK
<1>2. row[1] \in Path
  BY DEF Row
<1>3. CASE \E v \in versions : v.path = row[1] /\ v.revision = row[2] /\ v.expires >= expires
  BY <1>1, <1>3 DEF Kept
<1>4. CASE row[1] # p /\ files[row[1]] # None /\ files[row[1]].revision = row[2]
           /\ mark # None /\ files[row[1]].modified <= mark
  BY <1>1, <1>2, <1>4 DEF Kept
<1>5. CASE row[1] = p /\ files[p] # None /\ files[p].revision = row[2] /\ mark # None /\ files[p].modified <= mark
  <2>1. Keeps(p)
    BY <1>5 DEF Keeps
  <2>2. Copy(p) \in versions'
    BY <1>5, <2>1 DEF Write, Delete
  <2>3. Copy(p).path = p /\ Copy(p).revision = files[p].revision /\ Copy(p).expires = now + Retention
    BY DEF Copy
  <2> QED BY <1>5, <2>2, <2>3 DEF Kept
<1> QED BY <1>3, <1>4, <1>5 DEF Kept

LEMMA WritesKeepKept ==
  ASSUME TypeInv, IndexInv, KeptInv, NEW p \in Path, Write(p) \/ Delete(p)
  PROVE  KeptInv'
<1>1. /\ sequence' = sequence + 1 /\ sequence \in Nat
      /\ \A n \in Sequence : n <= sequence => vault'[n] = vault[n]
  BY PastKept DEF Write, Delete
<1>2. UNCHANGED <<now, index, request>>
  BY DEF Write, Delete, Changed
<1>3. ASSUME NEW n \in Sequence, n <= sequence, NEW expires \in Int, expires <= now + Retention, KeptFor(n, expires)
      PROVE  KeptFor(n, expires)'
  <2>1. vault'[n] = vault[n] /\ vault[n] \subseteq Row
    BY <1>1, <1>3 DEF TypeInv, TypeOK
  <2>2. expires > now => \A row \in vault[n] : Kept(row, expires)'
    BY <1>3, <2>1, ReplacedKept DEF KeptFor
  <2> QED BY <1>2, <2>1, <2>2 DEF KeptFor
<1>4. \A r \in Request : /\ start[r].sequence \in Sequence /\ start[r].sequence <= sequence
                         /\ start[r].now + Retention \in Int /\ start[r].now + Retention <= now + Retention
  BY SizeAssumption DEF TypeInv, TypeOK, Time, IndexInv, Begun
<1>5. \A e \in index : e.id \in Request /\ e.sequence = start[e.id].sequence /\ e.expires = start[e.id].now + Retention
  BY DEF TypeInv, TypeOK, Entry, IndexInv, EntriesEnded, EntryOf
<1>6. \A r \in Request : Marked(r)'
  BY <1>1, <1>2, <1>4 DEF Marked, request, Sequence
<1>7. \A r \in Request : ToList(r)' => KeptFor(start[r].sequence, start[r].now + Retention)'
  <2>1. \A r \in Request : ToList(r) => KeptFor(start[r].sequence, start[r].now + Retention)
    BY DEF KeptInv
  <2>2. UNCHANGED <<pc, start>>
    BY <1>2 DEF request
  <2> QED BY <1>3, <1>4, <2>1, <2>2 DEF ToList, KeptFor
<1>8. \A e \in index' : KeptFor(e.sequence, e.expires)'
  <2>1. \A e \in index : KeptFor(e.sequence, e.expires)
    BY DEF KeptInv
  <2> QED BY <1>2, <1>3, <1>4, <1>5, <2>1
<1> QED BY <1>6, <1>7, <1>8 DEF KeptInv

(* A step that changes no file and drops no version before it expires. *)
LEMMA CopiesKept ==
  ASSUME TypeInv, RowsInv, UNCHANGED <<sequence, files, vault>>, now' \in Nat, now <= now', mark' \in {mark, now},
         \A v \in versions : v.expires > now => v \in versions',
         NEW n \in Sequence, NEW expires \in Int, KeptFor(n, expires)
  PROVE  KeptFor(n, expires)'
<1> SUFFICES ASSUME expires > now', NEW row \in vault[n] PROVE Kept(row, expires)'
  BY DEF KeptFor
<1>1. now \in Nat /\ expires > now
  BY DEF TypeInv, TypeOK, Time
<1>2. Kept(row, expires) /\ row[1] \in Path
  BY <1>1 DEF KeptFor, TypeInv, TypeOK, Row
<1>3. CASE \E v \in versions : v.path = row[1] /\ v.revision = row[2] /\ v.expires >= expires
  <2>1. PICK v \in versions : v.path = row[1] /\ v.revision = row[2] /\ v.expires >= expires
    BY <1>3
  <2>2. v.expires \in Int
    BY SizeAssumption DEF TypeInv, TypeOK
  <2>3. v \in versions'
    BY <1>1, <2>1, <2>2
  <2> QED BY <2>1, <2>3 DEF Kept
<1>4. CASE files[row[1]] # None /\ files[row[1]].revision = row[2] /\ mark # None /\ files[row[1]].modified <= mark
  <2>1. files[row[1]].modified <= now
    BY <1>2, <1>4 DEF RowsInv, Recorded
  <2>2. mark' # None /\ files[row[1]].modified <= mark'
    BY <1>1, <1>4, <2>1, RequestAssumption
  <2> QED BY <1>4, <2>2 DEF Kept
<1> QED BY <1>2, <1>3, <1>4 DEF Kept

LEMMA OthersKeepKept ==
  ASSUME TypeInv, TypeInv', IndexInv, RowsInv, KeptInv,
         UNCHANGED <<sequence, files, vault, index>>, now <= now', mark' \in {mark, now},
         \A v \in versions : v.expires > now => v \in versions',
         \A r \in Request :
           \/ pc'[r] = pc[r] /\ start'[r] = start[r]
           \/ pc'[r] \notin {"reading", "read", "storing", "fetching", "publishing"}
           \/ pc'[r] = "reading" /\ mark' = now
           \/ start'[r] = start[r] /\ pc[r] = "reading" /\ pc'[r] = "read"
           \/ /\ start'[r] = start[r] /\ pc'[r] \notin {"reading", "read"}
              /\ ToList(r) \/ KeptFor(start[r].sequence, start[r].now + Retention)
  PROVE  KeptInv'
<1>1. now' \in Nat /\ now \in Nat
  BY DEF TypeInv, TypeOK, Time
<1>2. \A n \in Sequence, expires \in Int : KeptFor(n, expires) => KeptFor(n, expires)'
  BY <1>1, CopiesKept
<1>3. \A r \in Request : start[r].sequence \in Sequence /\ start[r].now + Retention \in Int
  BY SizeAssumption DEF TypeInv, TypeOK, Time
<1>4. \A e \in index : e.sequence \in Sequence /\ e.expires \in Int
  BY SizeAssumption DEF TypeInv, TypeOK, Entry
<1>5. \A e \in index' : KeptFor(e.sequence, e.expires)'
  BY <1>2, <1>4 DEF KeptInv
<1>6. ASSUME NEW r \in Request PROVE Marked(r)'
  <2>1. CASE mark' = mark /\ mark' # now
    BY <2>1 DEF KeptInv, Marked
  <2>2. CASE mark' = now
    BY <1>1, <2>2, RequestAssumption DEF RowsInv, Recorded, Marked
  <2> QED BY <2>1, <2>2
<1>7. ASSUME NEW r \in Request, ToList(r)' PROVE KeptFor(start[r].sequence, start[r].now + Retention)'
  <2>1. start'[r] = start[r] /\ KeptFor(start[r].sequence, start[r].now + Retention)
    BY <1>7 DEF KeptInv, ToList
  <2> DEFINE n == start[r].sequence
             expires == start[r].now + Retention
  <2>2. n' = n /\ expires' = expires
    BY <2>1
  <2>3. n \in Sequence /\ expires \in Int /\ KeptFor(n, expires)
    BY <1>3, <2>1
  <2> QED BY <1>2, <2>2, <2>3 DEF KeptFor
<1> QED BY <1>5, <1>6, <1>7 DEF KeptInv

(* What a request verified was marked before it was read. *)
LEMMA VerifiedKept ==
  ASSUME TypeInv, RowsInv, KeptInv, NEW r \in Request, pc[r] = "read", sequence = start[r].sequence
  PROVE  KeptFor(start[r].sequence, start[r].now + Retention)
<1> SUFFICES ASSUME NEW row \in vault[start[r].sequence] PROVE Kept(row, start[r].now + Retention)
  BY DEF KeptFor
<1>1. row \in Live(files)
  BY DEF RowsInv, Recorded
<1>2. row[1] \in Path /\ files[row[1]] # None /\ files[row[1]].revision = row[2]
  BY <1>1 DEF Live
<1>3. mark # None /\ files[row[1]].modified <= mark
  BY <1>2 DEF KeptInv, Marked
<1> QED BY <1>2, <1>3 DEF Kept

LEMMA PublishKeepsKept ==
  ASSUME TypeInv, RowsInv, KeptInv, NEW r \in Request, Publish(r)
  PROVE  KeptInv'
<1>1. /\ pc[r] = "publishing" /\ pc' = [pc EXCEPT ![r] = "deleting"] /\ index = seen[r]
      /\ UNCHANGED <<now, sequence, files, versions, mark, start, vault>>
  BY DEF Publish, Discard, database
<1>2. \A e \in index' : e \in index \/ e = EntryOf(r)
  BY <1>1 DEF Publish, Newest, Unexpired
<1>3. \A n, expires : KeptFor(n, expires) => KeptFor(n, expires)'
  BY <1>1 DEF KeptFor, Kept
<1>4. KeptFor(EntryOf(r).sequence, EntryOf(r).expires)
  BY <1>1 DEF KeptInv, ToList, EntryOf
<1>5. \A e \in index' : KeptFor(e.sequence, e.expires)'
  BY <1>2, <1>3, <1>4 DEF KeptInv
<1>6. \A q \in Request : Marked(q)'
  BY <1>1 DEF TypeInv, TypeOK, KeptInv, Marked
<1>7. \A q \in Request : ToList(q)' => ToList(q)
  BY <1>1 DEF TypeInv, TypeOK, ToList
<1>8. \A q \in Request : ToList(q)' => KeptFor(start[q].sequence, start[q].now + Retention)'
  <2>1. \A q \in Request : ToList(q)' => KeptFor(start[q].sequence, start[q].now + Retention)
    BY <1>7 DEF KeptInv
  <2> QED BY <1>1, <2>1 DEF KeptFor, Kept
<1> QED BY <1>5, <1>6, <1>8 DEF KeptInv

LEMMA RequestsKeepKept ==
  ASSUME TypeInv, TypeInv', IndexInv, RowsInv, KeptInv, NEW r \in Request, Create(r) \/ Abandon(r)
  PROVE  KeptInv'
<1>1. CASE Publish(r)
  BY <1>1, PublishKeepsKept
<1>2. CASE ~ Publish(r)
  <2>1. UNCHANGED <<sequence, files, vault, index, now, versions>> /\ mark' \in {mark, now}
    BY <1>2 DEF Create, Begin, Lookup, Mark, ReadPage, Verify, StoreInventory, FetchIndex, Superseded,
                PublishConflict, DeleteDropped, Abandon, database
  <2>2. \A q \in Request \ {r} : pc'[q] = pc[q] /\ start'[q] = start[q]
    BY <1>2 DEF Create, Begin, Lookup, Mark, ReadPage, Verify, StoreInventory, FetchIndex, Superseded,
                PublishConflict, DeleteDropped, Abandon, Step, Discard, TypeInv, TypeOK
  <2>3. \/ pc'[r] \notin {"reading", "read", "storing", "fetching", "publishing"}
        \/ pc'[r] = "reading" /\ mark' = now
        \/ pc'[r] = pc[r] /\ start'[r] = start[r]
        \/ start'[r] = start[r] /\ pc[r] = "reading" /\ pc'[r] = "read"
        \/ /\ start'[r] = start[r] /\ pc'[r] \notin {"reading", "read"}
           /\ ToList(r) \/ KeptFor(start[r].sequence, start[r].now + Retention)
    <3>1. CASE Begin(r) \/ Lookup(r) \/ Superseded(r) \/ DeleteDropped(r) \/ Abandon(r)
      BY <3>1 DEF Begin, Lookup, Superseded, DeleteDropped, Abandon, Step, Discard, TypeInv, TypeOK
    <3>2. CASE Mark(r)
      BY <3>2 DEF Mark, Step, TypeInv, TypeOK
    <3>3. CASE ReadPage(r)
      BY <3>3 DEF ReadPage, Step, TypeInv, TypeOK
    <3>4. CASE Verify(r)
      <4>1. pc[r] = "read" /\ start' = start /\ pc'[r] = IF sequence = start[r].sequence THEN "storing" ELSE "done"
        BY <3>4 DEF Verify, Step, TypeInv, TypeOK
      <4> QED BY <4>1, VerifiedKept
    <3>5. CASE StoreInventory(r) \/ FetchIndex(r) \/ PublishConflict(r)
      BY <3>5 DEF StoreInventory, FetchIndex, PublishConflict, Step, Discard, ToList, TypeInv, TypeOK
    <3> QED BY <1>2, <3>1, <3>2, <3>3, <3>4, <3>5 DEF Create
  <2>4. now <= now'
    BY <2>1 DEF TypeInv, TypeOK, Time
  <2> QED BY <2>1, <2>2, <2>3, <2>4, OthersKeepKept
<1> QED BY <1>1, <1>2

LEMMA RestKeepsKept ==
  ASSUME TypeInv, TypeInv', IndexInv, RowsInv, KeptInv,
         \/ \E v \in versions : ExpireVersion(v)
         \/ Sweep \/ SweepFails \/ Tick \/ UNCHANGED vars
  PROVE  KeptInv'
<1>1. UNCHANGED <<sequence, files, vault, index, mark, pc, start>> /\ (now' = now \/ now' = now + 1)
  BY DEF ExpireVersion, Sweep, SweepList, SweepIndex, SweepDelete, SweepFails, Tick, vars, database, request
<1>2. now <= now' /\ now \in Nat
  BY <1>1 DEF TypeInv, TypeOK, Time
<1>3. \A v \in versions : v.expires > now => v \in versions'
  <2>1. CASE \E v \in versions : ExpireVersion(v)
    BY <1>2, <2>1, SizeAssumption DEF ExpireVersion, TypeInv, TypeOK
  <2>2. CASE Sweep \/ SweepFails \/ Tick \/ UNCHANGED vars
    BY <2>2 DEF Sweep, SweepList, SweepIndex, SweepDelete, SweepFails, Tick, vars, database
  <2> QED BY <2>1, <2>2
<1> QED BY <1>1, <1>2, <1>3, OthersKeepKept

LEMMA KeptStep == ASSUME TypeInv, TypeInv', IndexInv, RowsInv, KeptInv, [Next]_vars PROVE KeptInv'
BY RequestsKeepKept, RestKeepsKept, WritesKeepKept, Zenon DEF Next

LEMMA KeptCorrect == Spec => []KeptInv
<1>1. TypeInv /\ TypeInv' /\ IndexInv /\ RowsInv /\ KeptInv /\ [Next]_vars => KeptInv'
  BY KeptStep
<1> QED BY <1>1, KeptInit, Typed, IndexCorrect, RowsCorrect, PTL DEF Spec

(* Whatever is written, deleted or expired, every revision that a listed checkpoint names can *)
(* be downloaded until the checkpoint expires.                                                *)
THEOREM CheckpointsStayRestorable == Spec => []CheckpointsRestorable
<1>1. ASSUME TypeInv, KeptInv PROVE CheckpointsRestorable
  <2> SUFFICES ASSUME NEW e \in Unexpired(index), NEW row \in vault[e.sequence] PROVE Available(row)
    BY DEF CheckpointsRestorable
  <2>1. e \in index /\ e.expires > now /\ e.expires \in Int /\ now \in Int
    BY <1>1, SizeAssumption DEF Unexpired, TypeInv, TypeOK, Entry, Time
  <2>2. Kept(row, e.expires)
    BY <1>1, <2>1 DEF KeptInv, KeptFor
  <2>3. \A v \in versions : v.expires \in Int
    BY <1>1, SizeAssumption DEF TypeInv, TypeOK
  <2> QED BY <2>1, <2>2, <2>3 DEF Kept, Available
<1>2. TypeInv /\ KeptInv => CheckpointsRestorable
  BY <1>1
<1> QED BY <1>2, Typed, KeptCorrect, PTL
=============================================================================
