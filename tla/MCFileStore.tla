---------------------------- MODULE MCFileStore ----------------------------
(* Small instances of FileStore. *)
EXTENDS FileStore, TLC

CONSTANTS p1, p2

NoClash == {}
BothClash == {<<p1, p2>>, <<p2, p1>>}

Symmetric == Permutations(Upload \ Note) \cup Permutations(Op) \cup Permutations(Hash)

(* Two contents of one name, or two names of one content whose leases are not outlived. *)
Payloads == ({request[o] : o \in Op} \cup {job[k] : k \in Upload}) \ {None}

OneName == {r.path : r \in Payloads} \subseteq {p1}

OneContent ==
  Cardinality({r.hash : r \in Payloads} \cup ({r.expected : r \in Payloads} \ {Absent})) < 2

NamesOrContents == OneName \/ (OneContent /\ \A k \in Upload : age[k] = "fresh")

=============================================================================
