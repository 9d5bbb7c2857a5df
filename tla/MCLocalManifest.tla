--------------------------- MODULE MCLocalManifest --------------------------
(* Small instances of LocalManifest. *)
EXTENDS LocalManifest, TLC

CONSTANTS p1, p2

OnePath == [u \in Upload |-> p1]

Symmetric == Permutations(Upload)

Used(u) == journal[u] # "none" \/ u \in held \cup sent

(* Two entries without uploads, over three changes or four checkpoints and records, or
   one path's uploads over fewer of them. *)
EntriesOrUploads ==
  \/ edits + generation < 6 /\ \A u \in Upload : ~Used(u)
  \/ /\ generation < 3 /\ \A p \in Path \ {p1} : entries[p] = 0
     /\ edits < 3 /\ (edits < 2 \/ \E u \in Upload : ~Used(u))
=============================================================================
