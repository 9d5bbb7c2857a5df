------------------------ MODULE MCSharedCheckpoints -------------------------
(* Small instances of SharedCheckpoints. *)
EXTENDS SharedCheckpoints

(* The sweep has a run of its own. *)
Unswept == sweep = "idle"

(* One request beside many changes; or two racing requests beside few, and a third one *)
(* after the first.                                                                     *)
RevisionsOrIndex ==
  /\ Unswept
  /\ \/ \A r \in Request \ {1} : pc[r] = "idle"
     \/ /\ now = 0 /\ sequence < 3 /\ \A p \in Path \ {1} : files[p] = None
        /\ pc[3] = "idle" \/ pc[1] = "done"
=============================================================================
