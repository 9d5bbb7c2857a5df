---------------------------- MODULE MCDeviceSync ----------------------------
(* Small instances of DeviceSync. *)
EXTENDS DeviceSync, FiniteSets

(* One file over many changes and a stop; two files over fewer, or over as many changes of
   the first one once the user removed the second one; one file whose merge was edited
   before it was written, when another device removed it. *)
OneFileOrTwo ==
  \/ /\ \A p \in Path \ {1} : disk[p] = 0 /\ \A n \in 1..Last : log[n].path # p
     /\ made + Cardinality(dropped) + 2 * used.stops < 6
  \/ Last < 4 /\ used.stops = 0 /\ made + Cardinality(dropped) < 4
  \/ /\ Last < 4 /\ used = [removals |-> 1, stops |-> 0] /\ made < 5 /\ dropped = {2}
     /\ disk[2] = 0 /\ \A n \in 3..Last : log[n].path = 1
  \/ /\ disk[2] = 0 /\ \A n \in 1..Last : log[n].path = 1
     /\ Last = 4 /\ log[3].hash = 4 /\ origins[4] = 1..4 /\ rows[1] = Gone
     /\ made = 5 /\ copies = {} /\ pruned = 0 /\ used.stops = 0

=============================================================================
