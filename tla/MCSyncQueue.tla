---------------------------- MODULE MCSyncQueue -----------------------------
(* Small instances of SyncQueue. *)
EXTENDS SyncQueue

CONSTANTS note, NOTE, other

(* Nothing was ever done with the file. *)
Unused(p) ==
  /\ disk[p] = 0 /\ server[p] = 0 /\ base[p] = 0 /\ journal[p] = None
  /\ p \notin PathsOf(pending.queued \cup pending.inFlight)
  /\ \A i \in DOMAIN events : \A j \in 2..Len(events[i]) : events[i][j] # p

(* Two files, or two names of one file: one change with a loss and a restart, two with one *)
(* of them, three with neither, and these with no sync beside a result being recorded.    *)
CaseOrOther ==
  /\ Unused(NOTE) \/ Unused(other)
  /\ CASE used.edits = 3 -> used.losses = 0 /\ used.stops = 0 /\ (Syncing => reports = {})
       [] used.edits = 2 -> used.losses = 0 \/ used.stops = 0
       [] OTHER -> TRUE
=============================================================================
