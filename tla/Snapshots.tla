----------------------------- MODULE Snapshots ------------------------------
(***************************************************************************)
(* A value with its history, as cw_storage_plus keeps it in a SnapshotMap  *)
(* or SnapshotItem of Strategy::EveryBlock: the current value and, for     *)
(* each height at which it was written, what it was before the first write *)
(* of that height.                                                         *)
(***************************************************************************)
EXTENDS Naturals

Snapshot(value) == [current |-> value, before |-> <<>>]

SaveAt(snapshot, value, height) ==
  [current |-> value,
   before |-> [h \in DOMAIN snapshot.before \union {height} |->
                 IF h \in DOMAIN snapshot.before THEN snapshot.before[h] ELSE snapshot.current]]

(* The value when the given height began. *)
LoadAtHeight(snapshot, height) ==
  LET later == {h \in DOMAIN snapshot.before : h >= height}
  IN  IF later = {}
      THEN snapshot.current
      ELSE snapshot.before[CHOOSE h \in later : \A g \in later : h <= g]
=============================================================================
