------------------------------ MODULE MCUpload ------------------------------
(* Small instances of Upload for TLC. *)
EXTENDS Upload

\* What the rest of a behaviour depends on: a request that is over keeps nothing.
Control ==
  <<disk, tmp, nextId, index, watcher, pc, clients, bounds,
    [h \in Handlers |-> IF pc[h] = "idle" THEN NoRow ELSE req[h]],
    [h \in Handlers |-> IF pc[h] \in {"append", "record"} THEN row[h] ELSE NoRow],
    [h \in Handlers |-> IF pc[h] \in {"looktmp", "touch"} THEN seen[h] ELSE NoRow]>>

=============================================================================
