----------------------------- MODULE MCMainDown -----------------------------
(* Small instances of MainDown for TLC. *)
EXTENDS MainDown

\* What the rest of a behaviour depends on.  The file and the offset of a worker
\* whose threads have ended are never read again, nor are cur and obj outside the
\* steps that use them; no step looks at output, listed or partOk except to set output
\* and listed.
Control ==
  <<partLen, rows, public_dic, main, fetch, killed, bounds,
    [w \in Workers |-> IF Reusable(w) THEN NoFile ELSE file[w]],
    [w \in Workers |-> IF FetchLive(w) THEN at[w] ELSE 0],
    rpc, todo, keys, picks, again,
    [r \in Requests |-> IF todo[r] = {} /\ rpc[r] \notin {"flag", "kill"}
                        THEN "start" ELSE op[r]],
    [r \in Requests |-> IF rpc[r] \in Holding THEN cur[r] ELSE NoFile],
    [r \in Requests |-> IF rpc[r] \in {"flag", "kill"} THEN obj[r] ELSE NoEntry]>>

\* The same with the files, for the scenes whose properties are about them.
Seen == IF scene.calm THEN <<Control, partOk, output, listed>> ELSE <<Control>>

\* Each row with an output of its own, or all of them with one.
Apart  == CHOOSE n \in [Files -> Names] : \A f, g \in Files : n[f] = n[g] => f = g
Shared == LET name == CHOOSE n \in Names : TRUE IN [f \in Files |-> name]

Some(S, n) == CHOOSE T \in SUBSET S : Cardinality(T) = n

\* Any user, of two rows and without deletion, or of one row; two requests at a time
\* for one row, and two that fill the slots with three rows.
Busy  == [calm |-> FALSE, errors |-> FALSE, size |-> 1, name |-> Apart,
          rows |-> Some(Files, 2), first |-> {Active, Paused},
          users |-> Some(Requests, 1), asks |-> {"start", "stop"},
          threads |-> Workers, ops |-> 2, restarts |-> 0]
Drop  == [Busy EXCEPT !.rows = Some(Files, 1), !.asks = {"start", "stop", "drop"}]
Pair  == [Drop EXCEPT !.users = Requests, !.threads = Some(Workers, 1), !.ops = 3]
Crowd == [Busy EXCEPT !.users = Requests, !.rows = Files, !.first = {Active},
                      !.errors = TRUE, !.asks = {"start"}]

\* A calm user, with network errors and a restart; without; with one output for both rows.
Broken == [Busy EXCEPT !.calm = TRUE, !.errors = TRUE, !.size = 2,
                       !.first = {NoRow, Active, Paused}, !.ops = 3, !.restarts = 1]
Whole  == [Broken EXCEPT !.errors = FALSE, !.restarts = 0]
Clash  == [Whole EXCEPT !.name = Shared]

Every    == {Busy, Drop, Pair, Crowd, Broken, Whole, Clash}
DropOnly == {Drop}

=============================================================================
