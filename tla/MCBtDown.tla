------------------------------ MODULE MCBtDown ------------------------------
(* Small instances of BtDown for TLC. *)
EXTENDS BtDown

\* What the rest of a behaviour depends on: the row of a thread that has ended
\* and the operands of a request outside its handlers are never read again.
Control ==
  <<rows, disk, public_dic_bt, main, killed, bounds,
    [w \in Workers |-> IF Live(w) THEN bt[w] ELSE NoTorrent],
    rpc, todo, keys, picks,
    [r \in Requests |-> IF todo[r] = {} /\ rpc[r] # "kill" THEN "start" ELSE op[r]],
    [r \in Requests |-> IF rpc[r] \in {"next", "put", "kill", "unregister", "unlink"}
                        THEN seeded[r] ELSE {}],
    [r \in Requests |-> IF rpc[r] = "add" THEN adds[r] ELSE NoName],
    [r \in Requests |-> IF rpc[r] \in Holding THEN cur[r] ELSE NoTorrent],
    [r \in Requests |-> IF rpc[r] \in Looked THEN obj[r] ELSE NoEntry]>>

Some(S, n) == CHOOSE T \in SUBSET S : Cardinality(T) = n

None == [b \in Torrents |-> NoName]
All  == CHOOSE n \in [Torrents -> Names] : \A b, c \in Torrents : n[b] = n[c] => b = c

\* Two request threads at one torrent, with a restart; one user and two torrents, with
\* names of their own and one thread, or with one name; two requests and three rows left
\* by an earlier process, and two such rows that are also deleted, without peers;
\* one torrent, added and stopped.
Pair     == [rows |-> Some(Torrents, 1), old |-> None, names |-> Some(Names, 1),
             peers |-> TRUE, users |-> Requests,
             asks |-> {"add", "start", "stop", "drop"}, threads |-> Workers,
             ops |-> 3, restarts |-> 1]
Namesake == [Pair EXCEPT !.rows = Some(Torrents, 2), !.users = Some(Requests, 1),
                         !.restarts = 0]
Rows     == [Namesake EXCEPT !.names = Some(Names, 2), !.threads = Some(Workers, 1)]
Crowd    == [Pair EXCEPT !.rows = Torrents, !.old = All, !.ops = 2,
                         !.asks = {"start"}, !.threads = Some(Workers, 1), !.restarts = 0]
Clash    == [Crowd EXCEPT !.rows = Some(Torrents, 2), !.asks = {"start", "drop"}, !.ops = 3,
                          !.peers = FALSE,
                          !.old = [b \in Torrents |-> IF b \in Some(Torrents, 2)
                                                      THEN All[b] ELSE NoName]]
Stop     == [Pair EXCEPT !.users = Some(Requests, 1), !.ops = 2, !.restarts = 0]

RowScenes  == {Rows, Namesake, Crowd, Clash}
PairScenes == {Pair}
StopScenes == {Stop}

=============================================================================
