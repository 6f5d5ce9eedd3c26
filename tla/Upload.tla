------------------------------- MODULE Upload -------------------------------
(***************************************************************************)
(* The upload of one file in chunks: the view uploadfile (release/aaa/mini *)
(* /views.py), the watcher of the disk (watch.py) that keeps the file      *)
(* index Fileinfo_up, and deletefile, all about one path.                  *)
(*                                                                         *)
(* The browser side is external and modelled from the pages that use the   *)
(* view: one chunk at a time, in order (threads:1), each one sent again    *)
(* when its answer does not come (chunkRetry), the file reported as        *)
(* uploaded when its last chunk is answered.                               *)
(*                                                                         *)
(* Grain: a request is preempted at every database and file operation.  A  *)
(* chunk is appended in one step.                                          *)
(***************************************************************************)
EXTENDS Naturals, Sequences, FiniteSets, SequencesExt

CONSTANTS
  Clients,      \* browsers that upload a file of this name
  Handlers,     \* request threads of the server
  Chunks,       \* chunks of a file
  NoHandler, NoRow,
  chunkRetry,   \* how often a client sends a chunk again
  MaxDeletes,   \* bound: deletions of the file
  MaxRestarts   \* bound: restarts of the web server

ASSUME UploadAssumption ==
  /\ Clients # {} /\ NoHandler \notin Handlers
  /\ NoRow \notin [size : Nat] \cup [id : Nat, count : Nat]
  /\ Chunks \in Nat \ {0}
  /\ {chunkRetry, MaxDeletes, MaxRestarts} \subseteq Nat

VARIABLES
  (* persistent *)
  file,       \* the blocks of the file, [from, chunk]; <<>>: there is no file
  tmp,        \* rows of Tmpfileinfo for the path, [id, count]
  nextId,     \* the id of the next one
  index,      \* the row of Fileinfo_up (the first if there are several), or NoRow
  (* the watcher *)
  events,     \* inotify events not yet handled
  stage,      \* what it does next: "wait" for an event, "open" the file, "select" or
              \* "insert" its row; "ended" by an exception
  hashed,     \* what it will insert, or NoRow
  (* the server *)
  pc,         \* program counter of a request
  req,        \* the chunk it carries
  row,        \* the row of Tmpfileinfo it read, or NoRow
  seen,       \* the row of Fileinfo_up it read, or NoRow
  (* the clients *)
  next,       \* chunks answered so far
  listen,     \* the request whose answer the client waits for, or NoHandler
  retries,    \* how often the current chunk was sent again
  (* bounds *)
  deletes, restarts

disk    == <<file, events>>
watcher == <<stage, hashed>>
server  == <<pc, req, row, seen>>
clients == <<next, listen, retries>>
bounds  == <<deletes, restarts>>
vars    == <<disk, tmp, nextId, index, watcher, server, clients, bounds>>

Blocks == [from : Clients, chunk : 0 .. Chunks - 1]
Rows   == [id : Nat, count : {k \in Nat : k + 1 < Chunks}]

Init ==
  /\ file = <<>> /\ events = <<>>
  /\ tmp = {} /\ nextId = 0
  /\ index = NoRow /\ stage = "wait" /\ hashed = NoRow
  /\ pc = [h \in Handlers |-> "idle"]
  /\ req = [h \in Handlers |-> CHOOSE b \in Blocks : TRUE]
  /\ row = [h \in Handlers |-> NoRow] /\ seen = row
  /\ next = [c \in Clients |-> 0] /\ retries = next
  /\ listen = [c \in Clients |-> NoHandler]
  /\ deletes = 0 /\ restarts = 0

-----------------------------------------------------------------------------
(* Pieces of the handlers, each mutant before what it is a mutant of *)

\* tfi[0]
First(rows) == CHOOSE t \in rows : \A u \in rows : t.id <= u.id

\* A chunk that was stored before; the last one is never taken for such.
Known_offbyone(k, t) == k + 1 < Chunks /\ k <= t.count + 1
Known_never(k, t) == FALSE
Known(k, t) == k + 1 < Chunks /\ k <= t.count

\* inotify merges an event with an equal one at the end of the queue.  Nobody reads
\* what happens after the watcher has ended.
Notify_lost(e) == UNCHANGED events
Notify(e) ==
  events' = IF stage = "ended" \/ (events # <<>> /\ Last(events) = e)
            THEN events ELSE Append(events, e)

\* Tmpfileinfo after the chunk k was appended, t is the row the request read:
\* created with count 0, moved on, or deleted with the last chunk.  save()
\* inserts the row again when another request has deleted it.
Recorded_kept(k, t) ==
  IF t = NoRow THEN tmp \cup {[id |-> nextId, count |-> 0]}
               ELSE {u \in tmp : u.id # t.id} \cup {[id |-> t.id, count |-> k]}
Recorded(k, t) ==
  IF t = NoRow THEN tmp \cup {[id |-> nextId, count |-> 0]}
  ELSE {u \in tmp : u.id # t.id}
         \cup IF k + 1 < Chunks THEN {[id |-> t.id, count |-> k]} ELSE {}

-----------------------------------------------------------------------------
(* The clients *)

Request(h, c) ==
  /\ pc[h] = "idle"
  /\ pc' = [pc EXCEPT ![h] = "look"]
  /\ req' = [req EXCEPT ![h] = [from |-> c, chunk |-> next[c]]]
  /\ listen' = [listen EXCEPT ![c] = h]
  /\ UNCHANGED <<disk, tmp, nextId, index, watcher, row, seen, next, bounds>>

Send(c, h) ==
  /\ next[c] < Chunks /\ listen[c] = NoHandler
  /\ Request(h, c)
  /\ UNCHANGED retries

\* The connection broke, and the request may still be at work: the chunk is sent
\* again.
Retry(c, h) ==
  /\ listen[c] # NoHandler /\ retries[c] < chunkRetry
  /\ Request(h, c)
  /\ retries' = [retries EXCEPT ![c] = @ + 1]

-----------------------------------------------------------------------------
(* uploadfile *)

\* Is the file in the index?
Look(h) ==
  /\ pc[h] = "look"
  /\ pc' = [pc EXCEPT ![h] = IF index # NoRow THEN "looktmp" ELSE "decide"]
  /\ seen' = [seen EXCEPT ![h] = index]
  /\ UNCHANGED <<disk, tmp, nextId, index, watcher, req, row, clients, bounds>>

\* If it is and no upload is under way, nothing is stored.
LookTmp(h) ==
  /\ pc[h] = "looktmp"
  /\ pc' = [pc EXCEPT ![h] = IF tmp = {} THEN "touch" ELSE "decide"]
  /\ UNCHANGED <<disk, tmp, nextId, index, watcher, req, row, seen, clients, bounds>>

\* fu.save() with new times; it inserts the row when that was deleted meanwhile.
Touch(h) ==
  /\ pc[h] = "touch"
  /\ index' = seen[h]
  /\ pc' = [pc EXCEPT ![h] = "reply"]
  /\ UNCHANGED <<disk, tmp, nextId, watcher, req, row, seen, clients, bounds>>

Decide(h) ==
  /\ pc[h] = "decide"
  /\ pc' = [pc EXCEPT ![h] =
       IF tmp # {} /\ Known(req[h].chunk, First(tmp)) THEN "reply" ELSE "append"]
  /\ row' = [row EXCEPT ![h] = IF tmp = {} THEN NoRow ELSE First(tmp)]
  /\ UNCHANGED <<disk, tmp, nextId, index, watcher, req, seen, clients, bounds>>

\* open(path, "ab"), write, close.  A file of one chunk without a row of
\* Tmpfileinfo is done with that.
AppendChunk(h) ==
  /\ pc[h] = "append"
  /\ file' = Append(file, req[h])
  /\ Notify("close")
  /\ pc' = [pc EXCEPT ![h] = IF row[h] = NoRow /\ Chunks = 1 THEN "reply" ELSE "record"]
  /\ UNCHANGED <<tmp, nextId, index, watcher, req, row, seen, clients, bounds>>

Record(h) ==
  /\ pc[h] = "record"
  /\ tmp' = Recorded(req[h].chunk, row[h])
  /\ nextId' = IF row[h] = NoRow THEN nextId + 1 ELSE nextId
  /\ pc' = [pc EXCEPT ![h] = "reply"]
  /\ UNCHANGED <<disk, index, watcher, req, row, seen, clients, bounds>>

\* The answer, always "100100000".
Reply(h) ==
  LET c == req[h].from IN
  /\ pc[h] = "reply" /\ listen[c] = h
  /\ pc' = [pc EXCEPT ![h] = "idle"]
  /\ next' = [next EXCEPT ![c] = @ + 1]
  /\ listen' = [listen EXCEPT ![c] = NoHandler]
  /\ retries' = [retries EXCEPT ![c] = 0]
  /\ UNCHANGED <<disk, tmp, nextId, index, watcher, req, row, seen, bounds>>

\* It does not reach the client, which may have given up on it before.
ReplyLost(h) ==
  /\ pc[h] = "reply"
  /\ pc' = [pc EXCEPT ![h] = "idle"]
  /\ UNCHANGED <<disk, tmp, nextId, index, watcher, req, row, seen, clients, bounds>>

-----------------------------------------------------------------------------
(* deletefile, the watcher, restarts *)

\* The rows to delete are found in the index, the file is removed; the row is left to
\* the watcher.
Delete ==
  /\ index # NoRow /\ file # <<>> /\ deletes < MaxDeletes
  /\ file' = <<>>
  /\ Notify("delete")
  /\ deletes' = deletes + 1
  /\ UNCHANGED <<tmp, nextId, index, watcher, server, clients, restarts>>

\* process_IN_CLOSE_WRITE: nothing is done when the file is gone by now.
CloseWrite ==
  /\ stage = "wait" /\ events # <<>> /\ Head(events) = "close"
  /\ stage' = IF file # <<>> THEN "open" ELSE "wait"
  /\ events' = Tail(events)
  /\ UNCHANGED <<file, tmp, nextId, index, hashed, server, clients, bounds>>

\* Size and md5 of what is there.  When the file goes after that test, getsize or open
\* raises out of the handler and of notifier.loop.
Open ==
  /\ stage = "open"
  /\ IF file # <<>>
     THEN stage' = "select" /\ hashed' = [size |-> Len(file)] /\ UNCHANGED events
     ELSE stage' = "ended" /\ events' = <<>> /\ UNCHANGED hashed
  /\ UNCHANGED <<file, tmp, nextId, index, server, clients, bounds>>

\* The row is inserted when there is none, and never brought up to date.
Select ==
  /\ stage = "select"
  /\ IF index = NoRow THEN stage' = "insert" /\ UNCHANGED hashed
                      ELSE stage' = "wait" /\ hashed' = NoRow
  /\ UNCHANGED <<disk, tmp, nextId, index, server, clients, bounds>>

Insert ==
  /\ stage = "insert"
  /\ index' = IF index = NoRow THEN hashed ELSE index
  /\ stage' = "wait" /\ hashed' = NoRow
  /\ UNCHANGED <<disk, tmp, nextId, server, clients, bounds>>

process_IN_DELETE ==
  /\ stage = "wait" /\ events # <<>> /\ Head(events) = "delete"
  /\ index' = NoRow
  /\ events' = Tail(events)
  /\ UNCHANGED <<file, tmp, nextId, watcher, server, clients, bounds>>

\* The web server is restarted; clients find out when their connection breaks.
Restart ==
  /\ restarts < MaxRestarts
  /\ restarts' = restarts + 1
  /\ pc' = [h \in Handlers |-> "idle"]
  /\ UNCHANGED <<disk, tmp, nextId, index, watcher, req, row, seen, clients, deletes>>

uploadfile(h) ==
  \/ Look(h) \/ LookTmp(h) \/ Touch(h) \/ Decide(h) \/ AppendChunk(h)
  \/ Record(h) \/ Reply(h) \/ ReplyLost(h)

autosyncdb == CloseWrite \/ Open \/ Select \/ Insert \/ process_IN_DELETE

Next ==
  \/ \E c \in Clients, h \in Handlers : Send(c, h) \/ Retry(c, h)
  \/ \E h \in Handlers : uploadfile(h)
  \/ autosyncdb \/ Delete \/ Restart

Spec == Init /\ [][Next]_vars

Busy(c) == \E h \in Handlers : pc[h] # "idle" /\ req[h].from = c

\* A client that sends a chunk again only when its last request is over, and a user
\* who does not delete a file while a request is storing it.
Serial ==
  /\ \A c \in Clients : retries'[c] > retries[c] => ~Busy(c)
  /\ deletes' # deletes => \A c \in Clients : ~Busy(c)
SerialNext == Next /\ Serial
SerialSpec == Init /\ [][SerialNext]_vars

\* Moreover the watcher keeps up: it has the file when the last chunk is sent again,
\* and has seen the deletion of the file before that is uploaded once more.
Prompt ==
  /\ \A c \in Clients :
       retries'[c] > retries[c] => next[c] + 1 < Chunks \/ index # NoRow
  /\ clients' # clients => \A i \in 1 .. Len(events) : events[i] # "delete"
PromptNext == SerialNext /\ Prompt
PromptSpec == Init /\ [][PromptNext]_vars

\* The server and the watcher are scheduled; a client need not do anything.
PromptFairSpec ==
  /\ PromptSpec
  /\ \A h \in Handlers : WF_vars(uploadfile(h))
  /\ WF_vars(autosyncdb)

-----------------------------------------------------------------------------
(* Properties *)

TypeOK ==
  /\ file \in Seq(Blocks)
  /\ events \in Seq({"close", "delete"})
  /\ tmp \in SUBSET Rows
  /\ nextId \in Nat /\ \A t \in tmp : t.id < nextId
  /\ index \in [size : Nat \ {0}] \cup {NoRow}
  /\ stage \in {"wait", "open", "select", "insert", "ended"}
  /\ hashed \in IF stage \in {"select", "insert"} THEN [size : Nat \ {0}] ELSE {NoRow}
  /\ pc \in [Handlers -> {"idle", "look", "looktmp", "touch", "decide", "append",
                          "record", "reply"}]
  /\ req \in [Handlers -> Blocks]
  /\ row \in [Handlers -> Rows \cup {NoRow}]
  /\ seen \in [Handlers -> [size : Nat \ {0}] \cup {NoRow}]
  /\ \A h \in Handlers :
       /\ row[h] # NoRow => row[h].id < nextId
       /\ pc[h] = "record" => row[h] # NoRow \/ Chunks > 1
       /\ pc[h] \in {"looktmp", "touch"} => seen[h] # NoRow
  /\ next \in [Clients -> 0 .. Chunks]
  /\ listen \in [Clients -> Handlers \cup {NoHandler}]
  /\ \A c \in Clients : listen[c] # NoHandler => next[c] < Chunks
  /\ retries \in [Clients -> 0 .. chunkRetry]
  /\ deletes \in Nat /\ restarts \in Nat

Stored(c, k) == [from |-> c, chunk |-> k] \in Range(file)

\* Nothing but the upload of c has happened to the path.
Undisturbed(c) ==
  /\ deletes = 0 /\ restarts = 0
  /\ \A d \in Clients \ {c} : next[d] = 0 /\ listen[d] = NoHandler

\* A client that sends one request at a time: a chunk the server answered for is in
\* the file, whatever answers were lost.
AnsweredIsStored ==
  \A c \in Clients : Undisturbed(c) => \A k \in 0 .. next[c] - 1 : Stored(c, k)

\* A file the client reports as uploaded is the file, chunk after chunk, each once.
UploadedIsExact ==
  \A c \in Clients : next[c] = Chunks /\ Undisturbed(c) =>
    file = [i \in 1 .. Chunks |-> [from |-> c, chunk |-> i - 1]]

\* A finished upload leaves no row of Tmpfileinfo behind, which the next upload of
\* the name would be taken for a continuation of.
NoLeftover == \A c \in Clients : next[c] = Chunks /\ Undisturbed(c) => tmp = {}

\* When nothing moves any more the index has a row exactly if there is a file, unless
\* the file was deleted while the watcher opened it, and that ended the watcher.
IndexFollowsDisk ==
  /\ <>[](file # <<>> /\ stage # "ended") => <>[](index # NoRow)
  /\ <>[](file = <<>> /\ stage # "ended") => <>[](index = NoRow)

-----------------------------------------------------------------------------
(* What comments of the code say, and the code does not do *)

\* UploadFileForIE.html, "uploaded" when the last chunk is answered: all chunks are
\* in the file.
UploadedIsStored ==
  \A c \in Clients : next[c] = Chunks => \A k \in 0 .. Chunks - 1 : Stored(c, k)

=============================================================================
