------------------------------- MODULE BtDown -------------------------------
(***************************************************************************)
(* The torrent download manager, release/aaa/mini/btdown.py: the views     *)
(* addBt, btStartDown, btStopDown, btDelDown, the functions startBT,       *)
(* stopBT, deleteBT, check_bt_dic and the thread downBTFile.               *)
(*                                                                         *)
(* It has the shape of main_down.py with differences that matter: nothing  *)
(* takes an entry out of public_dic_bt when its thread ends, the loop of   *)
(* the thread ends in "completed" also when it was told to stop, and a     *)
(* SystemExit is swallowed in the middle of the loop.                      *)
(*                                                                         *)
(* Grain: as in MainDown.  libtorrent is external: a session adds to the   *)
(* content of its torrent until that is whole; it checks what is on the    *)
(* disk when it starts, so that a torrent is a seed when its content is    *)
(* whole.                                                                  *)
(***************************************************************************)
EXTENDS Naturals, FiniteSets

CONSTANTS
  Torrents,       \* ids of BtFileinfo_down rows; ids are never reused
  Names,          \* names of torrent files (of one user)
  Workers,        \* thread identities; one is reused when its thread ended
  Requests,       \* request threads of the server
  NoTorrent, NoName, NoEntry,
  count_down_bt,  \* slots of the registry
  Scenes          \* the surroundings a behaviour may have

ASSUME BtAssumption ==
  /\ NoTorrent \notin Torrents /\ NoName \notin Names
  /\ NoEntry \notin [thread : Workers, go : BOOLEAN]
  /\ IsFiniteSet(Torrents) /\ IsFiniteSet(Requests)
  /\ count_down_bt \in Nat \ {0}
  \* rows: the rows there may be; old: the names of those an earlier process left
  \* waiting; names: of the torrents to be added; peers: is there anyone to receive
  \* from? users, asks: the request threads in use, and what they are asked; threads:
  \* the identities in use; ops, restarts: bounds.
  /\ Scenes \subseteq [rows : SUBSET Torrents, old : [Torrents -> Names \cup {NoName}],
                      names : SUBSET Names, peers : BOOLEAN, users : SUBSET Requests,
                      asks : SUBSET {"add", "start", "stop", "drop"},
                      threads : SUBSET Workers, ops : Nat, restarts : Nat]

VARIABLES
  (* persistent *)
  status,         \* BtFileinfo_down.status by id, NoRow when there is no row
  name,           \* BtFileinfo_down.name, NoName for an id not yet given out
  torrent,        \* names of the torrent files in bt_path
  content,        \* what is downloaded of a torrent, by name
  (* in the process *)
  public_dic_bt,  \* id -> [thread, go], or NoEntry
  main,           \* program counter of the downBTFile thread
  bt,             \* the row it was started for
  killed,         \* workers with a SystemExit on its way
  rpc, op, todo, seeded, cur, obj, adds, keys, picks,   \* the requests
  (* surroundings *)
  scene,          \* never changes
  ops, restarts

rows     == <<status, name>>
disk     == <<torrent, content>>
workers  == <<main, bt, killed>>
batch    == <<op, todo, seeded>>
hand     == <<cur, obj>>
check    == <<keys, picks>>
requests == <<rpc, batch, hand, adds, check>>
bounds   == <<scene, ops, restarts>>
world    == <<rows, disk, public_dic_bt, workers, bounds>>  \* all but the requests
rest     == <<requests, bounds>>
vars     == <<world, requests>>

NoRow   == 0
Done    == 1
Loading == 2    \* also stands for 4, "connecting": every test treats them alike
Paused  == 3
Waiting == 5

Queued       == {b \in Torrents : status[b] \in {Loading, Waiting}}
Entry        == [thread : Workers, go : BOOLEAN]
Registered   == {b \in Torrents : public_dic_bt[b] # NoEntry}
Live(w)      == main[w] # "ended"
IsSeed(b)    == content[name[b]] = "whole"
Quiet == /\ \A w \in Workers : ~Live(w)
         /\ \A r \in Requests : rpc[r] = "idle"

\* An empty process.
Empty(dic, m, b, k, rp, o, t, s, c, ob, a, ke, p) ==
  /\ dic = [x \in Torrents |-> NoEntry]
  /\ m = [w \in Workers |-> "ended"]
  /\ b = [w \in Workers |-> NoTorrent]
  /\ k = {}
  /\ rp = [r \in Requests |-> "idle"]
  /\ o = [r \in Requests |-> "start"]
  /\ t = [r \in Requests |-> {}] /\ s = t /\ ke = t /\ p = t
  /\ c = [r \in Requests |-> NoTorrent]
  /\ ob = [r \in Requests |-> NoEntry]
  /\ a = [r \in Requests |-> NoName]

\* The first process of an appliance, or one that starts on the rows of another.
Init ==
  /\ scene \in Scenes /\ ops = 0 /\ restarts = 0
  /\ name = scene.old
  /\ status = [b \in Torrents |-> IF name[b] = NoName THEN NoRow ELSE Waiting]
  /\ torrent = {n \in Names : \E b \in Torrents : name[b] = n}
  /\ content = [n \in Names |-> "none"]
  /\ Empty(public_dic_bt, main, bt, killed, rpc, op, todo, seeded, cur, obj, adds, keys,
           picks)

-----------------------------------------------------------------------------
(* Pieces the handlers share, each mutant before what it is a mutant of *)

At(r, label) == rpc[r] = label
Goto(r, label) == rpc' = [rpc EXCEPT ![r] = label]

Save(b, st) == status' = [status EXCEPT ![b] = st]   \* inserts the row if it is gone

stop_thread_unchecked(w) == killed' = killed \cup {w}
stop_thread(w) == killed' = IF Live(w) THEN killed \cup {w} ELSE killed

Pop_forgotten(b) == UNCHANGED public_dic_bt
Pop(b) == public_dic_bt' = [public_dic_bt EXCEPT ![b] = NoEntry]

\* dfs[0:need_dow] of a query that names no order (and whose filter by user is lost).
Slice_missing(S) == S = Queued
Slice(S) ==
  /\ S = {} \/ Cardinality(S) + Cardinality(Registered) <= count_down_bt
  /\ S = Queued \/ Cardinality(S) + Cardinality(Registered) >= count_down_bt

\* deleteBT takes its entry out of the registry, when there still is one.
Unregister_forgotten(b) == UNCHANGED public_dic_bt
Unregister(b) == b \in Registered /\ Pop(b)

\* Where the condition of the loop leads: the seed is asked first, an entry that
\* is gone is None, and None[1] raises.
Turn_deaf(b) == IF IsSeed(b) THEN "done" ELSE "save"
Turn_unseeded(b) == IF b \notin Registered THEN "ended" ELSE "done"
Turn_endless(b) == IF b \notin Registered THEN "ended" ELSE "save"
Turn(b) ==
  IF IsSeed(b) THEN "done"
  ELSE IF b \notin Registered THEN "ended"
  ELSE IF public_dic_bt[b].go THEN "save" ELSE "done"

\* The statuses of the rows a view goes on with, of those its ids select.
Accepts == [start |-> {Loading, Paused, Waiting},
            stop  |-> {Loading, Waiting},
            drop  |-> {Done, Loading, Paused, Waiting}]

-----------------------------------------------------------------------------
(* The views *)

Asks(r, what) ==
  /\ r \in scene.users /\ At(r, "idle")
  /\ what \in scene.asks /\ ops < scene.ops

\* btStartDown, btStopDown, btDelDown: the rows are read here, once.
Begin(r, o, ids) ==
  LET wanted == {b \in ids : status[b] \in Accepts[o]} IN
  /\ Asks(r, o) /\ wanted # {}
  /\ op' = [op EXCEPT ![r] = o]
  /\ todo' = [todo EXCEPT ![r] = wanted]
  /\ seeded' = [seeded EXCEPT ![r] = {b \in wanted : status[b] = Done}]
  /\ ops' = ops + 1
  /\ Goto(r, "next")
  /\ UNCHANGED <<rows, disk, public_dic_bt, workers, hand, adds, check, scene, restarts>>

\* addBt looks for a row of that name.  There is one: without "godown" it only
\* tells the user; with it, deleteBT is called with the query set, raises, catches
\* that itself, and addBt goes on.
addBt(r, n, godown) ==
  /\ Asks(r, "add") /\ n \in scene.names
  /\ godown \/ \A b \in Torrents : name[b] = n => status[b] = NoRow
  /\ adds' = [adds EXCEPT ![r] = n]
  /\ ops' = ops + 1
  /\ Goto(r, "add")
  /\ UNCHANGED <<rows, disk, public_dic_bt, workers, batch, hand, check, scene, restarts>>

\* The torrent file is written and the row inserted; startBT comes next.
AddRow(r, b) ==
  /\ At(r, "add") /\ b \in scene.rows /\ name[b] = NoName
  /\ torrent' = torrent \cup {adds[r]}
  /\ name' = [name EXCEPT ![b] = adds[r]]
  /\ Save(b, Loading)
  /\ op' = [op EXCEPT ![r] = "start"]
  /\ todo' = [todo EXCEPT ![r] = {b}]
  /\ Goto(r, "next")
  /\ UNCHANGED <<content, public_dic_bt, workers, seeded, hand, adds, check, bounds>>

\* torrent_info refuses the file: it stays on the disk without a row.
AddRefused(r) ==
  /\ At(r, "add")
  /\ torrent' = torrent \cup {adds[r]}
  /\ Goto(r, "idle")
  /\ UNCHANGED <<rows, content, public_dic_bt, workers, batch, hand, adds, check, bounds>>

\* startBT: what is in the registry is not started again.
startBT(r, b) ==
  /\ At(r, "next") /\ op[r] = "start" /\ b \in todo[r]
  /\ todo' = [todo EXCEPT ![r] = @ \ {b}]
  /\ cur' = [cur EXCEPT ![r] = b]
  /\ Goto(r, IF b \in Registered THEN "check" ELSE "wait")
  /\ UNCHANGED <<world, op, seeded, obj, adds, check>>

StartSave(r) ==
  /\ At(r, "wait")
  /\ Save(cur[r], Waiting)
  /\ Goto(r, "check")
  /\ UNCHANGED <<name, disk, public_dic_bt, workers, batch, hand, adds, check, bounds>>

\* The first half of stopBT and of deleteBT: get the entry.
Look(r, b) ==
  /\ At(r, "next") /\ op[r] \in {"stop", "drop"} /\ b \in todo[r]
  /\ todo' = [todo EXCEPT ![r] = @ \ {b}]
  /\ cur' = [cur EXCEPT ![r] = b]
  /\ IF b \in Registered
     THEN /\ obj' = [obj EXCEPT ![r] = public_dic_bt[b].thread]
          /\ Goto(r, IF op[r] = "stop" THEN "flag" ELSE "put")
     ELSE /\ Goto(r, IF op[r] = "stop" THEN "pause" ELSE "unlink")
          /\ UNCHANGED obj
  /\ UNCHANGED <<world, op, seeded, adds, check>>

\* stopBT clears the flag, of whatever entry the row has by now ...
Flag(r) ==
  /\ At(r, "flag") /\ cur[r] \in Registered
  /\ public_dic_bt' = [public_dic_bt EXCEPT ![cur[r]].go = FALSE]
  /\ Goto(r, "kill")
  /\ UNCHANGED <<rows, disk, workers, batch, hand, adds, check, bounds>>

\* ... which raises KeyError when there is none, and ends the loop of btStopDown.
FlagFails(r) ==
  /\ At(r, "flag") /\ cur[r] \notin Registered
  /\ todo' = [todo EXCEPT ![r] = {}]
  /\ Goto(r, "next")
  /\ UNCHANGED <<world, op, seeded, hand, adds, check>>

\* deleteBT puts an entry in its place, also when there is none or another one by now.
PutBack(r) ==
  /\ At(r, "put")
  /\ public_dic_bt' = [public_dic_bt EXCEPT ![cur[r]] = [thread |-> obj[r], go |-> FALSE]]
  /\ Goto(r, "kill")
  /\ UNCHANGED <<rows, disk, workers, batch, hand, adds, check, bounds>>

\* The kill is sent to the thread of the entry that was looked at.
KillThread(r) ==
  /\ At(r, "kill")
  /\ stop_thread(obj[r])
  /\ Goto(r, IF op[r] = "stop" THEN "pause" ELSE "unregister")
  /\ UNCHANGED <<rows, disk, public_dic_bt, main, bt, batch, hand, adds, check, bounds>>

stopBT(r) ==
  /\ At(r, "pause")
  /\ Save(cur[r], Paused)
  /\ Goto(r, "check")
  /\ UNCHANGED <<name, disk, public_dic_bt, workers, batch, hand, adds, check, bounds>>

DropEntry(r) ==
  /\ At(r, "unregister")
  /\ Unregister(cur[r])
  /\ Goto(r, "unlink")
  /\ UNCHANGED <<rows, disk, workers, batch, hand, adds, check, bounds>>

\* A sweep was faster: pop raises and deleteBT gives up, the row stays.
DropGivesUp(r) ==
  /\ At(r, "unregister") /\ cur[r] \notin Registered
  /\ Goto(r, "next")
  /\ UNCHANGED <<world, batch, hand, adds, check>>

\* The content goes unless the row was read as completed; the torrent file goes.
DropFiles(r) ==
  LET n == name[cur[r]] IN
  /\ At(r, "unlink")
  /\ content' = IF cur[r] \in seeded[r] THEN content
                                        ELSE [content EXCEPT ![n] = "none"]
  /\ torrent' = torrent \ {n}
  /\ Goto(r, "delete")
  /\ UNCHANGED <<rows, public_dic_bt, workers, batch, hand, adds, check, bounds>>

deleteBT(r) ==
  /\ At(r, "delete")
  /\ Save(cur[r], NoRow)
  /\ Goto(r, "check")
  /\ UNCHANGED <<name, disk, public_dic_bt, workers, batch, hand, adds, check, bounds>>

Reply(r) ==
  /\ At(r, "next") /\ todo[r] = {}
  /\ Goto(r, "idle")
  /\ UNCHANGED <<world, batch, hand, adds, check>>

-----------------------------------------------------------------------------
(* check_bt_dic *)

SweepBegin(r) ==
  /\ At(r, "check")
  /\ keys' = [keys EXCEPT ![r] = Registered]
  /\ Goto(r, "sweep")
  /\ UNCHANGED <<world, batch, hand, adds, picks>>

\* An entry that is gone raises, an entry with the flag set is left alone.
SweepSkip(r, k) ==
  /\ At(r, "sweep") /\ k \in keys[r]
  /\ k \in Registered => public_dic_bt[k].go
  /\ keys' = [keys EXCEPT ![r] = @ \ {k}]
  /\ UNCHANGED <<world, rpc, batch, hand, adds, picks>>

SweepStop(r, k) ==
  /\ At(r, "sweep") /\ k \in keys[r]
  /\ k \in Registered /\ ~public_dic_bt[k].go
  /\ stop_thread(public_dic_bt[k].thread)
  /\ cur' = [cur EXCEPT ![r] = k]
  /\ Goto(r, "pop")
  /\ UNCHANGED <<rows, disk, public_dic_bt, main, bt, batch, obj, adds, check, bounds>>

SweepPop(r) ==
  /\ At(r, "pop")
  /\ Pop(cur[r])
  /\ keys' = [keys EXCEPT ![r] = @ \ {cur[r]}]
  /\ Goto(r, "sweep")
  /\ UNCHANGED <<rows, disk, workers, batch, hand, adds, picks, bounds>>

Query(r) ==
  /\ At(r, "sweep") /\ keys[r] = {}
  /\ \E S \in SUBSET Queued : Slice(S) /\ picks' = [picks EXCEPT ![r] = S]
  /\ Goto(r, "launch")
  /\ UNCHANGED <<world, batch, hand, adds, keys>>

Launch(r, b, w) ==
  /\ At(r, "launch") /\ b \in picks[r] /\ w \in scene.threads /\ ~Live(w)
  /\ public_dic_bt' = [public_dic_bt EXCEPT ![b] = [thread |-> w, go |-> TRUE]]
  /\ main' = [main EXCEPT ![w] = "open"]
  /\ bt' = [bt EXCEPT ![w] = b]
  /\ picks' = [picks EXCEPT ![r] = @ \ {b}]
  /\ UNCHANGED <<rows, disk, killed, rpc, batch, hand, adds, keys, bounds>>

CheckEnd(r) ==
  /\ At(r, "launch") /\ picks[r] = {}
  /\ Goto(r, "next")
  /\ UNCHANGED <<world, batch, hand, adds, check>>

-----------------------------------------------------------------------------
(* The downBTFile thread *)

Step(w, from, to) ==
  /\ main[w] = from
  /\ main' = [main EXCEPT ![w] = to]
  /\ killed' = IF to = "ended" THEN killed \ {w} ELSE killed

\* Without its torrent file the thread dies.
Open(w) ==
  /\ Step(w, "open", IF name[bt[w]] \in torrent THEN "loop" ELSE "ended")
  /\ UNCHANGED <<rows, disk, public_dic_bt, bt, rest>>

Loop(w) ==
  /\ main[w] = "loop"
  /\ Step(w, "loop", Turn(bt[w]))
  /\ UNCHANGED <<rows, disk, public_dic_bt, bt, rest>>

\* b.save() of the object check_bt_dic read, with status 2 or 4.
Track(w) ==
  /\ Step(w, "save", "sleep")
  /\ Save(bt[w], Loading)
  /\ UNCHANGED <<name, disk, public_dic_bt, bt, rest>>

Sleep(w) ==
  /\ Step(w, "sleep", "loop")
  /\ UNCHANGED <<rows, disk, public_dic_bt, bt, rest>>

\* After the loop: completed, whatever ended it; the Fileinfo_up rows follow and
\* concern nothing here.
Finish(w) ==
  /\ Step(w, "done", "ended")
  /\ Save(bt[w], Done)
  /\ UNCHANGED <<name, disk, public_dic_bt, bt, rest>>

\* The SystemExit of stop_thread arrives ...
Die(w) ==
  /\ w \in killed /\ main[w] # "save"
  /\ Step(w, main[w], "ended")
  /\ UNCHANGED <<rows, disk, public_dic_bt, bt, rest>>

\* ... or is swallowed by the bare except around the save and the first of the two
\* sleeps; "sleep" stands for both.
Swallow(w) ==
  /\ w \in killed
  /\ main[w] \in {"save", "sleep"} /\ main' = [main EXCEPT ![w] = "sleep"]
  /\ killed' = killed \ {w}
  /\ UNCHANGED <<rows, disk, public_dic_bt, bt, rest>>

\* The libtorrent session of a running thread writes what arrives.
Receive(w) ==
  LET n == name[bt[w]] IN
  /\ scene.peers /\ main[w] \in {"loop", "save", "sleep"}
  /\ content[n] # "whole"
  /\ content' = [content EXCEPT ![n] = IF @ = "none" THEN "partial" ELSE "whole"]
  /\ UNCHANGED <<rows, torrent, public_dic_bt, workers, rest>>

-----------------------------------------------------------------------------
\* The process ends at any point and is started again.
Restart ==
  /\ restarts < scene.restarts
  /\ restarts' = restarts + 1
  /\ Empty(public_dic_bt', main', bt', killed', rpc', op', todo', seeded', cur', obj',
           adds', keys', picks')
  /\ UNCHANGED <<rows, disk, scene, ops>>

View(r) ==
  \/ \E o \in DOMAIN Accepts, b \in Torrents : Begin(r, o, {b})
  \/ \E n \in Names, godown \in BOOLEAN : addBt(r, n, godown)

Handle(r) ==
  \/ \E b \in Torrents : AddRow(r, b) \/ startBT(r, b) \/ Look(r, b)
  \/ AddRefused(r) \/ StartSave(r)
  \/ Flag(r) \/ FlagFails(r) \/ PutBack(r) \/ KillThread(r) \/ stopBT(r)
  \/ DropEntry(r) \/ DropGivesUp(r) \/ DropFiles(r) \/ deleteBT(r) \/ Reply(r)
  \/ SweepBegin(r)
  \/ \E k \in Torrents : SweepSkip(r, k) \/ SweepStop(r, k)
  \/ SweepPop(r) \/ Query(r)
  \/ \E b \in Torrents, w \in Workers : Launch(r, b, w)
  \/ CheckEnd(r)

downBTFile(w) == Open(w) \/ Loop(w) \/ Track(w) \/ Sleep(w) \/ Finish(w)

Kill(w) == Die(w) \/ Swallow(w)

Next ==
  \/ \E r \in Requests : View(r) \/ Handle(r)
  \/ \E w \in Workers : downBTFile(w) \/ Kill(w) \/ Receive(w)
  \/ Restart

Spec == Init /\ [][Next]_vars

\* Threads are scheduled; neither users nor peers need to do anything.
Fairness ==
  /\ \A r \in Requests : WF_vars(Handle(r))
  /\ \A w \in Workers : WF_vars(downBTFile(w)) /\ WF_vars(Kill(w))

FairSpec == Spec /\ Fairness

-----------------------------------------------------------------------------
(* Properties *)

\* The places at which a request has a row in hand, and the thread of an entry.
Holding == {"wait", "flag", "put", "kill", "pause", "unregister", "unlink", "delete", "pop"}
Looked  == {"flag", "put", "kill"}

TypeOK ==
  /\ status \in [Torrents -> {NoRow, Done, Loading, Paused, Waiting}]
  /\ name \in [Torrents -> Names \cup {NoName}]
  /\ \A b \in Torrents : status[b] # NoRow => name[b] \in Names
  /\ torrent \in SUBSET Names
  /\ content \in [Names -> {"none", "partial", "whole"}]
  /\ public_dic_bt \in [Torrents -> Entry \cup {NoEntry}]
  /\ main \in [Workers -> {"ended", "open", "loop", "save", "sleep", "done"}]
  /\ bt \in [Workers -> Torrents \cup {NoTorrent}]
  /\ \A w \in Workers : Live(w) => bt[w] \in Torrents /\ name[bt[w]] \in Names
  /\ killed \in SUBSET {w \in Workers : Live(w)}
  /\ rpc \in [Requests -> Holding \cup {"idle", "next", "add", "check", "sweep", "launch"}]
  /\ op \in [Requests -> {"start", "stop", "drop"}]
  /\ todo \in [Requests -> SUBSET Torrents]
  /\ seeded \in [Requests -> SUBSET Torrents]
  /\ cur \in [Requests -> Torrents \cup {NoTorrent}]
  /\ obj \in [Requests -> Workers \cup {NoEntry}]
  /\ adds \in [Requests -> Names \cup {NoName}]
  /\ keys \in [Requests -> SUBSET Torrents]
  /\ picks \in [Requests -> SUBSET Torrents]
  /\ \A r \in Requests :
       /\ \A b \in todo[r] \cup keys[r] \cup picks[r] : name[b] \in Names
       /\ rpc[r] = "add" => adds[r] \in Names
       /\ rpc[r] \in Holding => cur[r] \in Torrents /\ name[cur[r]] \in Names
       /\ rpc[r] \in Looked => obj[r] \in Workers
  /\ \A b \in Registered : name[b] \in Names
  /\ scene \in Scenes /\ ops \in Nat /\ restarts \in Nat

\* Requests that run check_bt_dic at the same time count the same free slots, and
\* deleteBT puts an entry back whose slot another request has given away in the
\* meantime: the registry may pass count_down_bt, but by no more than one share for each
\* request thread (check_bt_dic and deleteBT, btdown.py:65-82 and 232-236).
SlotBound == Cardinality(Registered) <= count_down_bt * Cardinality(Requests)

\* A request that is going to take the entry of b out of the registry.
WillPop(r, b) ==
  \/ rpc[r] \in {"pause", "check"}
  \/ rpc[r] = "kill" /\ op[r] = "stop"
  \/ rpc[r] \in {"kill", "unregister"} /\ cur[r] = b
  \/ rpc[r] \in {"sweep", "pop"} /\ b \in keys[r]

\* An entry whose flag is off is on its way out, also when another request popped it
\* and deleteBT put it back: once the stop and delete requests are over the torrent
\* holds no slot (stopBT, deleteBT and check_bt_dic, btdown.py:44-85 and 199-265).
StoppedIsSwept ==
  \A b \in Registered : ~public_dic_bt[b].go => \E r \in Requests : WillPop(r, b)

\* With one request thread in use every entry has its row, so that it can be stopped and
\* deleted: deleteBT takes the entry away before the row.
OneUser     == \A r, q \in scene.users : r = q
EntryHasRow == OneUser => \A b \in Registered : status[b] # NoRow

\* Once a torrent has left public_dic_bt for good every thread of it ends, also
\* one that swallowed its kill or was never sent one.
StopTakesEffect ==
  \A b \in Torrents :
    <>[](b \notin Registered) =>
      <>[](\A w \in Workers : bt[w] = b => ~Live(w))

\* A user who adds and starts, and neither stops nor deletes.
Patient == \A r \in Requests : op[r] = "start" \/ todo[r] = {}

\* btdown.py:178 "completed 1": a row says so only of content that is whole.
DoneIsWhole == \A b \in Torrents : status[b] = Done => IsSeed(b)

\* It is so as long as nobody stops or deletes.
PatientDoneIsWhole == []Patient => []DoneIsWhole

\* A torrent that got a thread is completed, when its peers have it, nobody stops or
\* deletes and the process goes on.
LaunchedCompletes ==
  /\ [](Patient /\ restarts = 0 /\ scene.peers)
  /\ \A w \in Workers : WF_vars(Receive(w))
  => \A b \in Torrents : (\E w \in Workers : Live(w) /\ bt[w] = b) ~> (status[b] = Done)

=============================================================================
