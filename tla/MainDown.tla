------------------------------ MODULE MainDown ------------------------------
(***************************************************************************)
(* The URL download manager: release/aaa/mini/main_down.py and the request *)
(* handlers of views.py that drive it.                                     *)
(*                                                                         *)
(* Rows of Fileinfo_down live in the database; the registry public_dic,    *)
(* the worker threads and the requests live in one process and are lost    *)
(* when it restarts.  A worker is a startDown thread together with the     *)
(* Download thread it creates (blocks = 1).  A request thread runs one     *)
(* view: it reads its rows once and then handles them one after another,   *)
(* each one ending in check_dic.                                           *)
(*                                                                         *)
(* Grain: a thread is preempted at every database, file, network and       *)
(* thread operation and between the iterations of the loops of check_dic.  *)
(***************************************************************************)
EXTENDS Naturals, FiniteSets

CONSTANTS
  Files,          \* ids of Fileinfo_down rows; ids are never reused
  Workers,        \* thread identities; one is reused when its threads ended
  Requests,       \* request threads of the server
  Names,          \* names of output files: user/download/name+ftype
  NoFile, NoEntry,
  count_down,     \* slots of the registry
  MaxBatch,       \* bound: ids in the "fids" of one request
  Scenes          \* the surroundings a behaviour may have

ASSUME DownAssumption ==
  /\ NoFile \notin Files
  /\ NoEntry \notin [thread : Workers, go : BOOLEAN]
  /\ IsFiniteSet(Files) /\ IsFiniteSet(Requests)
  /\ count_down \in Nat \ {0}
  /\ MaxBatch \in Nat
  \* calm: a network that answers, and a user who waits until everything has ended
  \* before asking for anything, and deletes nothing; errors: may a Download thread
  \* meet an exception? size: blocks of a remote file; name: the output of each row;
  \* rows, first: the rows there may be, and the statuses they may begin with; users,
  \* asks: the request threads in use, and what they are asked; threads: the identities
  \* in use; ops, restarts: bounds.
  /\ Scenes \subseteq [calm : BOOLEAN, errors : BOOLEAN, size : Nat \ {0},
                      name : [Files -> Names], rows : SUBSET Files,
                      first : SUBSET {0, 2, 3}, users : SUBSET Requests,
                      asks : SUBSET {"start", "stop", "drop"},
                      threads : SUBSET Workers, ops : Nat, restarts : Nat]
  /\ \A s \in Scenes : s.calm => "drop" \notin s.asks

VARIABLES
  (* persistent *)
  status,      \* Fileinfo_down.status by id, NoRow when there is no row
  issued,      \* ids the database has given out
  partLen,     \* blocks in the part file dtonk_0; 0: there is no such file
  partOk,      \* the part file is a prefix of the remote file
  output,      \* by name: the file the user asked for, and the row that wrote it
  listed,      \* downloads with a row in the file index Fileinfo_up
  (* in the process *)
  public_dic,  \* id -> [thread, go], or NoEntry
  main,        \* program counter of the startDown thread
  fetch,       \* program counter of its Download thread
  file,        \* the row the worker was started for
  at,          \* next block the Download thread receives
  killed,      \* workers with a SystemExit on its way
  rpc, op, todo, cur, obj, keys, picks, again,   \* the requests
  (* surroundings *)
  scene,       \* never changes
  ops, restarts

part     == <<partLen, partOk>>
disk     == <<part, output, listed>>
rows     == <<status, issued>>
job      == <<fetch, file, at>>
workers  == <<main, job, killed>>
batch    == <<op, todo>>
hand     == <<cur, obj>>
check    == <<keys, picks, again>>
requests == <<rpc, batch, hand, check>>
bounds   == <<scene, ops, restarts>>
world    == <<disk, rows, public_dic, workers, bounds>>   \* all but the requests
rest     == <<requests, bounds>>                          \* what a worker leaves alone
vars     == <<world, requests>>

NoRow  == 0
Done   == 1
Active == 2     \* downloading, or waiting for a slot
Paused == 3

Entry        == [thread : Workers, go : BOOLEAN]
Registered   == {f \in Files : public_dic[f] # NoEntry}
isGo(f)      == f \in Registered /\ public_dic[f].go
MainLive(w)  == main[w] # "ended"
FetchLive(w) == fetch[w] # "ended"
Reusable(w)  == ~MainLive(w) /\ ~FetchLive(w)
Quiet == /\ \A w \in Workers : Reusable(w)
         /\ \A r \in Requests : rpc[r] = "idle"

\* An empty process.
Empty(dic, m, fe, fi, a, k, rp, o, t, c, ob, ke, p, ag) ==
  /\ dic = [f \in Files |-> NoEntry]
  /\ m = [w \in Workers |-> "ended"] /\ fe = m
  /\ fi = [w \in Workers |-> NoFile]
  /\ a = [w \in Workers |-> 0]
  /\ k = {}
  /\ rp = [r \in Requests |-> "idle"]
  /\ o = [r \in Requests |-> "start"]
  /\ t = [r \in Requests |-> {}] /\ ke = t /\ p = t
  /\ c = [r \in Requests |-> NoFile]
  /\ ob = [r \in Requests |-> NoEntry]
  /\ ag = [r \in Requests |-> FALSE]

\* Two rows with the same basename of their URLs have one output.  of: the only row
\* whose threads wrote to it since it was last truncated, NoFile if there are several.
Content  == [is : {"none", "empty", "buffered", "whole", "damaged"},
             of : Files \cup {NoFile}]
NoOutput == [is |-> "none", of |-> NoFile]
Mixed    == [is |-> "damaged", of |-> NoFile]
Name(f)  == scene.name[f]

\* The process starts on the rows an earlier one left behind.
Init ==
  /\ scene \in Scenes /\ ops = 0 /\ restarts = 0
  /\ status \in [Files -> scene.first \cup {NoRow}]
  /\ \A f \in Files : IF f \in scene.rows THEN status[f] \in scene.first
                                         ELSE status[f] = NoRow
  /\ issued = {f \in Files : status[f] # NoRow}
  /\ partLen = [f \in Files |-> 0]
  /\ partOk = [f \in Files |-> TRUE]
  /\ output = [n \in Names |-> NoOutput]
  /\ listed = {}
  /\ Empty(public_dic, main, fetch, file, at, killed, rpc, op, todo, cur, obj, keys,
           picks, again)

-----------------------------------------------------------------------------
(* Pieces the handlers share, each mutant before what it is a mutant of *)

At(r, label) == rpc[r] = label
Goto(r, label) == rpc' = [rpc EXCEPT ![r] = label]

Save(f, st) == status' = [status EXCEPT ![f] = st]   \* inserts the row if it is gone

\* stop_thread: a dead thread only costs a caught ValueError.
stop_thread_unchecked(w) == killed' = killed \cup {w}
stop_thread(w) == killed' = IF MainLive(w) THEN killed \cup {w} ELSE killed

Pop_forgotten(f) == UNCHANGED public_dic
Pop(f) == public_dic' = [public_dic EXCEPT ![f] = NoEntry]

\* Rows check_dic may start: the first need_dow of the query, which names no order.
Slice_missing(S, queued) == S = queued
Slice(S, queued) ==
  /\ S = {} \/ Cardinality(S) + Cardinality(Registered) <= count_down
  /\ S = queued \/ Cardinality(S) + Cardinality(Registered) >= count_down

\* The first byte of the Range request: what the part file holds comes before it.
startpoint_zero(f) == 0
startpoint(f) == partLen[f]

\* The condition under which the startDown thread goes on polling.
Waits_deaf(w) == FetchLive(w)
Waits_forever(w) == isGo(file[w])
Waits_inverted(w) == FetchLive(w) /\ ~isGo(file[w])
Waits(w) == FetchLive(w) /\ isGo(file[w])

\* os.path.getsize of the output succeeds.
Listable(f) == output[Name(f)].is # "none"

\* The output after a thread of row f wrote to it; an unlinked one stays away.
Written(o, f, is) == CASE o.is = "none" -> o
                       [] o.is # "none" /\ o.of = f -> [is |-> is, of |-> f]
                       [] OTHER -> Mixed

\* Closing writes the tail of the buffer, at its offset.
Closed(o, f) == Written(o, f, CASE o.is = "buffered" -> "whole"
                                [] o.is = "empty"    -> "damaged"
                                [] OTHER             -> o.is)

\* The statuses of the rows a view goes on with, of those its ids select.
Accepts == [start |-> {Active, Paused},
            stop  |-> {Active},
            drop  |-> {Done, Active, Paused}]

-----------------------------------------------------------------------------
(* The views *)

Asks(r) == r \in scene.users /\ At(r, "idle") /\ ops < scene.ops /\ (scene.calm => Quiet)

\* start_down, stop_down, deldownfile: the rows are read here, once.
Begin(r, o, ids) ==
  LET wanted == {f \in ids : status[f] \in Accepts[o]} IN
  /\ Asks(r) /\ o \in scene.asks /\ wanted # {}
  /\ op' = [op EXCEPT ![r] = o]
  /\ todo' = [todo EXCEPT ![r] = wanted]
  /\ ops' = ops + 1
  /\ Goto(r, "next")
  /\ UNCHANGED <<disk, rows, public_dic, workers, hand, check, scene, restarts>>

\* adddownload: a new row, then check_dic.
adddownload(r, f) ==
  /\ Asks(r) /\ f \in scene.rows \ issued
  /\ issued' = issued \cup {f}
  /\ Save(f, Active)
  /\ ops' = ops + 1
  /\ Goto(r, "check")
  /\ UNCHANGED <<disk, public_dic, workers, batch, hand, check, scene, restarts>>

start_Down(r, f) ==
  /\ At(r, "next") /\ op[r] = "start" /\ f \in todo[r]
  /\ Save(f, Active)
  /\ todo' = [todo EXCEPT ![r] = @ \ {f}]
  /\ Goto(r, "check")
  /\ UNCHANGED <<disk, issued, public_dic, workers, op, hand, check, bounds>>

\* The first half of stopDown and of dropDown: get the entry and test its flag ...
Look(r, f) ==
  /\ At(r, "next") /\ op[r] \in {"stop", "drop"} /\ f \in todo[r]
  /\ cur' = [cur EXCEPT ![r] = f]
  /\ todo' = [todo EXCEPT ![r] = @ \ {f}]
  /\ IF isGo(f) THEN /\ obj' = [obj EXCEPT ![r] = public_dic[f].thread]
                     /\ Goto(r, "flag")
                ELSE /\ Goto(r, IF op[r] = "stop" THEN "pause" ELSE "unlink")
                     /\ UNCHANGED obj
  /\ UNCHANGED <<disk, rows, public_dic, workers, op, check, bounds>>

\* ... clear the flag, of whatever entry the row has by now ...
Flag(r) ==
  /\ At(r, "flag") /\ cur[r] \in Registered
  /\ public_dic' = [public_dic EXCEPT ![cur[r]].go = FALSE]
  /\ Goto(r, "kill")
  /\ UNCHANGED <<disk, rows, workers, batch, hand, check, bounds>>

\* ... which raises KeyError when there is none: stop_down ends with the rows it has
\* left, dropDown goes on to its last check_dic; either way the row stays as it is.
FlagFails(r) ==
  /\ At(r, "flag") /\ cur[r] \notin Registered
  /\ \/ /\ op[r] = "stop"
        /\ todo' = [todo EXCEPT ![r] = {}]
        /\ Goto(r, "next")
     \/ /\ op[r] = "drop"
        /\ Goto(r, "check")
        /\ UNCHANGED todo
  /\ UNCHANGED <<disk, rows, public_dic, workers, op, hand, check, bounds>>

\* ... and send the kill to the thread of the entry that was looked at.
KillThread(r) ==
  /\ At(r, "kill")
  /\ stop_thread(obj[r])
  /\ Goto(r, IF op[r] = "stop" THEN "pause" ELSE "unlink")
  /\ UNCHANGED <<disk, rows, public_dic, main, job, batch, hand, check, bounds>>

stopDown(r) ==
  /\ At(r, "pause")
  /\ Save(cur[r], Paused)
  /\ Goto(r, "check")
  /\ UNCHANGED <<disk, issued, public_dic, workers, batch, hand, check, bounds>>

\* dropDown: remove the part file and the output ...
dropFiles(r) ==
  /\ At(r, "unlink")
  /\ partLen' = [partLen EXCEPT ![cur[r]] = 0]
  /\ partOk' = [partOk EXCEPT ![cur[r]] = TRUE]
  /\ output' = [output EXCEPT ![Name(cur[r])] = NoOutput]
  /\ Goto(r, "delete")
  /\ UNCHANGED <<listed, rows, public_dic, workers, batch, hand, check, bounds>>

\* ... then the row; check_dic runs twice.
dropDown(r) ==
  /\ At(r, "delete")
  /\ Save(cur[r], NoRow)
  /\ again' = [again EXCEPT ![r] = TRUE]
  /\ Goto(r, "check")
  /\ UNCHANGED <<disk, issued, public_dic, workers, batch, hand, keys, picks, bounds>>

\* The loop over the rows is over; the reply is sent.
Reply(r) ==
  /\ At(r, "next") /\ todo[r] = {}
  /\ Goto(r, "idle")
  /\ UNCHANGED <<world, batch, hand, check>>

-----------------------------------------------------------------------------
(* check_dic *)

\* tmp_keys = public_dic.keys()
SweepBegin(r) ==
  /\ At(r, "check")
  /\ keys' = [keys EXCEPT ![r] = Registered]
  /\ Goto(r, "sweep")
  /\ UNCHANGED <<world, batch, hand, picks, again>>

\* An entry that is gone raises, an entry with the flag set is left alone.
SweepSkip(r, k) ==
  /\ At(r, "sweep") /\ k \in keys[r]
  /\ k \in Registered => public_dic[k].go
  /\ keys' = [keys EXCEPT ![r] = @ \ {k}]
  /\ UNCHANGED <<world, rpc, batch, hand, picks, again>>

SweepStop(r, k) ==
  /\ At(r, "sweep") /\ k \in keys[r]
  /\ k \in Registered /\ ~public_dic[k].go
  /\ stop_thread(public_dic[k].thread)
  /\ cur' = [cur EXCEPT ![r] = k]
  /\ Goto(r, "pop")
  /\ UNCHANGED <<disk, rows, public_dic, main, job, batch, obj, check, bounds>>

\* public_dic.pop(k) takes whatever entry is there by now.
SweepPop(r) ==
  /\ At(r, "pop")
  /\ Pop(cur[r])
  /\ keys' = [keys EXCEPT ![r] = @ \ {cur[r]}]
  /\ Goto(r, "sweep")
  /\ UNCHANGED <<disk, rows, workers, batch, hand, picks, again, bounds>>

\* The query does not look at public_dic: a row at work may be taken again.
Query(r) ==
  /\ At(r, "sweep") /\ keys[r] = {}
  /\ \E S \in SUBSET {f \in Files : status[f] = Active} :
       /\ Slice(S, {f \in Files : status[f] = Active})
       /\ picks' = [picks EXCEPT ![r] = S]
  /\ Goto(r, "launch")
  /\ UNCHANGED <<world, batch, hand, keys, again>>

\* A thread for the next row; its registry entry replaces any older one.
Launch(r, f, w) ==
  /\ At(r, "launch") /\ f \in picks[r] /\ w \in scene.threads /\ Reusable(w)
  /\ public_dic' = [public_dic EXCEPT ![f] = [thread |-> w, go |-> TRUE]]
  /\ main' = [main EXCEPT ![w] = "spawn"]
  /\ file' = [file EXCEPT ![w] = f]
  /\ picks' = [picks EXCEPT ![r] = @ \ {f}]
  /\ UNCHANGED <<disk, rows, fetch, at, killed, rpc, batch, hand, keys, again, bounds>>

CheckEnd(r) ==
  /\ At(r, "launch") /\ picks[r] = {}
  /\ again' = [again EXCEPT ![r] = FALSE]
  /\ Goto(r, IF again[r] THEN "check" ELSE "next")
  /\ UNCHANGED <<world, batch, hand, keys, picks>>

-----------------------------------------------------------------------------
(* The Download thread *)

FetchStep(w, from, to) == fetch[w] = from /\ fetch' = [fetch EXCEPT ![w] = to]

FetchOpen(w) ==
  /\ FetchStep(w, "open", "read")
  /\ at' = [at EXCEPT ![w] = startpoint(file[w])]
  /\ UNCHANGED <<disk, rows, public_dic, main, file, killed, rest>>

\* A block arrived: go on only while the flag is set.
FetchRead(w) ==
  /\ at[w] < scene.size
  /\ FetchStep(w, "read", IF isGo(file[w]) THEN "write" ELSE "ended")
  /\ UNCHANGED <<disk, rows, public_dic, main, file, at, killed, rest>>

\* open(filename, 'ab+').write(data)
FetchWrite(w) ==
  LET f == file[w] IN
  /\ FetchStep(w, "write", "read")
  /\ partLen' = [partLen EXCEPT ![f] = @ + 1]
  /\ partOk' = [partOk EXCEPT ![f] = @ /\ partLen[f] = at[w]]
  /\ at' = [at EXCEPT ![w] = @ + 1]
  /\ UNCHANGED <<output, listed, rows, public_dic, main, file, killed, rest>>

\* End of the data, or an exception: nobody looks at the result of run.
FetchEnd(w) ==
  /\ at[w] >= scene.size \/ scene.errors
  /\ FetchStep(w, "read", "ended")
  /\ UNCHANGED <<disk, rows, public_dic, main, file, at, killed, rest>>

-----------------------------------------------------------------------------
(* The startDown thread *)

Step(w, from, to) == main[w] = from /\ main' = [main EXCEPT ![w] = to]

Spawn(w) ==
  /\ Step(w, "spawn", "poll")
  /\ fetch' = [fetch EXCEPT ![w] = "open"]
  /\ UNCHANGED <<disk, rows, public_dic, file, at, killed, rest>>

\* while islive(tasks): if not isGo(df): break
Poll(w) ==
  /\ Step(w, "poll", IF Waits(w) THEN "tick" ELSE "open")
  /\ UNCHANGED <<disk, rows, public_dic, job, killed, rest>>

\* df.save() of the object read by check_dic, whose status is still 2.
Tick(w) ==
  /\ Step(w, "tick", "poll")
  /\ Save(file[w], Active)
  /\ UNCHANGED <<disk, issued, public_dic, job, killed, rest>>

\* open(output, 'wb+') truncates, whatever comes next and whoever else wrote it.
OpenOutput(w) ==
  /\ Step(w, "open", "copy")
  /\ output' = [output EXCEPT ![Name(file[w])] = [is |-> "empty", of |-> file[w]]]
  /\ UNCHANGED <<part, listed, rows, public_dic, job, killed, rest>>

\* The thread returns when its flag is off, and dies when there is no part file.
CopyRefused(w) ==
  /\ Step(w, "copy", "ended")
  /\ ~isGo(file[w]) \/ partLen[file[w]] = 0
  /\ killed' = killed \ {w}
  /\ UNCHANGED <<disk, rows, public_dic, job, rest>>

\* Copy the part file into the output and remove it.
Copy(w) ==
  LET f == file[w] IN
  /\ Step(w, "copy", "finish")
  /\ isGo(f) /\ partLen[f] > 0
  /\ output' = [output EXCEPT ![Name(f)] = Written(@, f,
               IF partOk[f] /\ partLen[f] = scene.size THEN "buffered" ELSE "damaged")]
  /\ partLen' = [partLen EXCEPT ![f] = 0]
  /\ partOk' = [partOk EXCEPT ![f] = TRUE]
  /\ UNCHANGED <<listed, rows, public_dic, job, killed, rest>>

Finish(w) ==
  /\ Step(w, "finish", "close")
  /\ Save(file[w], Done)
  /\ UNCHANGED <<disk, issued, public_dic, job, killed, rest>>

\* filehandle.close()
Close(w) ==
  /\ Step(w, "close", "leave")
  /\ output' = [output EXCEPT ![Name(file[w])] = Closed(@, file[w])]
  /\ UNCHANGED <<part, listed, rows, public_dic, job, killed, rest>>

\* if public_dic.get(df.id): whoever the entry belongs to ...
Leave(w) ==
  /\ Step(w, "leave", IF file[w] \in Registered THEN "pop" ELSE "index")
  /\ UNCHANGED <<disk, rows, public_dic, job, killed, rest>>

\* ... public_dic.pop(df.id); an entry gone in between ends the thread.
PopOwn(w) ==
  LET there == file[w] \in Registered IN
  /\ Step(w, "pop", IF there THEN "index" ELSE "ended")
  /\ Pop(file[w])
  /\ killed' = IF there THEN killed ELSE killed \ {w}
  /\ UNCHANGED <<disk, rows, job, rest>>

\* The Fileinfo_up row.
Index(w) ==
  /\ Step(w, "index", "ended")
  /\ listed' = IF Listable(file[w]) THEN listed \cup {file[w]} ELSE listed
  /\ killed' = killed \ {w}
  /\ UNCHANGED <<part, output, rows, public_dic, job, rest>>

\* The SystemExit of stop_thread arrives; the output is closed with the frame ...
Die(w) ==
  /\ w \in killed
  /\ output' = IF main[w] \in {"finish", "close"}
               THEN [output EXCEPT ![Name(file[w])] = Closed(@, file[w])] ELSE output
  /\ main' = [main EXCEPT ![w] = "ended"]
  /\ killed' = killed \ {w}
  /\ UNCHANGED <<part, listed, rows, public_dic, job, rest>>

\* ... or is swallowed by the bare except of isGo, which then returns False,
\* or by the one around os.remove.
Swallow(w) ==
  /\ w \in killed
  /\ \/ Step(w, "poll", "open")
     \/ Step(w, "copy", "ended")
     \/ Step(w, "finish", "finish")
  /\ killed' = killed \ {w}
  /\ UNCHANGED <<disk, rows, public_dic, job, rest>>

-----------------------------------------------------------------------------
\* The process ends at any point and is started again; rows and files remain,
\* but not what was still in a buffer.
Restart ==
  /\ restarts < scene.restarts
  /\ restarts' = restarts + 1
  /\ output' = [n \in Names |-> IF output[n].is = "buffered"
                                THEN [output[n] EXCEPT !.is = "damaged"] ELSE output[n]]
  /\ Empty(public_dic', main', fetch', file', at', killed', rpc', op', todo', cur', obj',
           keys', picks', again')
  /\ UNCHANGED <<part, listed, rows, scene, ops>>

Batches == {S \in SUBSET Files : S # {} /\ Cardinality(S) <= MaxBatch}

View(r) ==
  \/ \E o \in DOMAIN Accepts, ids \in Batches : Begin(r, o, ids)
  \/ \E f \in Files : adddownload(r, f)

Handle(r) ==
  \/ \E f \in Files : start_Down(r, f) \/ Look(r, f)
  \/ Flag(r) \/ FlagFails(r) \/ KillThread(r)
  \/ stopDown(r) \/ dropFiles(r) \/ dropDown(r) \/ Reply(r)
  \/ SweepBegin(r)
  \/ \E k \in Files : SweepSkip(r, k) \/ SweepStop(r, k)
  \/ SweepPop(r) \/ Query(r)
  \/ \E f \in Files, w \in Workers : Launch(r, f, w)
  \/ CheckEnd(r)

Fetch(w) == FetchOpen(w) \/ FetchRead(w) \/ FetchWrite(w) \/ FetchEnd(w)

startDown(w) ==
  \/ Spawn(w) \/ Poll(w) \/ Tick(w) \/ OpenOutput(w) \/ CopyRefused(w)
  \/ Copy(w) \/ Finish(w) \/ Close(w) \/ Leave(w) \/ PopOwn(w) \/ Index(w)

Kill(w) == Die(w) \/ Swallow(w)

Next ==
  \/ \E r \in Requests : View(r) \/ Handle(r)
  \/ \E w \in Workers : Fetch(w) \/ startDown(w) \/ Kill(w)
  \/ Restart

Spec == Init /\ [][Next]_vars

\* Threads are scheduled; users need not ask for anything, and a read from the
\* network may hang for ever (urllib2 is given no timeout), unless the scene is calm.
Fairness ==
  /\ \A r \in Requests : WF_vars(Handle(r))
  /\ \A w \in Workers : /\ WF_vars(startDown(w)) /\ WF_vars(Kill(w))
                        /\ WF_vars(scene.calm /\ Fetch(w))

FairSpec == Spec /\ Fairness

-----------------------------------------------------------------------------
(* Properties *)

\* The places at which a request has a row in hand.
Holding == {"flag", "kill", "pause", "unlink", "delete", "pop"}

TypeOK ==
  /\ status \in [Files -> {NoRow, Done, Active, Paused}]
  /\ issued \in SUBSET Files
  /\ partLen \in [Files -> Nat]
  /\ partOk \in [Files -> BOOLEAN]
  /\ output \in [Names -> Content]
  /\ listed \in SUBSET Files
  /\ public_dic \in [Files -> Entry \cup {NoEntry}]
  /\ main \in [Workers -> {"ended", "spawn", "poll", "tick", "open", "copy",
                           "finish", "close", "leave", "pop", "index"}]
  /\ fetch \in [Workers -> {"ended", "open", "read", "write"}]
  /\ file \in [Workers -> Files \cup {NoFile}]
  /\ \A w \in Workers : MainLive(w) \/ FetchLive(w) => file[w] \in Files
  /\ at \in [Workers -> Nat]
  /\ killed \in SUBSET {w \in Workers : MainLive(w)}
  /\ rpc \in [Requests -> {"idle", "next", "flag", "kill", "pause", "unlink", "delete",
                           "check", "sweep", "pop", "launch"}]
  /\ op \in [Requests -> {"start", "stop", "drop"}]
  /\ todo \in [Requests -> SUBSET Files]
  /\ cur \in [Requests -> Files \cup {NoFile}]
  /\ \A r \in Requests : rpc[r] \in Holding => cur[r] \in Files
  /\ obj \in [Requests -> Workers \cup {NoEntry}]
  /\ \A r \in Requests : rpc[r] \in {"flag", "kill"} => obj[r] \in Workers
  /\ keys \in [Requests -> SUBSET Files]
  /\ picks \in [Requests -> SUBSET Files]
  /\ again \in [Requests -> BOOLEAN]
  /\ scene \in Scenes /\ ops \in Nat /\ restarts \in Nat

\* Requests that run check_dic at the same time count the same free slots, so the
\* registry may pass count_down, but by no more than one share for each request thread
\* (check_dic, main_down.py:33-53).
SlotBound == Cardinality(Registered) <= count_down * Cardinality(Requests)

\* A request on its way to the sweep of check_dic that will meet the entry of f.
WillSweep(r, f) ==
  \/ rpc[r] \in {"kill", "pause", "unlink", "delete", "check"}
  \/ rpc[r] = "sweep" /\ f \in keys[r]
  \/ rpc[r] = "pop" /\ f \in keys[r]

\* An entry whose flag is off is held by a request that has still to sweep it, also
\* when the sweep of another request or the end of its worker pops the entry first:
\* once the stop and delete requests are over, no stopped download holds a slot.
StoppedIsSwept ==
  \A f \in Registered : ~public_dic[f].go => \E r \in Requests : WillSweep(r, f)

\* A download cut off by a network error or by the end of the process, and taken up
\* again by a calm user or by check_dic: the part file holds a prefix of the remote
\* file, because the Range request starts where the file ends (Download.run).  That a
\* user stops a download at work is not part of it: a thread that was stopped may
\* still write its last block while the next one reads the length of the file.
PartIsPrefix ==
  scene.calm =>
    \A f \in Files : status[f] # NoRow => partOk[f] /\ partLen[f] <= scene.size

\* No other row ever had the same output.
Own(f) == \A g \in issued \ {f} : Name(g) # Name(f)

\* A row says "done" only of a file that is complete on the disk or in the buffer of
\* the thread about to close it, unless another row has the same output.
DoneIsWhole ==
  \A f \in Files : status[f] = Done /\ Own(f) =>
    /\ output[Name(f)].of = f
    /\ \/ output[Name(f)].is = "whole"
       \/ /\ output[Name(f)].is = "buffered"
          /\ \E w \in Workers : main[w] = "close" /\ file[w] = f

\* When the threads have ended, a finished download is in the file index.
DoneIsListed == Quiet => \A f \in Files : status[f] = Done => f \in listed

\* A calm user, and neither a Download thread nor the process ends before its work is
\* done.
Unbroken == scene.calm /\ ~scene.errors /\ restarts = 0

DoneIsFinished == Unbroken => DoneIsWhole /\ DoneIsListed

\* A download loses the entry it runs under only when it is completed.
KeptUntilDone ==
  [][\A f \in Files : Unbroken' /\ isGo(f) /\ ~isGo(f)' => status'[f] = Done]_vars

\* A download that got a thread does not keep it for ever, and leaves it completed.
LaunchedCompletes == KeptUntilDone /\ \A f \in Files : []<>(Unbroken => ~isGo(f))

\* Once a download has left public_dic for good, every startDown thread of it
\* ends, also one whose entry was replaced and which is never sent a kill.
StopTakesEffect ==
  \A f \in Files :
    <>[](f \notin Registered) =>
      <>[](\A w \in Workers : file[w] = f => ~MainLive(w))

-----------------------------------------------------------------------------
(* What comments of the code say, and the code does not do *)

\* main_down.py:100 "delete a download": a deleted row stays deleted.
DroppedIsGone ==
  [][\A f \in issued : status[f] = NoRow => status'[f] = NoRow]_vars

=============================================================================
