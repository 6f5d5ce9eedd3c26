---------------------------- MODULE BtDownProofs ----------------------------
(* What TLAPS proves of BtDown, for every value of the constants. *)
EXTENDS BtDown, Counting

LEMMA SceneFacts ==
  ASSUME NEW s \in Scenes
  PROVE  /\ s.old \in [Torrents -> Names \cup {NoName}] /\ s.users \in SUBSET Requests
         /\ s.threads \in SUBSET Workers /\ s.names \in SUBSET Names
BY BtAssumption

\* The state keeps its shape: a handler in the middle of its work has a row and a
\* name at hand, a running thread has the row it works for (btdown.py, every
\* function that assigns).
THEOREM TypeCorrect == Spec => []TypeOK
<1>1. Init => TypeOK
  <2> SUFFICES ASSUME Init PROVE TypeOK
    OBVIOUS
  <2>1. name \in [Torrents -> Names \cup {NoName}]
    BY SceneFacts DEF Init
  <2>2. /\ status \in [Torrents -> {NoRow, Waiting}]
        /\ \A b \in Torrents : status[b] # NoRow => name[b] \in Names
    BY <2>1 DEF Init, NoRow, Waiting
  <2>3. QED
    BY <2>1, <2>2 DEF Init, Empty, TypeOK, Holding, Looked, Live, Registered
<1>2. TypeOK /\ [Next]_vars => TypeOK'
  <2> SUFFICES ASSUME TypeOK, [Next]_vars PROVE TypeOK'
    OBVIOUS
  <2> USE DEF rows, disk, workers, batch, hand, check, requests, bounds, world, rest,
          At, Goto, Save, Pop, Live, Registered
  <2>view. ASSUME NEW r \in Requests, View(r) PROVE TypeOK'
    <3>1. ASSUME NEW o \in DOMAIN Accepts, NEW b \in Torrents, Begin(r, o, {b})
          PROVE TypeOK'
      <4>1. o \in {"start", "stop", "drop"}
        BY DEF Accepts
      <4>2. \A s \in Accepts[o] : s # NoRow
        BY DEF Accepts, NoRow, Done, Loading, Paused, Waiting
      <4>3. \A c \in Torrents : status[c] \in Accepts[o] => name[c] \in Names
        BY <4>2 DEF TypeOK
      <4>4. QED
        BY <3>1, <4>1, <4>3 DEF Begin, Asks, TypeOK, Holding, Looked
    <3>2. ASSUME NEW n \in Names, NEW godown \in BOOLEAN, addBt(r, n, godown)
          PROVE TypeOK'
      BY <3>2 DEF addBt, Asks, TypeOK, Holding, Looked
    <3>3. QED
      BY <2>view, <3>1, <3>2 DEF View
  <2>handle. ASSUME NEW r \in Requests, Handle(r) PROVE TypeOK'
    <3>1. ASSUME NEW b \in Torrents, AddRow(r, b) PROVE TypeOK'
      BY <3>1, BtAssumption DEF AddRow, TypeOK, Holding, Looked, Loading
    <3>2. ASSUME NEW b \in Torrents, startBT(r, b) PROVE TypeOK'
      BY <3>2 DEF startBT, TypeOK, Holding, Looked
    <3>3. ASSUME NEW b \in Torrents, Look(r, b) PROVE TypeOK'
      <4>1. b \in Registered => public_dic_bt[b].thread \in Workers
        <5>1. b \in Registered => public_dic_bt[b] \in Entry
          BY DEF TypeOK
        <5>2. QED
          BY <5>1 DEF Entry
      <4>2. b \in todo[r] => name[b] \in Names
        BY DEF TypeOK
      <4>3. QED
        BY SMTT(30), <3>3, <4>1, <4>2 DEF Look, TypeOK, Holding, Looked
    <3>4. CASE Flag(r)
      <4>1. cur[r] \in Torrents /\ public_dic_bt[cur[r]] \in Entry
        BY <3>4 DEF Flag, TypeOK
      <4>2. [public_dic_bt[cur[r]] EXCEPT !.go = FALSE] \in Entry
        BY <4>1 DEF Entry
      <4>3. /\ public_dic_bt' \in [Torrents -> Entry \cup {NoEntry}]
            /\ \A c \in Torrents : public_dic_bt'[c] # NoEntry => name[c] \in Names
        BY <3>4, <4>1, <4>2 DEF Flag, TypeOK
      <4>4. QED
        BY <3>4, <4>3 DEF Flag, TypeOK, Holding, Looked
    <3>5. CASE FlagFails(r)
      BY <3>5 DEF FlagFails, TypeOK, Holding, Looked
    <3>6. CASE PutBack(r)
      <4>1. /\ cur[r] \in Torrents /\ name[cur[r]] \in Names
            /\ [thread |-> obj[r], go |-> FALSE] \in Entry
        BY <3>6 DEF PutBack, TypeOK, Holding, Looked, Entry
      <4>2. /\ public_dic_bt' \in [Torrents -> Entry \cup {NoEntry}]
            /\ \A c \in Torrents : public_dic_bt'[c] # NoEntry => name[c] \in Names
        BY <3>6, <4>1 DEF PutBack, TypeOK
      <4>3. QED
        BY <3>6, <4>2 DEF PutBack, TypeOK, Holding, Looked
    <3>7. CASE KillThread(r)
      <4>1. killed' \in SUBSET {w \in Workers : Live(w)'}
        BY <3>7 DEF KillThread, stop_thread, TypeOK, Looked
      <4>2. QED
        BY <3>7, <4>1 DEF KillThread, TypeOK, Holding, Looked
    <3>8. CASE AddRefused(r)
      BY <3>8 DEF AddRefused, TypeOK, Holding, Looked
    <3>9. CASE StartSave(r)
      BY <3>9 DEF StartSave, TypeOK, Holding, Looked, Waiting
    <3>10. CASE stopBT(r)
      BY <3>10 DEF stopBT, TypeOK, Holding, Looked, Paused
    <3>11. CASE DropEntry(r)
      BY <3>11 DEF DropEntry, Unregister, TypeOK, Holding, Looked
    <3>12. CASE DropGivesUp(r)
      BY <3>12 DEF DropGivesUp, TypeOK, Holding, Looked
    <3>13. CASE DropFiles(r)
      BY <3>13 DEF DropFiles, TypeOK, Holding, Looked
    <3>14. CASE deleteBT(r)
      BY <3>14 DEF deleteBT, TypeOK, Holding, Looked, NoRow
    <3>15. CASE Reply(r)
      BY <3>15 DEF Reply, TypeOK, Holding, Looked
    <3>16. CASE SweepBegin(r)
      BY <3>16 DEF SweepBegin, TypeOK, Holding, Looked
    <3>17. ASSUME NEW k \in Torrents, SweepSkip(r, k) PROVE TypeOK'
      BY <3>17 DEF SweepSkip, TypeOK, Holding, Looked
    <3>18. ASSUME NEW k \in Torrents, SweepStop(r, k) PROVE TypeOK'
      <4>1. killed' \in SUBSET {w \in Workers : Live(w)'}
        BY <3>18 DEF SweepStop, Entry, stop_thread, TypeOK
      <4>2. QED
        BY <3>18, <4>1 DEF SweepStop, TypeOK, Holding, Looked
    <3>19. CASE SweepPop(r)
      BY <3>19 DEF SweepPop, TypeOK, Holding, Looked
    <3>20. CASE Query(r)
      <4>1. \A b \in Queued : name[b] \in Names
        BY DEF Queued, TypeOK, NoRow, Loading, Waiting
      <4>2. QED
        BY <3>20, <4>1 DEF Query, Queued, TypeOK, Holding, Looked
    <3>21. ASSUME NEW b \in Torrents, NEW w \in Workers, Launch(r, b, w) PROVE TypeOK'
      BY <3>21 DEF Launch, Entry, TypeOK, Holding, Looked
    <3>22. CASE CheckEnd(r)
      BY <3>22 DEF CheckEnd, TypeOK, Holding, Looked
    <3>23. QED
      BY <2>handle, <3>1, <3>2, <3>3, <3>8, <3>9, <3>10, <3>11, <3>12, <3>13, <3>14, <3>15,
         <3>16, <3>17, <3>18, <3>19, <3>20, <3>21, <3>22, <3>4, <3>5, <3>6, <3>7 DEF Handle
  <2>worker. ASSUME NEW w \in Workers, downBTFile(w) \/ Kill(w) \/ Receive(w) PROVE TypeOK'
    <3>1. CASE Open(w)
      BY <3>1 DEF Open, Step, TypeOK
    <3>2. CASE Loop(w)
      <4>1. Turn(bt[w]) \in {"done", "ended", "save"}
        BY DEF Turn
      <4>2. QED
        BY <3>2, <4>1 DEF Loop, Step, TypeOK
    <3>3. CASE Track(w)
      BY <3>3 DEF Track, Step, TypeOK, Loading
    <3>4. CASE Sleep(w)
      BY <3>4 DEF Sleep, Step, TypeOK
    <3>5. CASE Finish(w)
      BY <3>5 DEF Finish, Step, TypeOK, Done
    <3>6. CASE Die(w)
      BY <3>6 DEF Die, Step, TypeOK
    <3>7. CASE Swallow(w)
      BY <3>7 DEF Swallow, TypeOK
    <3>8. CASE Receive(w)
      BY <3>8 DEF Receive, TypeOK
    <3>9. QED
      BY <2>worker, <3>1, <3>2, <3>3, <3>4, <3>5, <3>6, <3>7, <3>8 DEF downBTFile, Kill
  <2>restart. CASE Restart
    BY <2>restart DEF Restart, Empty, TypeOK, Holding, Looked
  <2>stutter. CASE UNCHANGED vars
    BY <2>stutter DEF vars, TypeOK
  <2>. QED
    BY <2>view, <2>handle, <2>worker, <2>restart, <2>stutter DEF Next
<1>3. QED
  BY <1>1, <1>2, PTL DEF Spec

\* With one request thread in use an entry of the registry always has its row, so that
\* the slot it holds can be freed by a stop or a delete (deleteBT and check_bt_dic,
\* btdown.py:44-85 and 230-265).  Inductive with what the request is doing: rows are
\* picked for launching only while nothing is deleted, an entry is put back while its
\* row is there, and a row is deleted only after its entry has left the registry.
THEOREM EntriesHaveRows == Spec => []EntryHasRow
<1> DEFINE HaveRows   == \A b \in Registered : status[b] # NoRow
           Picked(r)  == /\ \A b \in picks[r] : status[b] # NoRow
                         /\ rpc[r] # "launch" => picks[r] = {}
           Dropped(r) == /\ rpc[r] = "put" => status[cur[r]] # NoRow
                         /\ rpc[r] \in {"unlink", "delete"} => cur[r] \notin Registered
           Unused     == \A r \in Requests \ scene.users : rpc[r] = "idle"
           Inv        == /\ Unused
                         /\ OneUser => HaveRows /\ \A r \in Requests : Picked(r) /\ Dropped(r)
<1> USE DEF rows, disk, workers, batch, hand, check, requests, bounds, world, rest,
        At, Goto, Save, Pop, Registered
<1>1. Init => Inv
  BY DEF Init, Empty
<1>2. TypeOK /\ Inv /\ [Next]_vars => Inv'
  <2> SUFFICES ASSUME TypeOK, Inv, [Next]_vars PROVE Inv'
    OBVIOUS
  <2>1. ASSUME NEW r \in scene.users, scene' = scene,
               \A q \in Requests \ {r} : /\ rpc'[q] = rpc[q] /\ cur'[q] = cur[q]
                                          /\ picks'[q] = picks[q],
               OneUser => HaveRows' /\ Picked(r)' /\ Dropped(r)'
        PROVE  Inv'
    <3>1. Unused'
      BY <2>1
    <3>2. ASSUME OneUser, NEW q \in Requests PROVE Picked(q)' /\ Dropped(q)'
      <4>1. CASE q = r
        BY <2>1, <3>2, <4>1
      <4>2. CASE q # r
        <5>1. rpc[q] = "idle" /\ picks[q] = {}
          BY <2>1, <3>2, <4>2 DEF OneUser
        <5>2. QED
          BY <2>1, <4>2, <5>1
      <4>3. QED
        BY <4>1, <4>2
    <3>3. OneUser' <=> OneUser
      BY <2>1 DEF OneUser
    <3>4. QED
      BY <2>1, <3>1, <3>2, <3>3
  <2>2. ASSUME NEW r \in Requests, View(r) PROVE Inv'
    <3>1. /\ r \in scene.users /\ rpc[r] = "idle" /\ rpc'[r] \in {"next", "add"}
          /\ UNCHANGED <<public_dic_bt, status, scene, cur, picks>>
          /\ \A q \in Requests \ {r} : rpc'[q] = rpc[q]
      BY <2>2 DEF View, Begin, addBt, Asks, TypeOK
    <3>2. QED
      BY <2>1, <3>1
  <2>3. ASSUME NEW r \in Requests, Handle(r) PROVE Inv'
    <3>1. rpc[r] # "idle" /\ scene' = scene
      BY <2>3 DEF Handle, AddRow, startBT, Look, AddRefused, StartSave, Flag, FlagFails,
                  PutBack, KillThread, stopBT, DropEntry, DropGivesUp, DropFiles, deleteBT,
                  Reply, SweepBegin, SweepSkip, SweepStop, SweepPop, Query, Launch, CheckEnd
    <3>2. r \in scene.users
      BY <3>1
    <3>3. CASE (\E b \in Torrents : AddRow(r, b)) \/ StartSave(r) \/ stopBT(r)
      <4>1. /\ rpc'[r] \in {"next", "check"} /\ UNCHANGED <<public_dic_bt, picks, cur>>
            /\ rpc[r] \in {"add", "wait", "pause"}
            /\ \A b \in Torrents : status[b] # NoRow => status'[b] # NoRow
            /\ \A q \in Requests \ {r} : rpc'[q] = rpc[q]
        BY <3>3 DEF AddRow, StartSave, stopBT, TypeOK, NoRow, Loading, Paused, Waiting
      <4>2. QED
        BY <2>1, <3>1, <3>2, <4>1
    <3>4. CASE \/ \E b \in Torrents : startBT(r, b) \/ SweepSkip(r, b) \/ SweepStop(r, b)
               \/ AddRefused(r) \/ FlagFails(r) \/ KillThread(r) \/ DropGivesUp(r)
               \/ Reply(r) \/ SweepBegin(r) \/ CheckEnd(r)
      <4>1. /\ UNCHANGED <<public_dic_bt, picks, status>> /\ (rpc[r] = "launch" => picks[r] = {})
            /\ rpc'[r] \notin {"put", "unlink", "delete", "launch"}
            /\ \A q \in Requests \ {r} : rpc'[q] = rpc[q] /\ cur'[q] = cur[q]
        BY <3>4 DEF startBT, SweepSkip, SweepStop, AddRefused, FlagFails, KillThread,
                    DropGivesUp, Reply, SweepBegin, CheckEnd, TypeOK
      <4>2. QED
        BY <2>1, <3>1, <3>2, <4>1
    <3>5. ASSUME NEW b \in Torrents, Look(r, b) PROVE Inv'
      <4>1. /\ rpc[r] = "next" /\ rpc'[r] \in {"flag", "put", "pause", "unlink"}
            /\ rpc'[r] = "put" => b \in Registered
            /\ rpc'[r] = "unlink" => b \notin Registered
            /\ cur'[r] = b /\ UNCHANGED <<public_dic_bt, picks, status>>
            /\ \A q \in Requests \ {r} : rpc'[q] = rpc[q] /\ cur'[q] = cur[q]
        BY <3>5 DEF Look, TypeOK
      <4>2. QED
        BY <2>1, <3>1, <3>2, <4>1
    <3>6. CASE Flag(r) \/ PutBack(r)
      <4>1. /\ rpc[r] \in {"flag", "put"} /\ rpc'[r] = "kill"
            /\ UNCHANGED <<cur, picks, status>>
            /\ rpc[r] = "flag" => cur[r] \in Registered
            /\ Registered' \subseteq Registered \cup {cur[r]}
            /\ \A q \in Requests \ {r} : rpc'[q] = rpc[q]
        BY <3>6 DEF Flag, PutBack, TypeOK
      <4>2. QED
        BY <2>1, <3>1, <3>2, <4>1
    <3>7. CASE DropEntry(r) \/ SweepPop(r)
      <4>1. /\ rpc'[r] \in {"unlink", "sweep"} /\ rpc[r] \in {"unregister", "pop"}
            /\ UNCHANGED <<cur, picks, status>>
            /\ cur[r] \in Torrents /\ cur[r] \notin Registered'
            /\ Registered' \subseteq Registered
            /\ \A q \in Requests \ {r} : rpc'[q] = rpc[q]
        BY <3>7 DEF DropEntry, Unregister, SweepPop, TypeOK, Holding
      <4>2. QED
        BY <2>1, <3>1, <3>2, <4>1
    <3>8. CASE DropFiles(r)
      <4>1. /\ rpc[r] = "unlink" /\ rpc'[r] = "delete"
            /\ UNCHANGED <<cur, picks, status, public_dic_bt>>
            /\ \A q \in Requests \ {r} : rpc'[q] = rpc[q]
        BY <3>8 DEF DropFiles, TypeOK
      <4>2. QED
        BY <2>1, <3>1, <3>2, <4>1
    <3>9. CASE deleteBT(r)
      <4>1. /\ rpc[r] = "delete" /\ rpc'[r] = "check"
            /\ UNCHANGED <<cur, picks, public_dic_bt>>
            /\ \A b \in Torrents \ {cur[r]} : status'[b] = status[b]
            /\ \A q \in Requests \ {r} : rpc'[q] = rpc[q]
        BY <3>9 DEF deleteBT, TypeOK
      <4>2. QED
        BY <2>1, <3>1, <3>2, <4>1
    <3>10. CASE Query(r)
      <4>1. \A b \in Queued : status[b] # NoRow
        BY DEF Queued, NoRow, Loading, Waiting
      <4>2. /\ rpc'[r] = "launch" /\ UNCHANGED <<cur, status, public_dic_bt>>
            /\ picks'[r] \subseteq Queued
            /\ \A q \in Requests \ {r} : rpc'[q] = rpc[q] /\ picks'[q] = picks[q]
        BY <3>10 DEF Query, TypeOK
      <4>3. QED
        BY <2>1, <3>1, <3>2, <4>1, <4>2
    <3>11. ASSUME NEW b \in Torrents, NEW w \in Workers, Launch(r, b, w) PROVE Inv'
      <4>1. /\ b \in picks[r] /\ Registered' \subseteq Registered \cup {b}
            /\ picks'[r] \subseteq picks[r] /\ rpc[r] = "launch"
            /\ UNCHANGED <<rpc, cur, status>>
            /\ \A q \in Requests \ {r} : picks'[q] = picks[q]
        BY <3>11 DEF Launch, TypeOK
      <4>2. QED
        BY <2>1, <3>1, <3>2, <4>1
    <3>12. QED
      BY <2>3, <3>3, <3>4, <3>5, <3>6, <3>7, <3>8, <3>9, <3>10, <3>11 DEF Handle
  <2>4. ASSUME NEW w \in Workers, downBTFile(w) \/ Kill(w) \/ Receive(w) PROVE Inv'
    <3>1. /\ UNCHANGED <<public_dic_bt, rpc, cur, picks, scene>>
          /\ \A b \in Torrents : status[b] # NoRow => status'[b] # NoRow
      BY <2>4 DEF downBTFile, Open, Loop, Track, Sleep, Finish, Kill, Die, Swallow,
                  Receive, TypeOK, NoRow, Loading, Done
    <3>2. \A r \in Requests : /\ picks[r] \subseteq Torrents
                              /\ rpc[r] = "put" => cur[r] \in Torrents
      BY DEF TypeOK, Holding
    <3>3. QED
      BY <3>1, <3>2 DEF OneUser
  <2>5. CASE Restart
    BY <2>5 DEF Restart, Empty, OneUser
  <2>6. CASE UNCHANGED vars
    BY <2>6 DEF vars, OneUser
  <2>7. QED
    BY <2>2, <2>3, <2>4, <2>5, <2>6 DEF Next
<1>3. Inv => EntryHasRow
  BY DEF EntryHasRow
<1>4. QED
  BY <1>1, <1>2, <1>3, TypeCorrect, PTL DEF Spec

\* A stopped or deleted torrent does not keep its slot: whenever an entry of
\* public_dic_bt has its flag off, a request is on its way to popping it (startBT,
\* stopBT, deleteBT and check_bt_dic, btdown.py:44-85 and 181-265).  deleteBT pops
\* the entry it marked itself; a sweep that was faster has popped it as well.
THEOREM StoppedSwept == Spec => []StoppedIsSwept
<1>1. Init => StoppedIsSwept
  BY DEF Init, Empty, StoppedIsSwept, Registered
<1>2. TypeOK /\ StoppedIsSwept /\ [Next]_vars => StoppedIsSwept'
  <2> SUFFICES ASSUME TypeOK, StoppedIsSwept, [Next]_vars,
                      NEW b \in Registered', ~public_dic_bt'[b].go
               PROVE \E r \in Requests : WillPop(r, b)'
    BY DEF StoppedIsSwept
  <2> b \in Torrents
    BY DEF Registered
  <2> USE DEF rows, disk, workers, batch, hand, check, requests, bounds, world, rest,
          At, Goto, Save, Pop, Registered
  \* A step that leaves the entry alone: the request that was going to pop it does
  \* not give that up.
  <2>1. ASSUME public_dic_bt'[b] = public_dic_bt[b], NEW q,
               \A r \in Requests \ {q} :
                  rpc'[r] = rpc[r] /\ cur'[r] = cur[r] /\ keys'[r] = keys[r] /\ op'[r] = op[r],
               q \in Requests /\ WillPop(q, b) => WillPop(q, b)'
        PROVE \E r \in Requests : WillPop(r, b)'
    <3>1. PICK r \in Requests : WillPop(r, b)
      BY <2>1 DEF StoppedIsSwept
    <3>2. WillPop(r, b)'
      BY <2>1, <3>1 DEF WillPop
    <3>3. QED
      BY <3>2
  <2>2. ASSUME NEW q \in Requests, View(q)
        PROVE \E r \in Requests : WillPop(r, b)'
    <3>1. /\ rpc[q] = "idle" /\ UNCHANGED <<public_dic_bt, cur, keys>>
          /\ \A r \in Requests \ {q} : rpc'[r] = rpc[r] /\ op'[r] = op[r]
      BY <2>2 DEF View, Begin, addBt, Asks, TypeOK
    <3>2. QED
      BY <2>1, <3>1 DEF WillPop
  <2>3. ASSUME NEW q \in Requests, Handle(q)
        PROVE \E r \in Requests : WillPop(r, b)'
    <3>1. CASE Flag(q) \/ PutBack(q)
      <4>1. /\ rpc[q] \in {"flag", "put"} /\ rpc'[q] = "kill" /\ UNCHANGED <<cur, keys, op>>
            /\ cur[q] \in Torrents
            /\ \A r \in Requests \ {q} : rpc'[r] = rpc[r]
        BY <3>1 DEF Flag, PutBack, TypeOK, Holding
      <4>2. CASE b = cur[q]
        BY <4>1, <4>2 DEF WillPop
      <4>3. CASE b # cur[q]
        <5>1. public_dic_bt'[b] = public_dic_bt[b]
          BY <3>1, <4>1, <4>3 DEF Flag, PutBack, TypeOK
        <5>2. ~WillPop(q, b)
          BY <4>1 DEF WillPop
        <5>3. QED
          BY <2>1, <4>1, <5>1, <5>2
      <4>4. QED
        BY <4>2, <4>3
    <3>2. CASE (\E c \in Torrents : Look(q, c)) \/ FlagFails(q)
      <4>1. /\ rpc[q] \in {"next", "flag"} /\ UNCHANGED <<public_dic_bt, keys, op>>
            /\ \A r \in Requests \ {q} : rpc'[r] = rpc[r] /\ cur'[r] = cur[r]
        BY <3>2 DEF Look, FlagFails, TypeOK
      <4>2. ~WillPop(q, b)
        BY <4>1 DEF WillPop
      <4>3. QED
        BY <2>1, <4>1, <4>2
    <3>3. CASE KillThread(q)
      <4>1. /\ rpc[q] = "kill" /\ UNCHANGED <<public_dic_bt, keys, op, cur>>
            /\ rpc'[q] = IF op[q] = "stop" THEN "pause" ELSE "unregister"
            /\ \A r \in Requests \ {q} : rpc'[r] = rpc[r]
        BY <3>3 DEF KillThread, TypeOK
      <4>2. WillPop(q, b) => WillPop(q, b)'
        BY <4>1 DEF WillPop
      <4>3. QED
        BY <2>1, <4>1, <4>2
    <3>4. CASE \/ \E c \in Torrents : AddRow(q, c) \/ startBT(q, c)
               \/ AddRefused(q) \/ StartSave(q) \/ stopBT(q) \/ DropGivesUp(q)
               \/ DropFiles(q) \/ deleteBT(q) \/ Reply(q)
               \/ SweepBegin(q) \/ Query(q) \/ CheckEnd(q)
      <4>1. /\ UNCHANGED public_dic_bt
            /\ \A r \in Requests \ {q} :
                 /\ rpc'[r] = rpc[r] /\ cur'[r] = cur[r]
                 /\ keys'[r] = keys[r] /\ op'[r] = op[r]
        BY <3>4 DEF AddRow, startBT, AddRefused, StartSave, stopBT, DropGivesUp,
                    DropFiles, deleteBT, Reply, SweepBegin, Query, CheckEnd, TypeOK
      <4>2. WillPop(q, b) => WillPop(q, b)'
        BY <3>4 DEF AddRow, startBT, AddRefused, StartSave, stopBT, DropGivesUp,
                    DropFiles, deleteBT, Reply, SweepBegin, Query, CheckEnd, WillPop,
                    TypeOK
      <4>3. QED
        BY <2>1, <4>1, <4>2
    <3>5. CASE DropEntry(q)
      <4>1. /\ rpc[q] = "unregister" /\ cur[q] \in Torrents /\ UNCHANGED <<cur, keys, op>>
            /\ \A r \in Requests \ {q} : rpc'[r] = rpc[r]
        BY <3>5 DEF DropEntry, TypeOK, Holding
      <4>2. b # cur[q] /\ public_dic_bt'[b] = public_dic_bt[b]
        BY <3>5, <4>1 DEF DropEntry, Unregister, TypeOK
      <4>3. ~WillPop(q, b)
        BY <4>1, <4>2 DEF WillPop
      <4>4. QED
        BY <2>1, <4>1, <4>2, <4>3
    <3>6. ASSUME NEW k \in Torrents, SweepSkip(q, k) \/ SweepStop(q, k)
          PROVE \E r \in Requests : WillPop(r, b)'
      <4>1. /\ UNCHANGED public_dic_bt
            /\ \A r \in Requests \ {q} :
                 /\ rpc'[r] = rpc[r] /\ cur'[r] = cur[r]
                 /\ keys'[r] = keys[r] /\ op'[r] = op[r]
        BY <3>6 DEF SweepSkip, SweepStop, TypeOK
      <4>2. WillPop(q, b) => WillPop(q, b)'
        BY <3>6, <4>1 DEF SweepSkip, SweepStop, WillPop, TypeOK
      <4>3. QED
        BY <2>1, <4>1, <4>2
    <3>7. CASE SweepPop(q)
      <4>1. cur[q] \in Torrents
        BY <3>7 DEF SweepPop, TypeOK, Holding
      <4>2. b # cur[q] /\ public_dic_bt'[b] = public_dic_bt[b]
        BY <3>7, <4>1 DEF SweepPop, TypeOK
      <4>3. /\ UNCHANGED <<cur, op>>
            /\ \A r \in Requests \ {q} : rpc'[r] = rpc[r] /\ keys'[r] = keys[r]
        BY <3>7 DEF SweepPop, TypeOK
      <4>4. WillPop(q, b) => WillPop(q, b)'
        BY <3>7, <4>2 DEF SweepPop, WillPop, TypeOK
      <4>5. QED
        BY <2>1, <4>2, <4>3, <4>4
    <3>8. ASSUME NEW c \in Torrents, NEW w \in Workers, Launch(q, c, w)
          PROVE \E r \in Requests : WillPop(r, b)'
      <4>1. /\ b # c /\ public_dic_bt'[b] = public_dic_bt[b]
            /\ UNCHANGED <<rpc, cur, keys, op>>
        BY <3>8 DEF Launch, TypeOK
      <4>2. QED
        BY <2>1, <4>1 DEF WillPop
    <3>9. QED
      BY <2>3, <3>1, <3>4, <3>5, <3>6, <3>7, <3>8, <3>2, <3>3 DEF Handle
  <2>4. ASSUME UNCHANGED <<public_dic_bt, rpc, cur, keys, op>>
        PROVE \E r \in Requests : WillPop(r, b)'
    BY <2>4 DEF StoppedIsSwept, WillPop
  <2>5. ASSUME NEW w \in Workers, downBTFile(w) \/ Kill(w) \/ Receive(w)
        PROVE \E r \in Requests : WillPop(r, b)'
    BY <2>4, <2>5 DEF downBTFile, Open, Loop, Track, Sleep, Finish, Kill, Die, Swallow,
                      Receive
  <2>6. CASE Restart
    BY <2>6 DEF Restart, Empty
  <2>7. CASE UNCHANGED vars
    BY <2>4, <2>7 DEF vars
  <2>8. QED
    BY <2>2, <2>3, <2>5, <2>6, <2>7 DEF Next
<1>3. QED
  BY <1>1, <1>2, TypeCorrect, PTL DEF Spec

\* However many requests run check_bt_dic at the same time, public_dic_bt holds at
\* most count_down_bt entries for each request thread (btdown.py:44-85 and 232-236).  The
\* invariant also counts the rows that are picked and not launched, as in MainDownProofs,
\* and the entries that deleteBT has read and is about to put back: it has picked
\* nothing at that time.
THEOREM SlotsHeld == Spec => []SlotBound
<1> DEFINE ahead  == [r \in Requests |-> IF rpc[r] = "put" THEN {cur[r]} ELSE {}]
           Ahead  == {b \in Torrents : \E r \in Requests : b \in ahead[r]}
           Counts == Shares(Requests, Torrents, count_down_bt, Registered \cup Ahead, picks)
           Idle   == \A r \in Requests : rpc[r] # "launch" => picks[r] = {}
           Inv    == Counts /\ Idle
<1> USE DEF rows, disk, workers, batch, hand, check, requests, bounds, world, rest,
        At, Goto, Save, Pop
<1>1. Init => Inv
  <2> SUFFICES ASSUME Init PROVE Inv
    OBVIOUS
  <2>1. Registered \cup Ahead = {} /\ \A r \in Requests : picks[r] = {}
    BY DEF Init, Empty, Registered
  <2>2. Held(Requests, Torrents, picks) = {}
    BY <2>1 DEF Held
  <2>3. 0 <= Cardinality(Requests) * count_down_bt
    <3>1. Cardinality(Requests) \in Nat /\ count_down_bt \in Nat
      BY BtAssumption, FS_CardinalityType
    <3>2. QED
      BY <3>1
  <2>4. /\ Cardinality(Registered \cup Ahead) = 0
        /\ Cardinality(Held(Requests, Torrents, picks)) = 0
        /\ \A r \in Requests : Cardinality(picks[r]) = 0
    BY <2>1, <2>2, FS_EmptySet
  <2>5. Counts
    <3> HIDE DEF Ahead
    <3>1. QED
      BY <2>3, <2>4, BtAssumption DEF Shares
  <2>6. QED
    BY <2>1, <2>5
<1>2. TypeOK /\ Inv /\ [Next]_vars => Inv'
  <2> SUFFICES ASSUME TypeOK, Inv, [Next]_vars PROVE Inv'
    OBVIOUS
  <2>1. /\ Registered \cup Ahead \in SUBSET Torrents
        /\ Registered' \cup Ahead' \in SUBSET Torrents
        /\ picks \in [Requests -> SUBSET Torrents]
        /\ IsFiniteSet(Requests) /\ IsFiniteSet(Torrents) /\ count_down_bt \in Nat \ {0}
    BY BtAssumption DEF Registered, TypeOK
  <2>2. ASSUME Registered' \cup Ahead' \subseteq Registered \cup Ahead, UNCHANGED picks
        PROVE  Counts'
    BY <2>1, <2>2, SharesShrink
  <2>3. ASSUME UNCHANGED <<public_dic_bt, picks>>,
               \A r \in Requests : rpc'[r] = "put" => rpc[r] = "put" /\ cur'[r] = cur[r],
               \A r \in Requests : rpc'[r] # "launch" => rpc[r] # "launch" \/ picks[r] = {}
        PROVE  Inv'
    <3>1. Registered' \cup Ahead' \subseteq Registered \cup Ahead
      BY <2>3 DEF Registered
    <3>2. QED
      BY <2>2, <2>3, <3>1
  <2>4. ASSUME NEW r \in Requests, Query(r) PROVE Inv'
    <3>1. PICK S \in SUBSET Torrents :
            /\ S = {} \/ Cardinality(S) + Cardinality(Registered) <= count_down_bt
            /\ picks' = [picks EXCEPT ![r] = S]
      BY <2>4 DEF Query, Slice, Queued
    <3>2. /\ UNCHANGED <<public_dic_bt, cur>> /\ rpc[r] = "sweep" /\ rpc'[r] = "launch"
          /\ \A q \in Requests \ {r} : rpc'[q] = rpc[q]
      BY <2>4 DEF Query, TypeOK
    <3>3. Registered' \cup Ahead' = Registered \cup Ahead /\ Idle'
      BY <2>1, <3>1, <3>2 DEF Registered
    <3>4. CASE S = {}
      BY <2>1, <3>1, <3>3, <3>4, SharesCount
    <3>5. CASE Cardinality(S) + Cardinality(Registered) <= count_down_bt
      <4>1. Registered \in SUBSET Torrents /\ ahead \in [Requests -> SUBSET Torrents]
        BY DEF Registered, TypeOK, Holding
      <4>2. /\ \A q \in Requests : Cardinality(picks[q]) <= count_down_bt
            /\ \A q \in Requests : \/ ahead[q] = {}
                                   \/ picks[q] = {} /\ \E x : ahead[q] = {x}
            /\ ahead[r] = {}
        BY <3>2 DEF Shares
      <4> HIDE DEF ahead
      <4>3. Shares(Requests, Torrents, count_down_bt, Registered \cup Ahead,
                   [picks EXCEPT ![r] = S])
        BY <2>1, <3>5, <4>1, <4>2, SharesCountAhead, ZenonT(60)
      <4>4. QED
        BY <3>1, <3>3, <4>3
    <3>6. QED
      BY <3>1, <3>4, <3>5
  <2>5. ASSUME NEW r \in Requests, NEW b \in Torrents, NEW w \in Workers,
               Launch(r, b, w)
        PROVE Inv'
    <3>1. /\ b \in picks[r] /\ picks' = [picks EXCEPT ![r] = @ \ {b}]
          /\ Registered' \subseteq Registered \cup {b}
          /\ UNCHANGED <<rpc, cur>>
      BY <2>5 DEF Launch, Registered, TypeOK
    <3>2. Registered' \cup Ahead' \subseteq (Registered \cup Ahead) \cup {b} /\ Idle'
      BY <2>1, <3>1
    <3>3. Counts'
      <4> HIDE DEF Ahead
      <4>1. QED
        BY <2>1, <3>1, <3>2, SharesUse
    <3>4. QED
      BY <3>2, <3>3
  <2>6. ASSUME NEW r \in Requests, View(r) PROVE Inv'
    <3>1. /\ UNCHANGED <<public_dic_bt, picks, cur>>
          /\ rpc[r] = "idle" /\ rpc'[r] \in {"next", "add"}
          /\ \A q \in Requests \ {r} : rpc'[q] = rpc[q]
      BY <2>6 DEF View, Begin, addBt, Asks, TypeOK
    <3>2. QED
      BY <2>3, <3>1
  <2>7. ASSUME NEW r \in Requests, Handle(r) PROVE Inv'
    <3>1. ASSUME NEW b \in Torrents, Look(r, b) PROVE Inv'
      <4>1. /\ UNCHANGED <<public_dic_bt, picks>>
            /\ rpc[r] = "next" /\ rpc'[r] # "launch" /\ cur'[r] = b
            /\ rpc'[r] = "put" => b \in Registered
            /\ \A q \in Requests \ {r} : rpc'[q] = rpc[q] /\ cur'[q] = cur[q]
        BY <3>1 DEF Look, TypeOK, Registered
      <4>2. Registered' \cup Ahead' \subseteq Registered \cup Ahead
        BY <4>1 DEF Registered
      <4>3. QED
        BY <2>2, <4>1, <4>2
    <3>2. CASE PutBack(r)
      <4>1. /\ Registered' \subseteq Registered \cup {cur[r]} /\ UNCHANGED <<picks, cur>>
            /\ rpc[r] = "put" /\ rpc'[r] = "kill"
            /\ \A q \in Requests \ {r} : rpc'[q] = rpc[q]
        BY <3>2 DEF PutBack, TypeOK, Registered
      <4>2. Registered' \cup Ahead' \subseteq Registered \cup Ahead
        <5>1. Ahead' \subseteq Ahead /\ (cur[r] \in Torrents => cur[r] \in Ahead)
          BY <4>1
        <5>2. Registered' \subseteq Torrents
          BY DEF Registered
        <5>3. cur[r] \in Torrents
          BY <4>1 DEF TypeOK, Holding
        <5>4. QED
          BY <4>1, <5>1, <5>3
      <4>3. QED
        BY <2>2, <4>1, <4>2
    <3>3. CASE Flag(r) \/ DropEntry(r) \/ SweepPop(r)
      <4>1. /\ Registered' \subseteq Registered /\ UNCHANGED <<picks, cur>>
            /\ rpc'[r] \notin {"put", "launch"} /\ rpc[r] # "launch"
            /\ \A q \in Requests \ {r} : rpc'[q] = rpc[q]
        BY <3>3 DEF Flag, DropEntry, Unregister, SweepPop, TypeOK, Registered
      <4>2. Registered' \cup Ahead' \subseteq Registered \cup Ahead
        BY <4>1
      <4>3. QED
        BY <2>2, <4>1, <4>2
    <3>4. CASE \/ \E b \in Torrents : AddRow(r, b) \/ startBT(r, b)
               \/ AddRefused(r) \/ StartSave(r) \/ FlagFails(r) \/ KillThread(r)
               \/ stopBT(r) \/ DropGivesUp(r) \/ DropFiles(r) \/ deleteBT(r) \/ Reply(r)
               \/ SweepBegin(r) \/ CheckEnd(r)
               \/ \E k \in Torrents : SweepSkip(r, k) \/ SweepStop(r, k)
      <4>1. /\ UNCHANGED <<public_dic_bt, picks>>
            /\ rpc'[r] # "put" /\ (rpc[r] = "launch" => picks[r] = {})
            /\ \A q \in Requests \ {r} : rpc'[q] = rpc[q] /\ cur'[q] = cur[q]
        BY <3>4 DEF AddRow, startBT, AddRefused, StartSave, FlagFails, KillThread, stopBT,
                    DropGivesUp, DropFiles, deleteBT, Reply, SweepBegin, CheckEnd,
                    SweepSkip, SweepStop, TypeOK
      <4>2. QED
        BY <2>3, <4>1
    <3>5. QED
      BY <2>4, <2>5, <2>7, <3>1, <3>2, <3>3, <3>4 DEF Handle
  <2>8. ASSUME NEW w \in Workers, downBTFile(w) \/ Kill(w) \/ Receive(w) PROVE Inv'
    <3>1. UNCHANGED <<public_dic_bt, picks, rpc, cur>>
      BY <2>8 DEF downBTFile, Open, Loop, Track, Sleep, Finish, Kill, Die, Swallow, Receive
    <3>2. QED
      BY <2>3, <3>1
  <2>9. CASE Restart
    <3>1. Registered' \cup Ahead' = {} /\ picks' = [r \in Requests |-> {}]
      BY <2>9 DEF Restart, Empty, Registered
    <3>2. QED
      BY <2>1, <3>1, SharesShrink
  <2>10. CASE UNCHANGED vars
    BY <2>3, <2>10 DEF vars
  <2>11. QED
    BY <2>6, <2>7, <2>8, <2>9, <2>10 DEF Next
<1>3. Inv => SlotBound
  <2> SUFFICES ASSUME Inv PROVE SlotBound
    OBVIOUS
  <2>1. /\ Cardinality(Registered \cup Ahead) \in Nat
        /\ Cardinality(Held(Requests, Torrents, picks)) \in Nat
        /\ Cardinality(Requests) \in Nat /\ Cardinality(Registered) \in Nat
        /\ Cardinality(Registered) <= Cardinality(Registered \cup Ahead)
    <3>1. IsFiniteSet(Registered \cup Ahead)
      BY BtAssumption, FS_Subset DEF Registered
    <3>2. Registered \in SUBSET (Registered \cup Ahead)
      OBVIOUS
    <3>3. QED
      BY <3>1, <3>2, BtAssumption, PartOf, HeldFinite, FS_CardinalityType
  <2>2. QED
    BY <2>1, BtAssumption DEF SlotBound, Shares
<1>4. QED
  BY <1>1, <1>2, <1>3, TypeCorrect, PTL DEF Spec

\* For a user who neither stops nor deletes, status 1 is only given to a torrent
\* whose content is whole, through any restarts and second threads (downBTFile,
\* btdown.py:92-180).  Inductive with two facts: no request is on the way to clearing
\* a flag or deleting content, and a thread leaves its loop only with a seed.
THEOREM PatientDone == Spec => PatientDoneIsWhole
<1> DEFINE Harmless == \A r \in Requests : rpc[r] \notin Looked \cup {"pause", "unregister",
                                                                   "unlink"}
           AllGo    == \A b \in Registered : public_dic_bt[b].go
           Seeded   == \A w \in Workers : main[w] = "done" => IsSeed(bt[w])
           Inv      == Harmless /\ AllGo /\ Seeded /\ DoneIsWhole
<1> USE DEF rows, disk, workers, batch, hand, check, requests, bounds, world, rest,
        At, Goto, Save, Pop, Registered, Looked, DoneIsWhole
<1>1. Init => Inv
  BY DEF Init, Empty, NoRow, Waiting, Done
<1>2. TypeOK /\ Inv /\ Patient /\ [Next]_vars => Inv'
  <2> SUFFICES ASSUME TypeOK, Inv, Patient, [Next]_vars PROVE Inv'
    OBVIOUS
  \* What is whole stays whole, as long as content is not deleted and the row of b
  \* has a name.
  <2>1. ASSUME UNCHANGED content, UNCHANGED name, UNCHANGED <<main, bt>>,
               UNCHANGED public_dic_bt,
               \A b \in Torrents : status'[b] = Done => status[b] = Done,
               \A r \in Requests : rpc'[r] \notin Looked \cup {"pause", "unregister", "unlink"}
        PROVE Inv'
    BY <2>1 DEF IsSeed
  <2>2. ASSUME NEW r \in Requests, View(r) PROVE Inv'
    <3>1. /\ UNCHANGED <<content, name, main, bt, public_dic_bt, status>>
          /\ \A q \in Requests : rpc'[q] \in {rpc[q], "next", "add"}
      BY <2>2 DEF View, Begin, addBt, TypeOK
    <3>2. QED
      BY <2>1, <3>1
  <2>3. ASSUME NEW r \in Requests, Handle(r) PROVE Inv'
    <3>1. ASSUME NEW b \in Torrents, AddRow(r, b) PROVE Inv'
      <4>1. /\ name[b] = NoName /\ \A c \in Torrents \ {b} : name'[c] = name[c]
            /\ status' = [status EXCEPT ![b] = Loading]
            /\ UNCHANGED <<content, public_dic_bt, main, bt>>
            /\ \A q \in Requests : rpc'[q] \in {rpc[q], "next"}
        BY <3>1 DEF AddRow, TypeOK
      <4>2. Harmless' /\ AllGo'
        BY <4>1
      <4>3. \A c \in Torrents \ {b} : IsSeed(c)' = IsSeed(c)
        BY <4>1 DEF IsSeed
      <4>4. Seeded'
        <5>1. \A w \in Workers : main[w] = "done" => bt[w] \in Torrents \ {b}
          BY <4>1, BtAssumption DEF TypeOK, Live
        <5>2. QED
          BY <4>1, <4>3, <5>1
      <4>5. DoneIsWhole'
        BY <4>1, <4>3 DEF TypeOK, Loading, Done
      <4>6. QED
        BY <4>2, <4>4, <4>5
    <3>2. ASSUME NEW b \in Torrents, startBT(r, b) PROVE Inv'
      <4>1. /\ UNCHANGED <<content, name, main, bt, public_dic_bt, status>>
            /\ \A q \in Requests : rpc'[q] \in {rpc[q], "check", "wait"}
        BY <3>2 DEF startBT, TypeOK
      <4>2. QED
        BY <2>1, <4>1
    <3>3. ASSUME NEW b \in Torrents PROVE ~Look(r, b)
      BY DEF Look, Patient
    <3>4. CASE StartSave(r)
      <4>1. /\ UNCHANGED <<content, name, main, bt, public_dic_bt>>
            /\ status' = [status EXCEPT ![cur[r]] = Waiting]
            /\ \A q \in Requests : rpc'[q] \in {rpc[q], "check"}
        BY <3>4 DEF StartSave, TypeOK
      <4>2. \A b \in Torrents : status'[b] = Done => status[b] = Done
        BY <4>1 DEF TypeOK, Waiting, Done
      <4>3. QED
        BY <2>1, <4>1, <4>2
    <3>5. /\ ~Flag(r) /\ ~FlagFails(r) /\ ~PutBack(r) /\ ~KillThread(r) /\ ~stopBT(r)
          /\ ~DropEntry(r) /\ ~DropGivesUp(r) /\ ~DropFiles(r)
      BY DEF Flag, FlagFails, PutBack, KillThread, stopBT, DropEntry, DropGivesUp,
             DropFiles
    <3>6. CASE deleteBT(r)
      <4>1. /\ UNCHANGED <<content, name, main, bt, public_dic_bt>>
            /\ status' = [status EXCEPT ![cur[r]] = NoRow]
            /\ \A q \in Requests : rpc'[q] \in {rpc[q], "check"}
        BY <3>6 DEF deleteBT, TypeOK
      <4>2. \A b \in Torrents : status'[b] = Done => status[b] = Done
        BY <4>1 DEF TypeOK, NoRow, Done
      <4>3. QED
        BY <2>1, <4>1, <4>2
    <3>7. CASE AddRefused(r) \/ Reply(r) \/ SweepBegin(r) \/ Query(r) \/ CheckEnd(r)
      <4>1. /\ UNCHANGED <<content, name, main, bt, public_dic_bt, status>>
            /\ \A q \in Requests : rpc'[q] \in {rpc[q], "idle", "sweep", "launch", "next"}
        BY <3>7 DEF AddRefused, Reply, SweepBegin, Query, CheckEnd, TypeOK
      <4>2. QED
        BY <2>1, <4>1
    <3>8. ASSUME NEW k \in Torrents, SweepSkip(r, k) \/ SweepStop(r, k) PROVE Inv'
      <4>1. /\ UNCHANGED <<content, name, main, bt, public_dic_bt, status>>
            /\ \A q \in Requests : rpc'[q] \in {rpc[q], "pop"}
        BY <3>8 DEF SweepSkip, SweepStop, TypeOK
      <4>2. QED
        BY <2>1, <4>1
    <3>9. CASE SweepPop(r)
      <4>1. /\ UNCHANGED <<content, name, main, bt, status>>
            /\ \A q \in Requests : rpc'[q] \in {rpc[q], "sweep"}
            /\ \A b \in Torrents : public_dic_bt'[b] \in {public_dic_bt[b], NoEntry}
        BY <3>9 DEF SweepPop, TypeOK
      <4>2. QED
        BY <4>1 DEF IsSeed
    <3>10. ASSUME NEW b \in Torrents, NEW w \in Workers, Launch(r, b, w) PROVE Inv'
      <4>1. /\ UNCHANGED <<content, name, status, rpc>>
            /\ public_dic_bt' = [public_dic_bt EXCEPT ![b] = [thread |-> w, go |-> TRUE]]
            /\ main'[w] = "open"
            /\ \A v \in Workers \ {w} : main'[v] = main[v] /\ bt'[v] = bt[v]
        BY <3>10 DEF Launch, TypeOK
      <4>2. AllGo'
        BY <4>1 DEF TypeOK
      <4>3. QED
        BY <4>1, <4>2 DEF IsSeed
    <3>11. QED
      BY <2>3, <3>1, <3>2, <3>3, <3>4, <3>5, <3>6, <3>7, <3>8, <3>9, <3>10 DEF Handle
  <2>4. ASSUME NEW w \in Workers, downBTFile(w) \/ Kill(w) \/ Receive(w) PROVE Inv'
    <3>1. /\ UNCHANGED <<name, public_dic_bt, rpc, bt>>
          /\ \A v \in Workers \ {w} : main'[v] = main[v]
      BY <2>4 DEF downBTFile, Open, Loop, Track, Sleep, Finish, Kill, Die, Swallow,
                  Receive, Step, TypeOK
    <3>2. \A b \in Torrents : name[b] \in Names /\ IsSeed(b) => IsSeed(b)'
      <4>1. CASE Receive(w)
        BY <4>1 DEF Receive, IsSeed, TypeOK
      <4>2. CASE ~Receive(w)
        <5>1. UNCHANGED content
          BY <2>4, <4>2 DEF downBTFile, Open, Loop, Track, Sleep, Finish, Kill, Die,
                            Swallow
        <5>2. QED
          BY <3>1, <5>1 DEF IsSeed
      <4>3. QED
        BY <4>1, <4>2
    <3>3. \A v \in Workers : main[v] # "ended" => bt[v] \in Torrents /\ name[bt[v]] \in Names
      BY DEF TypeOK, Live
    <3>4. main'[w] = "done" =>
            bt[w] \in Torrents /\ name[bt[w]] \in Names /\ IsSeed(bt[w])
      <4>1. CASE Loop(w)
        <5>1. bt[w] \in Torrents /\ name[bt[w]] \in Names
          BY <3>3, <4>1 DEF Loop
        <5>2. bt[w] \in Registered => public_dic_bt[bt[w]].go
          OBVIOUS
        <5>3. QED
          BY <4>1, <5>1, <5>2 DEF Loop, Step, Turn, TypeOK
      <4>2. CASE Open(w) \/ Track(w) \/ Sleep(w) \/ Finish(w) \/ Kill(w)
        BY <4>2 DEF Open, Track, Sleep, Finish, Kill, Die, Swallow, Step, TypeOK
      <4>3. CASE Receive(w)
        BY <3>3, <4>3 DEF Receive
      <4>4. QED
        BY <2>4, <4>1, <4>2, <4>3 DEF downBTFile
    <3>5. \A b \in Torrents : status'[b] = Done => name[b] \in Names /\ IsSeed(b)
      <4>1. \A b \in Torrents : status[b] = Done => name[b] \in Names
        BY DEF TypeOK, Done, NoRow
      <4>2. CASE Finish(w)
        BY <3>3, <4>1, <4>2 DEF Finish, Step, TypeOK
      <4>3. CASE Track(w)
        BY <4>1, <4>3 DEF Track, Loading, Done, TypeOK
      <4>4. CASE ~Finish(w) /\ ~Track(w)
        BY <2>4, <4>1, <4>4 DEF downBTFile, Open, Loop, Sleep, Kill, Die, Swallow, Receive
      <4>5. QED
        BY <4>2, <4>3, <4>4
    <3>6. \A v \in Workers : main'[v] = "done" =>
             bt[v] \in Torrents /\ name[bt[v]] \in Names /\ IsSeed(bt[v])
      BY <3>1, <3>3, <3>4
    <3>7. QED
      BY <3>1, <3>2, <3>5, <3>6
  <2>5. CASE Restart
    BY <2>5 DEF Restart, Empty, IsSeed
  <2>6. CASE UNCHANGED vars
    BY <2>6 DEF vars, IsSeed
  <2>7. QED
    BY <2>2, <2>3, <2>4, <2>5, <2>6 DEF Next
<1>3. QED
  BY <1>1, <1>2, TypeCorrect, PTL DEF Spec, PatientDoneIsWhole

=============================================================================
