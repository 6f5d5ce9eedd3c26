--------------------------- MODULE MainDownProofs ---------------------------
(* What TLAPS proves of MainDown, for every value of the constants. *)
EXTENDS MainDown, Counting

LEMMA SceneFacts ==
  ASSUME scene \in Scenes
  PROVE  /\ scene.name \in [Files -> Names] /\ scene.size \in Nat \ {0}
         /\ scene.first \subseteq {NoRow, Active, Paused}
         /\ scene.calm => "drop" \notin scene.asks
BY DownAssumption DEF NoRow, Active, Paused

\* What a write or a close makes of an output is again the content of one.
LEMMA WrittenContent ==
  ASSUME NEW o \in Content, NEW f \in Files,
         NEW is \in {"none", "empty", "buffered", "whole", "damaged"}
  PROVE  Written(o, f, is) \in Content /\ Closed(o, f) \in Content
<1>1. ASSUME NEW s \in {"none", "empty", "buffered", "whole", "damaged"}
      PROVE  Written(o, f, s) \in Content
  BY <1>1 DEF Written, Content, Mixed
<1>2. CASE o.is = "buffered"
  BY <1>1, <1>2 DEF Closed
<1>3. CASE o.is = "empty"
  BY <1>1, <1>3 DEF Closed
<1>4. CASE o.is \notin {"buffered", "empty"}
  <2>1. o.is \in {"none", "empty", "buffered", "whole", "damaged"}
    BY DEF Content
  <2>2. QED
    BY <1>1, <1>4, <2>1 DEF Closed
<1>5. QED
  BY <1>1, <1>2, <1>3, <1>4

LEMMA WrittenStays ==
  ASSUME NEW o \in Content, NEW f \in Files,
         NEW is \in {"empty", "buffered", "whole", "damaged"}, o.is # "none"
  PROVE  Written(o, f, is).is # "none" /\ Closed(o, f).is # "none"
<1>1. ASSUME NEW s, s # "none" PROVE Written(o, f, s).is # "none"
  BY <1>1 DEF Written, Mixed
<1>2. CASE o.is = "buffered"
  BY <1>1, <1>2 DEF Closed
<1>3. CASE o.is = "empty"
  BY <1>1, <1>3 DEF Closed
<1>4. CASE o.is \notin {"buffered", "empty"}
  BY <1>1, <1>4 DEF Closed
<1>5. QED
  BY <1>1, <1>2, <1>3, <1>4

\* The state keeps its shape: in particular a handler in the middle of its work
\* always has a row at hand, and a live thread always has the row it works for
\* (main_down.py, every function that assigns).
THEOREM TypeCorrect == Spec => []TypeOK
<1>1. Init => TypeOK
  <2> SUFFICES ASSUME Init PROVE TypeOK
    OBVIOUS
  <2>1. status \in [Files -> {NoRow, Done, Active, Paused}]
    BY SceneFacts DEF Init
  <2>2. output \in [Names -> Content]
    BY DEF Init, NoOutput, Content
  <2>3. QED
    BY <2>1, <2>2 DEF Init, Empty, TypeOK, Holding, NoRow, MainLive, FetchLive
<1>2. TypeOK /\ [Next]_vars => TypeOK'
  <2> SUFFICES ASSUME TypeOK, [Next]_vars PROVE TypeOK'
    OBVIOUS
  <2> USE DEF part, disk, rows, job, workers, batch, hand, check, requests, bounds, world, rest,
          At, Goto, Save, Pop, FetchStep, Step
  <2>1. ASSUME NEW w \in Workers, MainLive(w),
               output' = [output EXCEPT ![Name(file[w])] = Closed(@, file[w])]
        PROVE  output' \in [Names -> Content]
    <3>1. file[w] \in Files /\ Name(file[w]) \in Names
      BY <2>1, SceneFacts DEF Name, TypeOK
    <3>2. Closed(output[Name(file[w])], file[w]) \in Content
      BY <3>1, WrittenContent DEF TypeOK
    <3>3. QED
      BY <2>1, <3>2 DEF TypeOK
  <2>2. ASSUME NEW r \in Requests, View(r) PROVE TypeOK'
    <3>1. ASSUME NEW o \in DOMAIN Accepts, NEW ids \in Batches, Begin(r, o, ids)
          PROVE TypeOK'
      <4>1. o \in {"start", "stop", "drop"}
        BY DEF Accepts
      <4>2. {f \in ids : status[f] \in Accepts[o]} \subseteq Files
        BY DEF Batches
      <4>3. QED
        BY <3>1, <4>1, <4>2 DEF Begin, TypeOK, Holding, MainLive, FetchLive
    <3>2. ASSUME NEW f \in Files, adddownload(r, f) PROVE TypeOK'
      BY <3>2 DEF adddownload, TypeOK, Holding, MainLive, FetchLive, Active
    <3>3. QED
      BY <2>2, <3>1, <3>2 DEF View
  <2>3. ASSUME NEW r \in Requests, Handle(r) PROVE TypeOK'
    <3>1. ASSUME NEW f \in Files, start_Down(r, f) PROVE TypeOK'
      BY <3>1 DEF start_Down, TypeOK, Holding, MainLive, FetchLive, Active
    <3>2. ASSUME NEW f \in Files, Look(r, f) PROVE TypeOK'
      <4>1. isGo(f) => public_dic[f].thread \in Workers
        <5>1. isGo(f) => public_dic[f] \in Entry
          BY DEF isGo, Registered, TypeOK
        <5>2. QED
          BY <5>1 DEF Entry
      <4>2. QED
        BY <3>2, <4>1, SMTT(30) DEF Look, TypeOK, Holding, MainLive, FetchLive
    <3>3. CASE Flag(r)
      <4>1. cur[r] \in Files /\ public_dic[cur[r]] \in Entry
        BY <3>3 DEF Flag, Registered, TypeOK
      <4>2. [public_dic[cur[r]] EXCEPT !.go = FALSE] \in Entry
        BY <4>1 DEF Entry
      <4>3. public_dic' \in [Files -> Entry \cup {NoEntry}]
        BY <3>3, <4>2 DEF Flag, TypeOK
      <4>4. QED
        BY <3>3, <4>3 DEF Flag, TypeOK, Holding, MainLive, FetchLive
    <3>4. CASE FlagFails(r)
      BY <3>4, SMTT(30) DEF FlagFails, TypeOK, Holding, MainLive, FetchLive
    <3>5. CASE KillThread(r)
      <4>1. killed' \in SUBSET {w \in Workers : MainLive(w)'}
        BY <3>5 DEF KillThread, stop_thread, MainLive, TypeOK
      <4>2. QED
        BY <3>5, <4>1 DEF KillThread, TypeOK, Holding, MainLive, FetchLive
    <3>6. CASE stopDown(r)
      BY <3>6 DEF stopDown, TypeOK, Holding, MainLive, FetchLive, Paused
    <3>7. CASE dropFiles(r)
      BY <3>7 DEF dropFiles, NoOutput, Content, TypeOK, Holding, MainLive, FetchLive
    <3>8. CASE dropDown(r)
      BY <3>8 DEF dropDown, TypeOK, Holding, MainLive, FetchLive, NoRow
    <3>9. CASE Reply(r)
      BY <3>9 DEF Reply, TypeOK, Holding, MainLive, FetchLive
    <3>10. CASE SweepBegin(r)
      BY <3>10 DEF SweepBegin, Registered, TypeOK, Holding, MainLive, FetchLive
    <3>11. ASSUME NEW k \in Files, SweepSkip(r, k) PROVE TypeOK'
      BY <3>11 DEF SweepSkip, TypeOK, Holding, MainLive, FetchLive
    <3>12. ASSUME NEW k \in Files, SweepStop(r, k) PROVE TypeOK'
      <4>1. killed' \in SUBSET {w \in Workers : MainLive(w)'}
        BY <3>12 DEF SweepStop, Registered, Entry, stop_thread, MainLive, TypeOK
      <4>2. QED
        BY <3>12, <4>1 DEF SweepStop, TypeOK, Holding, MainLive, FetchLive
    <3>13. CASE SweepPop(r)
      BY <3>13 DEF SweepPop, TypeOK, Holding, MainLive, FetchLive
    <3>14. CASE Query(r)
      BY <3>14 DEF Query, TypeOK, Holding, MainLive, FetchLive
    <3>15. ASSUME NEW f \in Files, NEW w \in Workers, Launch(r, f, w)
           PROVE TypeOK'
      BY <3>15 DEF Launch, Entry, Reusable, TypeOK, Holding, MainLive, FetchLive
    <3>16. CASE CheckEnd(r)
      BY <3>16 DEF CheckEnd, TypeOK, Holding, MainLive, FetchLive
    <3>17. QED
      BY <2>3, <3>1, <3>2, <3>6, <3>7, <3>8, <3>9, <3>10, <3>11, <3>12, <3>13,
         <3>14, <3>15, <3>16, <3>3, <3>4, <3>5 DEF Handle
  <2>4. ASSUME NEW w \in Workers, Fetch(w) PROVE TypeOK'
    <3>1. CASE FetchOpen(w)
      BY <3>1 DEF FetchOpen, startpoint, TypeOK, Holding, MainLive, FetchLive
    <3>2. CASE FetchRead(w)
      BY <3>2 DEF FetchRead, TypeOK, Holding, MainLive, FetchLive
    <3>3. CASE FetchWrite(w)
      BY <3>3 DEF FetchWrite, TypeOK, Holding, MainLive, FetchLive
    <3>4. CASE FetchEnd(w)
      BY <3>4 DEF FetchEnd, TypeOK, Holding, MainLive, FetchLive
    <3>5. QED
      BY <2>4, <3>1, <3>2, <3>3, <3>4 DEF Fetch
  <2>5. ASSUME NEW w \in Workers, startDown(w) PROVE TypeOK'
    <3>1. CASE Spawn(w)
      BY <3>1 DEF Spawn, TypeOK, Holding, MainLive, FetchLive
    <3>2. CASE Poll(w)
      BY <3>2 DEF Poll, TypeOK, Holding, MainLive, FetchLive
    <3>3. CASE Tick(w)
      BY <3>3 DEF Tick, TypeOK, Holding, MainLive, FetchLive, Active
    <3>4. CASE OpenOutput(w)
      <4>1. [is |-> "empty", of |-> file[w]] \in Content
        BY <3>4 DEF OpenOutput, Content, TypeOK, MainLive
      <4>2. QED
        BY <3>4, <4>1 DEF OpenOutput, TypeOK, Holding, MainLive, FetchLive
    <3>5. CASE CopyRefused(w)
      BY <3>5 DEF CopyRefused, TypeOK, Holding, MainLive, FetchLive
    <3>6. CASE Copy(w)
      <4> DEFINE n == Name(file[w])
                 is == IF partOk[file[w]] /\ partLen[file[w]] = scene.size
                       THEN "buffered" ELSE "damaged"
      <4>1. file[w] \in Files /\ n \in Names
        BY <3>6, SceneFacts DEF Copy, Name, TypeOK, MainLive
      <4>2. Written(output[n], file[w], is) \in Content
        BY <4>1, WrittenContent DEF TypeOK
      <4>3. output' = [output EXCEPT ![n] = Written(output[n], file[w], is)]
        BY <3>6 DEF Copy
      <4>4. output' \in [Names -> Content]
        BY <4>2, <4>3 DEF TypeOK
      <4>5. QED
        BY <3>6, <4>4 DEF Copy, TypeOK, Holding, MainLive, FetchLive
    <3>7. CASE Finish(w)
      BY <3>7 DEF Finish, TypeOK, Holding, MainLive, FetchLive, Done
    <3>8. CASE Close(w)
      <4>1. output' \in [Names -> Content]
        BY <2>1, <3>8 DEF Close, MainLive
      <4>2. QED
        BY <3>8, <4>1 DEF Close, TypeOK, Holding, MainLive, FetchLive
    <3>9. CASE Leave(w)
      BY <3>9 DEF Leave, TypeOK, Holding, MainLive, FetchLive
    <3>10. CASE PopOwn(w)
      BY <3>10 DEF PopOwn, TypeOK, Holding, MainLive, FetchLive
    <3>11. CASE Index(w)
      BY <3>11 DEF Index, TypeOK, Holding, MainLive, FetchLive
    <3>12. QED
      BY <2>5, <3>1, <3>2, <3>3, <3>4, <3>5, <3>6, <3>7, <3>8, <3>9, <3>10, <3>11
         DEF startDown
  <2>6. ASSUME NEW w \in Workers, Kill(w) PROVE TypeOK'
    <3>1. CASE Die(w)
      <4>1. MainLive(w)
        BY <3>1 DEF Die, TypeOK
      <4>2. output' \in [Names -> Content]
        BY <2>1, <3>1, <4>1 DEF Die, TypeOK
      <4>3. QED
        BY <3>1, <4>2 DEF Die, TypeOK, Holding, MainLive, FetchLive
    <3>2. CASE Swallow(w)
      BY <3>2 DEF Swallow, TypeOK, Holding, MainLive, FetchLive
    <3>3. QED
      BY <2>6, <3>1, <3>2 DEF Kill
  <2>7. CASE Restart
    <3>1. ASSUME NEW n \in Names PROVE [output[n] EXCEPT !.is = "damaged"] \in Content
      BY DEF Content, TypeOK
    <3>2. output' \in [Names -> Content]
      BY <2>7, <3>1 DEF Restart, TypeOK
    <3>3. QED
      BY <2>7, <3>2 DEF Restart, Empty, TypeOK, Holding, MainLive, FetchLive
  <2>8. CASE UNCHANGED vars
    BY <2>8 DEF vars, TypeOK, Holding, MainLive, FetchLive
  <2>9. QED
    BY <2>2, <2>3, <2>4, <2>5, <2>6, <2>7, <2>8 DEF Next
<1>3. QED
  BY <1>1, <1>2, PTL DEF Spec

\* A stopped or deleted download does not keep its slot: whenever an entry of
\* public_dic has its flag off, a request is on its way to the sweep that pops it
\* (stopDown, dropDown and check_dic, main_down.py:13-130).  The invariant is
\* inductive with TypeOK: the request that clears the flag goes on to its own
\* sweep, whose keys hold every entry registered when it begins.
THEOREM StoppedSwept == Spec => []StoppedIsSwept
<1>1. Init => StoppedIsSwept
  BY DEF Init, Empty, StoppedIsSwept, Registered
<1>2. TypeOK /\ StoppedIsSwept /\ [Next]_vars => StoppedIsSwept'
  <2> SUFFICES ASSUME TypeOK, StoppedIsSwept, [Next]_vars,
                      NEW f \in Registered', ~public_dic'[f].go
               PROVE \E r \in Requests : WillSweep(r, f)'
    BY DEF StoppedIsSwept
  <2> f \in Files
    BY DEF Registered
  <2> USE DEF part, disk, rows, job, workers, batch, hand, check, requests, bounds, world, rest,
          At, Goto, Save, Pop, FetchStep, Step, Registered
  <2>1. ASSUME UNCHANGED <<public_dic, rpc, keys>>
        PROVE \E r \in Requests : WillSweep(r, f)'
    BY <2>1 DEF StoppedIsSwept, WillSweep
  <2>2. ASSUME NEW q \in Requests, View(q)
        PROVE \E r \in Requests : WillSweep(r, f)'
    <3>1. rpc[q] = "idle" /\ UNCHANGED <<public_dic, keys>>
          /\ \A r \in Requests \ {q} : rpc'[r] = rpc[r]
      BY <2>2 DEF View, Begin, adddownload, Asks, TypeOK
    <3>2. PICK r \in Requests : WillSweep(r, f)
      BY <3>1 DEF StoppedIsSwept
    <3>3. r # q
      BY <3>1, <3>2 DEF WillSweep
    <3>4. QED
      BY <3>1, <3>2, <3>3 DEF WillSweep
  <2>3. ASSUME NEW q \in Requests, Handle(q)
        PROVE \E r \in Requests : WillSweep(r, f)'
    <3>1. CASE Flag(q)
      <4>1. cur[q] \in Files
        BY <3>1 DEF Flag
      <4>2. CASE f = cur[q]
        <5>1. WillSweep(q, f)'
          BY <3>1 DEF Flag, WillSweep, TypeOK
        <5>2. QED
          BY <5>1
      <4>3. CASE f # cur[q]
        <5>1. public_dic'[f] = public_dic[f]
          BY <3>1, <4>3 DEF Flag, TypeOK
        <5>2. PICK r \in Requests : WillSweep(r, f)
          BY <5>1 DEF StoppedIsSwept
        <5>3. r # q
          BY <3>1, <5>2 DEF Flag, WillSweep
        <5>4. WillSweep(r, f)'
          BY <3>1, <5>2, <5>3 DEF Flag, WillSweep, TypeOK
        <5>5. QED
          BY <5>4
      <4>4. QED
        BY <4>2, <4>3
    <3>2. ASSUME UNCHANGED public_dic,
                 WillSweep(q, f) => WillSweep(q, f)',
                 \A r \in Requests \ {q} : rpc'[r] = rpc[r] /\ keys'[r] = keys[r]
          PROVE \E r \in Requests : WillSweep(r, f)'
      <4>1. PICK r \in Requests : WillSweep(r, f)
        BY <3>2 DEF StoppedIsSwept
      <4>2. WillSweep(r, f)'
        BY <3>2, <4>1 DEF WillSweep
      <4>3. QED
        BY <4>2
    <3>3. CASE \/ \E g \in Files : start_Down(q, g) \/ Look(q, g)
               \/ FlagFails(q) \/ KillThread(q)
               \/ stopDown(q) \/ dropFiles(q) \/ dropDown(q) \/ Reply(q)
               \/ SweepBegin(q) \/ Query(q) \/ CheckEnd(q)
      <4>1. /\ UNCHANGED public_dic
            /\ \A r \in Requests \ {q} : rpc'[r] = rpc[r] /\ keys'[r] = keys[r]
        BY <3>3 DEF start_Down, Look, FlagFails, KillThread, stopDown, dropFiles, dropDown, Reply, SweepBegin,
                    Query, CheckEnd, TypeOK
      <4>2. WillSweep(q, f) => WillSweep(q, f)'
        BY <3>3 DEF start_Down, Look, FlagFails, KillThread, stopDown, dropFiles, dropDown, Reply, SweepBegin,
                    Query, CheckEnd, WillSweep, TypeOK
      <4>3. QED
        BY <3>2, <4>1, <4>2
    <3>4. ASSUME NEW k \in Files, SweepSkip(q, k) \/ SweepStop(q, k)
          PROVE \E r \in Requests : WillSweep(r, f)'
      <4>1. /\ UNCHANGED public_dic
            /\ \A r \in Requests \ {q} : rpc'[r] = rpc[r] /\ keys'[r] = keys[r]
        BY <3>4 DEF SweepSkip, SweepStop, TypeOK
      <4>2. WillSweep(q, f) => WillSweep(q, f)'
        BY <3>4, <4>1 DEF SweepSkip, SweepStop, WillSweep, TypeOK
      <4>3. QED
        BY <3>2, <4>1, <4>2
    <3>5. CASE SweepPop(q)
      <4>1. cur[q] \in Files
        BY <3>5 DEF SweepPop, Holding, TypeOK
      <4>2. f # cur[q] /\ public_dic'[f] = public_dic[f]
        BY <3>5, <4>1 DEF SweepPop, TypeOK
      <4>3. PICK r \in Requests : WillSweep(r, f)
        BY <4>2 DEF StoppedIsSwept
      <4>4. WillSweep(r, f)'
        BY <3>5, <4>2, <4>3 DEF SweepPop, WillSweep, TypeOK
      <4>5. QED
        BY <4>4
    <3>6. ASSUME NEW g \in Files, NEW w \in Workers, Launch(q, g, w)
          PROVE \E r \in Requests : WillSweep(r, f)'
      <4>1. f # g /\ public_dic'[f] = public_dic[f] /\ UNCHANGED <<rpc, keys>>
        BY <3>6 DEF Launch, TypeOK
      <4>2. QED
        BY <4>1 DEF StoppedIsSwept, WillSweep
    <3>7. QED
      BY <2>3, <3>1, <3>3, <3>4, <3>5, <3>6 DEF Handle
  <2>4. ASSUME NEW w \in Workers, Fetch(w)
        PROVE \E r \in Requests : WillSweep(r, f)'
    BY <2>1, <2>4 DEF Fetch, FetchOpen, FetchRead, FetchWrite, FetchEnd
  <2>5. ASSUME NEW w \in Workers, startDown(w)
        PROVE \E r \in Requests : WillSweep(r, f)'
    <3>1. CASE PopOwn(w)
      <4>1. public_dic'[f] = public_dic[f] /\ UNCHANGED <<rpc, keys>>
        BY <3>1 DEF PopOwn, TypeOK, MainLive
      <4>2. QED
        BY <4>1 DEF StoppedIsSwept, WillSweep
    <3>2. CASE ~PopOwn(w)
      BY <2>1, <2>5, <3>2 DEF startDown, Spawn, Poll, Tick, OpenOutput,
                              CopyRefused, Copy, Finish, Close, Leave,
                              Index
    <3>3. QED
      BY <3>1, <3>2
  <2>6. ASSUME NEW w \in Workers, Kill(w)
        PROVE \E r \in Requests : WillSweep(r, f)'
    BY <2>1, <2>6 DEF Kill, Die, Swallow
  <2>7. CASE Restart
    BY <2>7 DEF Restart, Empty
  <2>8. CASE UNCHANGED vars
    BY <2>1, <2>8 DEF vars
  <2>9. QED
    BY <2>2, <2>3, <2>4, <2>5, <2>6, <2>7, <2>8 DEF Next
<1>3. QED
  BY <1>1, <1>2, TypeCorrect, PTL DEF Spec

\* However many requests run check_dic at the same time, the registry holds at most
\* count_down entries for each request thread (main_down.py:33-53).  Every thread
\* computes need_dow before the first of its launches, from a registry that the
\* others go on filling: the invariant counts, besides the entries, the rows each
\* of them has still to launch.
THEOREM SlotsHeld == Spec => []SlotBound
<1> DEFINE Inv == Shares(Requests, Files, count_down, Registered, picks)
<1> USE DEF part, disk, rows, job, workers, batch, hand, check, requests, bounds, world, rest,
          At, Goto, Save, Pop, FetchStep, Step
<1>1. Init => Inv
  <2> SUFFICES ASSUME Init PROVE Inv
    OBVIOUS
  <2>1. Registered = {} /\ \A r \in Requests : picks[r] = {}
    BY DEF Init, Empty, Registered
  <2>2. Held(Requests, Files, picks) = {}
    BY <2>1 DEF Held
  <2>3. 0 <= Cardinality(Requests) * count_down
    <3>1. Cardinality(Requests) \in Nat /\ count_down \in Nat
      BY DownAssumption, FS_CardinalityType
    <3>2. QED
      BY <3>1
  <2>4. /\ Cardinality(Registered) = 0 /\ Cardinality(Held(Requests, Files, picks)) = 0
        /\ \A r \in Requests : Cardinality(picks[r]) = 0
    BY <2>1, <2>2, FS_EmptySet
  <2>5. QED
    BY <2>3, <2>4, DownAssumption DEF Shares
<1>2. TypeOK /\ Inv /\ [Next]_vars => Inv'
  <2> SUFFICES ASSUME TypeOK, Inv, [Next]_vars PROVE Inv'
    OBVIOUS
  <2>1. /\ Registered \in SUBSET Files /\ Registered' \in SUBSET Files
        /\ picks \in [Requests -> SUBSET Files]
        /\ IsFiniteSet(Requests) /\ IsFiniteSet(Files) /\ count_down \in Nat
    BY DownAssumption DEF Registered, TypeOK
  <2>2. ASSUME Registered' \subseteq Registered, UNCHANGED picks PROVE Inv'
    BY <2>1, <2>2, SharesShrink
  <2>3. ASSUME NEW r \in Requests, Query(r) PROVE Inv'
    <3>1. PICK S \in SUBSET Files :
            /\ S = {} \/ Cardinality(S) + Cardinality(Registered) <= count_down
            /\ picks' = [picks EXCEPT ![r] = S]
      BY <2>3 DEF Query, Slice
    <3>2. Registered' = Registered
      BY <2>3 DEF Query, Registered
    <3>3. QED
      BY <2>1, <3>1, <3>2, SharesCount
  <2>4. ASSUME NEW r \in Requests, NEW f \in Files, NEW w \in Workers,
               Launch(r, f, w)
        PROVE Inv'
    <3>1. /\ f \in picks[r] /\ picks' = [picks EXCEPT ![r] = @ \ {f}]
          /\ Registered' \subseteq Registered \cup {f}
      BY <2>4 DEF Launch, Registered, TypeOK
    <3>2. QED
      BY <2>1, <3>1, SharesUse
  <2>5. ASSUME NEW r \in Requests, View(r) PROVE Inv'
    BY <2>2, <2>5 DEF View, Begin, adddownload, Registered
  <2>6. ASSUME NEW r \in Requests, Handle(r) PROVE Inv'
    <3>1. ASSUME NEW f \in Files, start_Down(r, f) \/ Look(r, f) PROVE Inv'
      <4>1. Registered' \subseteq Registered /\ picks' = picks
        BY <3>1 DEF start_Down, Look, Registered, TypeOK
      <4>2. QED
        BY <2>2, <4>1
    <3>2. CASE Flag(r)
      <4>1. Registered' \subseteq Registered /\ picks' = picks
        BY <3>2 DEF Flag, Registered, TypeOK
      <4>2. QED
        BY <2>2, <4>1
    <3>3. CASE \/ FlagFails(r) \/ KillThread(r) \/ stopDown(r) \/ dropFiles(r) \/ dropDown(r) \/ Reply(r)
               \/ SweepBegin(r) \/ CheckEnd(r)
               \/ \E k \in Files : SweepSkip(r, k) \/ SweepStop(r, k)
      BY <2>2, <3>3 DEF FlagFails, KillThread, stopDown, dropFiles, dropDown, Reply, SweepBegin, CheckEnd,
                        SweepSkip, SweepStop, Registered
    <3>4. CASE SweepPop(r)
      <4>1. Registered' \subseteq Registered /\ picks' = picks
        BY <3>4 DEF SweepPop, Registered, TypeOK
      <4>2. QED
        BY <2>2, <4>1
    <3>5. QED
      BY <2>3, <2>4, <2>6, <3>1, <3>3, <3>4, <3>2 DEF Handle
  <2>7. ASSUME NEW w \in Workers, Fetch(w) \/ Kill(w) PROVE Inv'
    BY <2>2, <2>7 DEF Fetch, FetchOpen, FetchRead, FetchWrite, FetchEnd, Kill, Die,
                      Swallow, Registered
  <2>8. ASSUME NEW w \in Workers, startDown(w) PROVE Inv'
    <3>1. CASE PopOwn(w)
      <4>1. Registered' \subseteq Registered /\ picks' = picks
        BY <3>1 DEF PopOwn, Registered, TypeOK
      <4>2. QED
        BY <2>2, <4>1
    <3>2. CASE ~PopOwn(w)
      BY <2>2, <2>8, <3>2 DEF startDown, Spawn, Poll, Tick, OpenOutput, CopyRefused,
                              Copy, Finish, Close, Leave, Index, Registered
    <3>3. QED
      BY <3>1, <3>2
  <2>9. CASE Restart
    <3>1. Registered' = {} /\ picks' = [r \in Requests |-> {}]
      BY <2>9 DEF Restart, Empty, Registered
    <3>2. QED
      BY <2>1, <3>1, SharesShrink
  <2>10. CASE UNCHANGED vars
    BY <2>2, <2>10 DEF vars, Registered
  <2>11. QED
    BY <2>5, <2>6, <2>7, <2>8, <2>9, <2>10 DEF Next
<1>3. Inv => SlotBound
  <2> SUFFICES ASSUME Inv PROVE SlotBound
    OBVIOUS
  <2>1. /\ Cardinality(Registered) \in Nat
        /\ Cardinality(Held(Requests, Files, picks)) \in Nat
        /\ Cardinality(Requests) \in Nat
    BY DownAssumption, PartOf, HeldFinite, FS_CardinalityType DEF Registered
  <2>2. QED
    BY <2>1, DownAssumption DEF SlotBound, Shares
<1>4. QED
  BY <1>1, <1>2, <1>3, TypeCorrect, PTL DEF Spec

-----------------------------------------------------------------------------
(* Resuming: what a calm user may rely on.  A calm user waits until every thread *)
(* has ended, so that one request is at work at a time and, until it launches,   *)
(* no worker.  That one row has one worker also needs requests that name one row *)
(* each: with two of them, the start of the second launches the first again.     *)

LEMMA SceneFixed ==
  [Next]_vars => scene' = scene /\ (restarts' = restarts \/ restarts' = restarts + 1)
<1> SUFFICES ASSUME [Next]_vars
             PROVE  scene' = scene /\ (restarts' = restarts \/ restarts' = restarts + 1)
  OBVIOUS
<1> USE DEF bounds, world, rest
<1>1. ASSUME NEW r \in Requests, View(r) PROVE scene' = scene /\ restarts' = restarts
  BY <1>1 DEF View, Begin, adddownload
<1>2. ASSUME NEW r \in Requests, Handle(r) PROVE UNCHANGED bounds
  <2>1. CASE \/ \E f \in Files : start_Down(r, f) \/ Look(r, f)
             \/ Flag(r) \/ FlagFails(r) \/ KillThread(r) \/ stopDown(r)
             \/ dropFiles(r) \/ dropDown(r) \/ Reply(r)
    BY <2>1 DEF start_Down, Look, Flag, FlagFails, KillThread, stopDown, dropFiles,
                dropDown, Reply
  <2>2. CASE \/ SweepBegin(r) \/ SweepPop(r) \/ Query(r) \/ CheckEnd(r)
             \/ \E k \in Files : SweepSkip(r, k) \/ SweepStop(r, k)
             \/ \E f \in Files, w \in Workers : Launch(r, f, w)
    BY <2>2 DEF SweepBegin, SweepPop, Query, CheckEnd, SweepSkip, SweepStop, Launch
  <2>3. QED
    BY <1>2, <2>1, <2>2 DEF Handle
<1>3. ASSUME NEW w \in Workers, Fetch(w) \/ startDown(w) \/ Kill(w) PROVE UNCHANGED bounds
  BY <1>3 DEF Fetch, FetchOpen, FetchRead, FetchWrite, FetchEnd, startDown, Spawn, Poll,
              Tick, OpenOutput, CopyRefused, Copy, Finish, Close, Leave, PopOwn, Index,
              Kill, Die, Swallow
<1>4. CASE Restart
  BY <1>4 DEF Restart
<1>5. QED
  BY <1>1, <1>2, <1>3, <1>4 DEF Next, vars

\* A request that has still to change a row or to sweep.
Ahead(r) == \/ rpc[r] \in {"flag", "kill", "pause", "check", "sweep", "pop"}
            \/ rpc[r] = "next" /\ todo[r] # {}

OneRequest ==
  /\ \A r \in Requests :
       /\ op[r] # "drop" /\ rpc[r] \notin {"unlink", "delete"}
       /\ rpc[r] \in {"flag", "kill"} => op[r] = "stop"
       /\ ~again[r]
       /\ rpc[r] # "next" => todo[r] = {}
       /\ \A f, g \in todo[r] : f = g
       /\ rpc[r] # "launch" => picks[r] = {}
       /\ Ahead(r) => \A w \in Workers : Reusable(w)
  /\ \A r, q \in Requests : rpc[r] # "idle" /\ rpc[q] # "idle" => r = q
  /\ killed = {}

\* A row has one worker, which has its entry until the output is closed.
OneWorker ==
  \A w \in Workers : ~Reusable(w) =>
    /\ \A v \in Workers : ~Reusable(v) /\ file[v] = file[w] => v = w
    /\ \A r \in Requests : file[w] \notin picks[r]
    /\ main[w] # "index" => isGo(file[w])
    /\ FetchLive(w) => main[w] \in {"poll", "tick"}

\* A Download thread is where the part file ends.
InStep ==
  /\ \A f \in Files : partOk[f] /\ partLen[f] <= scene.size
  /\ \A w \in Workers :
       /\ fetch[w] \in {"read", "write"} => at[w] = partLen[file[w]]
       /\ fetch[w] = "write" => at[w] < scene.size

LEMMA AtMostOne ==
  ASSUME MaxBatch <= 1, NEW ids \in Batches, NEW f \in ids, NEW g \in ids
  PROVE  f = g
<1>1. IsFiniteSet(ids) /\ Cardinality(ids) \in Nat /\ Cardinality(ids) <= 1
  BY PartOf, DownAssumption DEF Batches
<1>2. Cardinality(ids) # 0
  BY <1>1, FS_EmptySet
<1>3. PICK x : ids = {x}
  BY <1>1, <1>2, FS_Singleton
<1>4. QED
  BY <1>3

LEMMA OneRequestStep ==
  ASSUME MaxBatch <= 1, TypeOK, scene.calm, OneRequest, [Next]_vars
  PROVE  OneRequest'
<1> USE DEF part, disk, rows, job, workers, batch, hand, check, requests, bounds, world, rest,
          At, Goto, Save, Pop, FetchStep, Step
<1>1. ASSUME NEW r \in Requests,
             \A q \in Requests \ {r} :
                /\ rpc[q] = "idle" /\ rpc'[q] = rpc[q]
                /\ todo'[q] = todo[q] /\ op'[q] = op[q]
                /\ picks'[q] = picks[q] /\ again'[q] = again[q],
             op'[r] # "drop" /\ rpc'[r] \notin {"unlink", "delete"} /\ ~again'[r],
             rpc'[r] \in {"flag", "kill"} => op'[r] = "stop",
             rpc'[r] # "next" => todo'[r] = {},
             \A f, g \in todo'[r] : f = g,
             rpc'[r] # "launch" => picks'[r] = {},
             Ahead(r)' => \A w \in Workers : Reusable(w)',
             killed' = {}
      PROVE OneRequest'
  BY <1>1 DEF OneRequest, Ahead
<1>2. ASSUME NEW r \in Requests, View(r) PROVE OneRequest'
  <2>1. Quiet /\ rpc[r] = "idle"
    BY <1>2 DEF View, Begin, adddownload, Asks
  <2>2. /\ UNCHANGED <<workers, picks, again>>
        /\ \A q \in Requests \ {r} : /\ rpc[q] = "idle" /\ rpc'[q] = rpc[q]
                                    /\ todo'[q] = todo[q] /\ op'[q] = op[q]
        /\ picks[r] = {} /\ todo[r] = {} /\ op[r] # "drop" /\ ~again[r] /\ killed = {}
    BY <1>2, <2>1, SMTT(40) DEF View, Begin, adddownload, TypeOK, Quiet, OneRequest
  <2>3. \A w \in Workers : Reusable(w)'
    BY <2>1, <2>2 DEF Quiet, Reusable, MainLive, FetchLive
  <2>4. ASSUME NEW o \in DOMAIN Accepts, NEW ids \in Batches, Begin(r, o, ids)
        PROVE OneRequest'
    <3>1. o # "drop" /\ op'[r] = o
      BY <2>4, SceneFacts DEF Begin, TypeOK
    <3>2. \A f, g \in todo'[r] : f = g
      BY <2>4, AtMostOne DEF Begin, TypeOK
    <3>3. rpc'[r] = "next"
      BY <2>4 DEF Begin, TypeOK
    <3>4. QED
      BY <1>1, <2>2, <2>3, <3>1, <3>2, <3>3
  <2>5. ASSUME NEW f \in Files, adddownload(r, f) PROVE OneRequest'
    <3>1. rpc'[r] = "check" /\ UNCHANGED <<todo, op>>
      BY <2>5 DEF adddownload, TypeOK
    <3>2. QED
      BY <1>1, <2>2, <2>3, <3>1
  <2>6. QED
    BY <1>2, <2>4, <2>5 DEF View
<1>3. ASSUME NEW r \in Requests, Handle(r) PROVE OneRequest'
  <2>1. rpc[r] # "idle" /\ \A q \in Requests \ {r} : rpc[q] = "idle"
    <3>1. rpc[r] # "idle"
      BY <1>3 DEF Handle, start_Down, Look, Flag, FlagFails, KillThread, stopDown, dropFiles,
            dropDown, Reply, SweepBegin, SweepSkip, SweepStop, SweepPop, Query, Launch,
            CheckEnd
    <3>2. QED
      BY <3>1 DEF OneRequest
  <2>2. \A q \in Requests \ {r} :
           /\ rpc'[q] = rpc[q] /\ todo'[q] = todo[q] /\ op'[q] = op[q]
           /\ picks'[q] = picks[q] /\ again'[q] = again[q]
    <3>1. ASSUME NEW f \in Files, start_Down(r, f) \/ Look(r, f)
          PROVE  /\ UNCHANGED <<op, picks, again>>
                 /\ \A q \in Requests \ {r} : rpc'[q] = rpc[q] /\ todo'[q] = todo[q]
      BY <3>1 DEF start_Down, Look, TypeOK
    <3>2. CASE Flag(r) \/ FlagFails(r) \/ KillThread(r)
      BY <3>2 DEF Flag, FlagFails, KillThread, TypeOK
    <3>3. CASE stopDown(r) \/ dropFiles(r) \/ dropDown(r) \/ Reply(r)
      BY <3>3 DEF stopDown, dropFiles, dropDown, Reply, TypeOK
    <3>4. CASE \/ SweepBegin(r) \/ \E k \in Files : SweepSkip(r, k) \/ SweepStop(r, k)
               \/ SweepPop(r) \/ CheckEnd(r)
      BY <3>4 DEF SweepBegin, SweepSkip, SweepStop, SweepPop, CheckEnd, TypeOK
    <3>5. CASE \E f \in Files, w \in Workers : Launch(r, f, w)
      BY <3>5 DEF Launch, TypeOK
    <3>6. CASE Query(r)
      <4>1. PICK S : picks' = [picks EXCEPT ![r] = S]
        BY <3>6 DEF Query
      <4>2. UNCHANGED <<op, todo, again>> /\ \A q \in Requests \ {r} : rpc'[q] = rpc[q]
        BY <3>6 DEF Query, TypeOK
      <4>3. QED
        BY <4>1, <4>2 DEF TypeOK
    <3>7. QED
      BY <1>3, <3>1, <3>3, <3>4, <3>5, <3>6, <3>2 DEF Handle
  <2>3. ASSUME /\ op'[r] # "drop" /\ rpc'[r] \notin {"unlink", "delete"} /\ ~again'[r]
               /\ rpc'[r] \in {"flag", "kill"} => op'[r] = "stop"
               /\ rpc'[r] # "next" => todo'[r] = {}
               /\ \A f, g \in todo'[r] : f = g
               /\ rpc'[r] # "launch" => picks'[r] = {}
               /\ Ahead(r)' => \A w \in Workers : Reusable(w)'
               /\ killed' = {}
        PROVE OneRequest'
    BY <1>1, <2>1, <2>2, <2>3
  <2>4. ASSUME NEW f \in Files, start_Down(r, f) \/ Look(r, f) PROVE OneRequest'
    <3>1. Ahead(r) /\ op[r] # "drop" /\ todo[r] \ {f} = {} /\ ~again[r] /\ picks[r] = {}
          /\ \A w \in Workers : Reusable(w)
      BY <2>4 DEF start_Down, Look, OneRequest, Ahead
    <3>2. /\ op' = op /\ again' = again /\ picks' = picks /\ UNCHANGED <<main, fetch, killed>>
          /\ todo'[r] = {} /\ rpc'[r] \in {"check", "flag", "pause"}
          /\ rpc'[r] = "flag" => op[r] = "stop"
      BY <2>4, <3>1 DEF start_Down, Look, TypeOK
    <3>3. QED
      BY <2>3, <3>1, <3>2 DEF OneRequest, Reusable, MainLive, FetchLive
  <2>5. CASE Flag(r) \/ FlagFails(r) \/ KillThread(r)
    <3>1. Ahead(r) /\ op[r] # "drop" /\ todo[r] = {} /\ ~again[r] /\ picks[r] = {}
          /\ \A w \in Workers : Reusable(w)
      BY <2>5 DEF Flag, FlagFails, KillThread, OneRequest, Ahead
    <3>2. /\ op' = op /\ again' = again /\ picks' = picks /\ UNCHANGED <<main, fetch>>
          /\ todo'[r] = {} /\ rpc'[r] \in {"kill", "next", "pause"} /\ op[r] = "stop"
      BY <2>5, <3>1 DEF Flag, FlagFails, KillThread, OneRequest, TypeOK
    <3>3. killed' = {}
      <4>1. CASE KillThread(r)
        <5>1. obj[r] \in Workers /\ ~MainLive(obj[r])
          BY <3>1, <4>1 DEF KillThread, Reusable, TypeOK
        <5>2. QED
          BY <4>1, <5>1 DEF KillThread, stop_thread, OneRequest
      <4>2. CASE Flag(r) \/ FlagFails(r)
        BY <4>2 DEF Flag, FlagFails, OneRequest
      <4>3. QED
        BY <2>5, <4>1, <4>2
    <3>4. QED
      BY <2>3, <3>1, <3>2, <3>3 DEF Reusable, MainLive, FetchLive
  <2>6. CASE stopDown(r) \/ Reply(r) \/ SweepBegin(r) \/ CheckEnd(r)
    <3>1. /\ UNCHANGED <<op, todo, picks, main, fetch, killed>>
          /\ rpc[r] # "next" \/ todo[r] = {}
          /\ rpc[r] # "launch" \/ picks[r] = {}
          /\ ~again'[r] /\ op[r] # "drop" /\ killed = {}
          /\ rpc'[r] # "next" => todo[r] = {}
          /\ rpc'[r] # "launch" => picks[r] = {}
          /\ \A f, g \in todo[r] : f = g
      <4>1. CASE stopDown(r)
        BY <4>1 DEF stopDown, TypeOK, OneRequest
      <4>2. CASE Reply(r)
        BY <4>2 DEF Reply, TypeOK, OneRequest
      <4>3. CASE SweepBegin(r)
        BY <4>3 DEF SweepBegin, TypeOK, OneRequest
      <4>4. CASE CheckEnd(r)
        BY <4>4 DEF CheckEnd, TypeOK, OneRequest
      <4>5. QED
        BY <2>6, <4>1, <4>2, <4>3, <4>4
    <3>2. \/ rpc'[r] \in {"idle", "next"} /\ todo[r] = {}
          \/ rpc'[r] \in {"check", "sweep"} /\ Ahead(r)
      BY <2>6 DEF stopDown, Reply, SweepBegin, CheckEnd, TypeOK, OneRequest, Ahead
    <3>3. Ahead(r)' => \A w \in Workers : Reusable(w)'
      BY <3>1, <3>2 DEF OneRequest, Ahead, Reusable, MainLive, FetchLive
    <3>4. QED
      BY <2>3, <3>1, <3>2, <3>3
  <2>7. ~dropFiles(r) /\ ~dropDown(r)
    BY DEF dropFiles, dropDown, OneRequest
  <2>8. ASSUME NEW k \in Files, SweepSkip(r, k) \/ SweepStop(r, k) PROVE OneRequest'
    <3>1. rpc[r] = "sweep" /\ \A w \in Workers : Reusable(w)
      BY <2>8 DEF SweepSkip, SweepStop, OneRequest, Ahead
    <3>2. /\ UNCHANGED <<op, todo, picks, again, main, fetch>>
          /\ rpc'[r] \in {"sweep", "pop"}
      BY <2>8, <3>1 DEF SweepSkip, SweepStop, TypeOK
    <3>3. killed' = {}
      <4>1. CASE SweepStop(r, k)
        <5>1. public_dic[k] \in Entry
          BY <4>1 DEF SweepStop, Registered, TypeOK
        <5>2. ~MainLive(public_dic[k].thread)
          BY <3>1, <5>1 DEF Entry, Reusable
        <5>3. QED
          BY <4>1, <5>2 DEF SweepStop, stop_thread, OneRequest
      <4>2. CASE SweepSkip(r, k)
        BY <4>2 DEF SweepSkip, OneRequest
      <4>3. QED
        BY <2>8, <4>1, <4>2
    <3>4. QED
      BY <2>3, <3>1, <3>2, <3>3 DEF OneRequest, Reusable, MainLive, FetchLive
  <2>9. CASE SweepPop(r)
    <3>1. /\ UNCHANGED <<op, todo, picks, again, main, fetch, killed>>
          /\ rpc[r] = "pop" /\ rpc'[r] = "sweep"
      BY <2>9 DEF SweepPop, TypeOK
    <3>2. QED
      BY <2>3, <3>1 DEF OneRequest, Ahead, Reusable, MainLive, FetchLive
  <2>10. CASE Query(r)
    <3>1. /\ UNCHANGED <<op, todo, again, main, fetch, killed>>
          /\ rpc[r] = "sweep" /\ rpc'[r] = "launch"
      BY <2>10 DEF Query, TypeOK
    <3>2. QED
      BY <2>3, <3>1 DEF OneRequest, Ahead
  <2>11. ASSUME NEW f \in Files, NEW w \in Workers, Launch(r, f, w) PROVE OneRequest'
    <3>1. /\ UNCHANGED <<op, todo, again, killed, rpc>> /\ rpc[r] = "launch"
      BY <2>11 DEF Launch, TypeOK
    <3>2. QED
      BY <2>3, <3>1 DEF OneRequest, Ahead
  <2>12. QED
    BY <1>3, <2>4, <2>6, <2>7, <2>8, <2>9, <2>10, <2>11, <2>5 DEF Handle
\* While a request is ahead no worker takes a step, so that none comes to life.
<1>4. ASSUME NEW w \in Workers, Fetch(w) \/ startDown(w) \/ Kill(w) PROVE OneRequest'
  <2>1. ~Kill(w)
    BY DEF Kill, Die, Swallow, OneRequest
  <2>2. ~Reusable(w)
    BY <1>4, <2>1 DEF Fetch, FetchOpen, FetchRead, FetchWrite, FetchEnd, startDown, Spawn,
            Poll, Tick, OpenOutput, CopyRefused, Copy, Finish, Close, Leave, PopOwn, Index,
            Reusable,
            MainLive, FetchLive
  <2>3. UNCHANGED requests /\ killed' = {}
    BY <1>4, <2>1 DEF Fetch, FetchOpen, FetchRead, FetchWrite, FetchEnd, startDown, Spawn,
            Poll, Tick, OpenOutput, CopyRefused, Copy, Finish, Close, Leave, PopOwn, Index,
            OneRequest
  <2>4. QED
    BY <2>2, <2>3 DEF OneRequest, Ahead
<1>5. CASE Restart
  BY <1>5 DEF Restart, Empty, OneRequest, Ahead
<1>6. CASE UNCHANGED vars
  BY <1>6 DEF vars, OneRequest, Ahead, Reusable, MainLive, FetchLive
<1>7. QED
  BY <1>2, <1>3, <1>4, <1>5, <1>6 DEF Next

LEMMA OneWorkerStep ==
  ASSUME TypeOK, scene.calm, OneRequest, OneWorker, [Next]_vars
  PROVE  OneWorker'
<1> USE DEF part, disk, rows, job, workers, batch, hand, check, requests, bounds, world, rest,
          At, Goto, Save, Pop, FetchStep, Step, Reusable, MainLive, FetchLive
<1>1. ASSUME UNCHANGED <<main, fetch>>, \A w \in Workers : Reusable(w) PROVE OneWorker'
  BY <1>1 DEF OneWorker
<1>2. ASSUME UNCHANGED <<main, fetch, file, picks, public_dic>> PROVE OneWorker'
  BY <1>2 DEF OneWorker, isGo, Registered
<1>3. ASSUME NEW r \in Requests, View(r) PROVE OneWorker'
  BY <1>2, <1>3 DEF View, Begin, adddownload
<1>4. ASSUME NEW r \in Requests, Handle(r) PROVE OneWorker'
  <2>1. CASE Ahead(r) /\ ~(\E f \in Files, w \in Workers : Launch(r, f, w))
    <3>1. UNCHANGED <<main, fetch>>
      BY <1>4, <2>1 DEF Handle, start_Down, Look, Flag, FlagFails, KillThread, stopDown,
                  dropFiles, dropDown, Reply, SweepBegin, SweepSkip, SweepStop, SweepPop, Query, CheckEnd
    <3>2. QED
      BY <1>1, <2>1, <3>1 DEF OneRequest
  <2>2. CASE ~Ahead(r) /\ ~(\E f \in Files, w \in Workers : Launch(r, f, w))
    <3>1. Reply(r) \/ CheckEnd(r)
      BY <1>4, <2>2 DEF Handle, start_Down, Look, Flag, FlagFails, KillThread,
                  stopDown, dropFiles, dropDown, SweepBegin, SweepSkip, SweepStop, SweepPop, Query, Ahead, OneRequest
    <3>2. QED
      BY <1>2, <3>1 DEF Reply, CheckEnd
  <2>3. ASSUME NEW f \in Files, NEW w \in Workers, Launch(r, f, w) PROVE OneWorker'
    <3>1. /\ rpc[r] = "launch" /\ f \in picks[r] /\ Reusable(w)
          /\ picks'[r] = picks[r] \ {f}
          /\ \A q \in Requests \ {r} : picks'[q] = {}
      BY <2>3 DEF Launch, OneRequest, TypeOK
    <3>2. /\ main'[w] = "spawn" /\ file'[w] = f /\ UNCHANGED fetch
          /\ \A v \in Workers \ {w} : main'[v] = main[v] /\ file'[v] = file[v]
      BY <2>3 DEF Launch, TypeOK
    <3>3. ASSUME NEW v \in Workers \ {w}, ~Reusable(v)'
          PROVE  ~Reusable(v) /\ file[v] # f /\ file[v] \in Files
      BY <3>1, <3>2, <3>3 DEF OneWorker, TypeOK
    <3>4. isGo(f)' /\ \A g \in Files \ {f} : isGo(g) => isGo(g)'
      <4>1. [thread |-> w, go |-> TRUE] # NoEntry
        <5>1. [thread |-> w, go |-> TRUE] \in [thread : Workers, go : BOOLEAN]
          OBVIOUS
        <5>2. QED
          BY <5>1, DownAssumption
      <4>2. public_dic' = [public_dic EXCEPT ![f] = [thread |-> w, go |-> TRUE]]
        BY <2>3 DEF Launch
      <4>3. public_dic'[f] = [thread |-> w, go |-> TRUE]
        BY <4>2 DEF TypeOK
      <4>4. \A g \in Files \ {f} : public_dic'[g] = public_dic[g]
        BY <4>2 DEF TypeOK
      <4>5. isGo(f)'
        BY <4>1, <4>3 DEF isGo, Registered
      <4>6. QED
        BY <4>4, <4>5 DEF isGo, Registered
    <3>5. ASSUME NEW v \in Workers \ {w}, ~Reusable(v)'
          PROVE  /\ \A u \in Workers : ~Reusable(u)' /\ file'[u] = file'[v] => u = v
                 /\ \A q \in Requests : file'[v] \notin picks'[q]
                 /\ main'[v] # "index" => isGo(file[v])'
                 /\ FetchLive(v)' => main'[v] \in {"poll", "tick"}
      <4>1. /\ ~Reusable(v) /\ file[v] # f /\ file[v] \in Files /\ file'[v] = file[v]
            /\ main'[v] = main[v] /\ fetch'[v] = fetch[v]
        BY <3>2, <3>3, <3>5
      <4>2. main[v] # "index" => isGo(file[v])'
        <5>1. main[v] # "index" => isGo(file[v])
          BY <4>1 DEF OneWorker
        <5>2. file'[v] \in Files \ {f}
          BY <4>1
        <5>3. QED
          BY <3>4, <4>1, <5>1, <5>2 DEF isGo, Registered
      <4>3. QED
        BY <3>1, <3>2, <3>3, <4>1, <4>2 DEF OneWorker
    <3>6. /\ \A u \in Workers : ~Reusable(u)' /\ file'[u] = file'[w] => u = w
          /\ \A q \in Requests : file'[w] \notin picks'[q]
          /\ main'[w] # "index" => isGo(file[w])'
          /\ ~FetchLive(w)'
      BY <3>1, <3>2, <3>3, <3>4 DEF isGo, Registered
    <3>7. QED
      BY <3>2, <3>5, <3>6 DEF OneWorker, isGo, Registered
  <2>4. QED
    BY <2>1, <2>2, <2>3
<1>5. ASSUME NEW w \in Workers, Fetch(w) \/ startDown(w) \/ Kill(w) PROVE OneWorker'
  <2>1. ~Kill(w)
    BY DEF Kill, Die, Swallow, OneRequest
  <2>2. /\ ~Reusable(w) /\ file[w] \in Files
        /\ UNCHANGED <<file, picks>>
        /\ \A v \in Workers \ {w} : main'[v] = main[v] /\ fetch'[v] = fetch[v]
    <3>1. CASE Fetch(w)
      BY <3>1 DEF Fetch, FetchOpen, FetchRead, FetchWrite, FetchEnd, TypeOK
    <3>2. CASE startDown(w)
      BY <3>2 DEF startDown, Spawn, Poll, Tick, OpenOutput, CopyRefused, Copy, Finish, Close,
                  Leave, PopOwn, Index, TypeOK
    <3>3. QED
      BY <1>5, <2>1, <3>1, <3>2
  <2>3. \A f \in Files \ {file[w]} : isGo(f) => isGo(f)'
    <3>1. CASE PopOwn(w)
      BY <2>2, <3>1 DEF PopOwn, isGo, Registered, TypeOK
    <3>2. CASE ~PopOwn(w)
      <4>1. UNCHANGED public_dic
        BY <1>5, <2>1, <3>2 DEF Fetch, FetchOpen, FetchRead, FetchWrite, FetchEnd,
             startDown, Spawn, Poll, Tick, OpenOutput, CopyRefused, Copy, Finish, Close, Leave, Index
      <4>2. QED
        BY <4>1 DEF isGo, Registered
    <3>3. QED
      BY <3>1, <3>2
  <2>4. ASSUME NEW v \in Workers \ {w}, ~Reusable(v)'
        PROVE  /\ \A u \in Workers : ~Reusable(u)' /\ file'[u] = file'[v] => u = v
               /\ \A q \in Requests : file'[v] \notin picks'[q]
               /\ main'[v] # "index" => isGo(file[v])'
               /\ FetchLive(v)' => main'[v] \in {"poll", "tick"}
    <3>1. ~Reusable(v) /\ file[v] # file[w]
      BY <2>2, <2>4 DEF OneWorker
    <3>2. main[v] # "index" => isGo(file[v])'
      <4>1. main[v] # "index" => isGo(file[v])
        BY <3>1 DEF OneWorker
      <4>2. file[v] \in Files \ {file[w]} /\ file' = file
        BY <2>2, <3>1 DEF TypeOK
      <4>3. QED
        BY <2>3, <4>1, <4>2 DEF isGo, Registered
    <3>3. QED
      BY <2>2, <3>1, <3>2 DEF OneWorker
  <2>5. /\ \A u \in Workers : ~Reusable(u)' /\ file'[u] = file'[w] => u = w
        /\ \A q \in Requests : file'[w] \notin picks'[q]
    BY <2>2 DEF OneWorker
  <2>6. ASSUME ~Reusable(w)'
        PROVE  /\ main'[w] # "index" => isGo(file[w])'
               /\ FetchLive(w)' => main'[w] \in {"poll", "tick"}
    <3>1. main[w] # "index" => isGo(file[w])
      BY <2>2 DEF OneWorker
    <3>2. FetchLive(w) => main[w] \in {"poll", "tick"}
      BY <2>2 DEF OneWorker
    <3>3. CASE Fetch(w)
      BY <3>1, <3>2, <3>3 DEF Fetch, FetchOpen, FetchRead, FetchWrite, FetchEnd, isGo,
                              Registered
    <3>4. CASE PopOwn(w)
      BY <2>2, <2>6, <3>2, <3>4 DEF PopOwn, TypeOK
    <3>5. CASE Poll(w)
      BY <3>1, <3>2, <3>5 DEF Poll, Waits, isGo, Registered, TypeOK
    <3>6. CASE startDown(w) /\ ~PopOwn(w) /\ ~Poll(w)
      BY <2>6, <3>1, <3>2, <3>6 DEF startDown, Spawn, Tick, OpenOutput, CopyRefused, Copy,
            Finish, Close, Leave, Index, isGo, Registered, TypeOK
    <3>7. QED
      BY <1>5, <2>1, <3>3, <3>4, <3>5, <3>6
  <2>7. QED
    BY <2>2, <2>4, <2>5, <2>6 DEF OneWorker, isGo, Registered
<1>6. CASE Restart
  BY <1>6 DEF Restart, Empty, OneWorker
<1>7. CASE UNCHANGED vars
  BY <1>2, <1>7 DEF vars
<1>8. QED
  BY <1>3, <1>4, <1>5, <1>6, <1>7 DEF Next

LEMMA InStepStep ==
  ASSUME TypeOK, scene.calm, OneRequest, OneWorker, InStep, [Next]_vars
  PROVE  InStep' /\ scene' = scene
<1> USE DEF part, disk, rows, job, workers, batch, hand, check, requests, bounds, world, rest,
          At, Goto, Save, Pop, FetchStep, Step, Reusable, MainLive, FetchLive
<1>1. scene' = scene
  BY SceneFixed
<1>2. ASSUME UNCHANGED <<part, fetch, file, at>> PROVE InStep'
  BY <1>1, <1>2 DEF InStep
<1>3. ASSUME NEW r \in Requests, View(r) PROVE InStep'
  BY <1>2, <1>3 DEF View, Begin, adddownload
<1>4. ASSUME NEW r \in Requests, Handle(r) PROVE InStep'
  <2>1. ASSUME NEW f \in Files, NEW w \in Workers, Launch(r, f, w) PROVE InStep'
    BY <1>1, <2>1 DEF Launch, InStep, TypeOK
  <2>2. ~dropFiles(r)
    BY DEF dropFiles, OneRequest
  <2>3. QED
    BY <1>2, <1>4, <2>1, <2>2 DEF Handle, start_Down, Look, Flag, FlagFails, KillThread,
                  stopDown, dropDown, Reply,
                  SweepBegin, SweepSkip, SweepStop, SweepPop, Query, CheckEnd
<1>5. ASSUME NEW w \in Workers, Fetch(w) PROVE InStep'
  <2>1. CASE FetchOpen(w)
    BY <1>1, <2>1 DEF FetchOpen, startpoint, InStep, TypeOK
  <2>2. CASE FetchRead(w) \/ FetchEnd(w)
    BY <1>1, <2>2 DEF FetchRead, FetchEnd, InStep, TypeOK
  <2>3. CASE FetchWrite(w)
    <3>1. file[w] \in Files /\ at[w] = partLen[file[w]] /\ at[w] < scene.size
      BY <2>3 DEF FetchWrite, InStep, TypeOK
    <3>2. \A v \in Workers \ {w} : fetch[v] # "ended" => file[v] # file[w]
      BY <2>3 DEF FetchWrite, OneWorker
    <3>3. scene.size \in Nat
      BY DownAssumption DEF TypeOK
    <3>4. \A f \in Files : partOk'[f] /\ partLen'[f] <= scene.size
      BY <2>3, <3>1, <3>3 DEF FetchWrite, InStep, TypeOK
    <3>5. ASSUME NEW v \in Workers
          PROVE  /\ fetch'[v] \in {"read", "write"} => at'[v] = partLen'[file'[v]]
                 /\ fetch'[v] = "write" => at'[v] < scene.size
      <4>1. CASE v = w
        BY <2>3, <3>1, <4>1 DEF FetchWrite, TypeOK
      <4>2. CASE v # w
        <5>1. fetch'[v] = fetch[v] /\ at'[v] = at[v] /\ file'[v] = file[v]
          BY <2>3, <4>2 DEF FetchWrite, TypeOK
        <5>2. fetch[v] # "ended" => partLen'[file[v]] = partLen[file[v]]
          BY <2>3, <3>2, <4>2 DEF FetchWrite, TypeOK
        <5>3. QED
          BY <5>1, <5>2 DEF InStep
      <4>3. QED
        BY <4>1, <4>2
    <3>6. QED
      BY <1>1, <3>4, <3>5 DEF InStep
  <2>4. QED
    BY <1>5, <2>1, <2>2, <2>3 DEF Fetch
<1>6. ASSUME NEW w \in Workers, startDown(w) \/ Kill(w) PROVE InStep'
  <2>1. CASE Spawn(w)
    BY <1>1, <2>1 DEF Spawn, InStep, TypeOK
  <2>2. CASE Copy(w)
    <3>1. file[w] \in Files
      BY <2>2 DEF Copy, TypeOK
    <3>2. \A v \in Workers : fetch[v] # "ended" => file[v] # file[w]
      BY <2>2 DEF Copy, OneWorker
    <3>3. scene.size \in Nat
      BY DownAssumption DEF TypeOK
    <3>4. \A f \in Files : partOk'[f] /\ partLen'[f] <= scene.size
      BY <2>2, <3>1, <3>3 DEF Copy, InStep, TypeOK
    <3>5. \A v \in Workers : fetch[v] # "ended" => partLen'[file[v]] = partLen[file[v]]
      BY <2>2, <3>2 DEF Copy, TypeOK
    <3>6. QED
      BY <1>1, <2>2, <3>4, <3>5 DEF Copy, InStep
  <2>3. CASE ~Spawn(w) /\ ~Copy(w)
    BY <1>2, <1>6, <2>3 DEF startDown, Poll, Tick, OpenOutput, CopyRefused, Finish, Close,
                            Leave, PopOwn, Index, Kill, Die, Swallow
  <2>4. QED
    BY <2>1, <2>2, <2>3
<1>7. CASE Restart
  BY <1>1, <1>7 DEF Restart, Empty, InStep
<1>8. CASE UNCHANGED vars
  BY <1>2, <1>8 DEF vars
<1>9. QED
  BY SMTT(30), <1>1, <1>3, <1>4, <1>5, <1>6, <1>7, <1>8 DEF Next

Tame == scene.calm => OneRequest /\ OneWorker /\ InStep

LEMMA TameAlways ==
  ASSUME MaxBatch <= 1
  PROVE  Spec => []Tame
<1>1. Init => Tame
  BY DownAssumption DEF Init, Empty, Tame, OneRequest, OneWorker, InStep, Ahead, Reusable,
         MainLive, FetchLive, Registered
<1>2. TypeOK /\ Tame /\ [Next]_vars => Tame'
  <2>1. [Next]_vars => scene' = scene
    BY SceneFixed
  <2>2. QED
    BY <2>1, OneRequestStep, OneWorkerStep, InStepStep DEF Tame
<1>3. QED
  BY <1>1, <1>2, TypeCorrect, PTL DEF Spec

\* A resumed download continues where the part file ends, whatever errors and restarts
\* came before: its Download thread is the only one that appends to the file, and it
\* starts at its length (Download.run and startDown, main_down.py:247-370).  For a calm
\* user whose requests name one row each; one that names two makes check_dic start a
\* second thread for the first of them.
THEOREM PartsArePrefixes ==
  ASSUME MaxBatch <= 1
  PROVE  Spec => []PartIsPrefix
<1>1. Tame => PartIsPrefix
  BY DEF Tame, InStep, PartIsPrefix
<1>2. QED
  BY <1>1, TameAlways, PTL

-----------------------------------------------------------------------------
(* Completion: a calm user, no errors and no restart.  Then no Download thread  *)
(* ends before the part file is whole, and nothing takes a row from its worker. *)

Buffered(f) == Own(f) => output[Name(f)] = [is |-> "buffered", of |-> f]
Complete(f) == Own(f) => output[Name(f)] = [is |-> "whole", of |-> f]

\* What the steps of a worker have brought about.
Stage(w) ==
  /\ main[w] \in {"poll", "tick", "open", "copy"} /\ ~FetchLive(w)
       => partLen[file[w]] = scene.size
  /\ main[w] \in {"copy", "finish", "close", "leave", "pop", "index"}
       => Listable(file[w])
  /\ Own(file[w]) /\ main[w] = "copy" => output[Name(file[w])].of = file[w]
  /\ main[w] \in {"finish", "close"} => Buffered(file[w])
  /\ main[w] \in {"leave", "pop", "index"} => Complete(file[w])
  /\ main[w] \in {"close", "leave", "pop", "index"} => status[file[w]] = Done
  /\ main[w] \in {"spawn", "poll", "tick", "open", "copy", "finish"}
       => status[file[w]] = Active

\* An entry belongs to a worker that has still to pop it.
Owned(f) ==
  public_dic[f].go /\ \E w \in Workers : file[w] = f /\ main[w] \notin {"ended", "index"}

\* A finished download is listed, or the worker that finished it has still to do that.
Settled(f) ==
  \/ f \in listed /\ Complete(f)
  \/ \E w \in Workers : main[w] \in {"close", "leave", "pop", "index"} /\ file[w] = f

InTime ==
  /\ \A r \in Requests : rpc[r] # "pop" /\ \A f \in picks[r] : status[f] = Active
  /\ \A f \in Registered : Owned(f)
  /\ \A w \in Workers : Stage(w)
  /\ \A f \in Files : status[f] = Done => Settled(f)

\* What a request or a thread works on was once given out by the database.
HandGiven(r) == /\ todo[r] \subseteq issued /\ picks[r] \subseteq issued
                /\ rpc[r] \in {"flag", "kill", "pause", "unlink", "delete"} =>
                     cur[r] \in issued

Given ==
  /\ \A f \in Files : status[f] # NoRow => f \in issued
  /\ \A r \in Requests : HandGiven(r)
  /\ \A w \in Workers : ~Reusable(w) => file[w] \in issued

LEMMA GivenStep ==
  ASSUME TypeOK, Given, [Next]_vars
  PROVE  Given'
<1> USE DEF part, disk, rows, job, workers, batch, hand, check, requests, bounds, world, rest,
          At, Goto, Save, Pop, FetchStep, Step, Reusable, MainLive, FetchLive
<1>1. ASSUME UNCHANGED <<status, issued, todo, picks, rpc, cur>>, UNCHANGED file,
             \A w \in Workers : Reusable(w) => Reusable(w)'
      PROVE Given'
  BY <1>1 DEF Given, HandGiven
\* A request changes nothing of what the others have.
<1>2. ASSUME NEW r \in Requests,
             UNCHANGED <<main, fetch, file>>, issued \subseteq issued',
             \A f \in Files : status'[f] # NoRow => f \in issued',
             \A q \in Requests \ {r} :
                rpc'[q] = rpc[q] /\ todo'[q] = todo[q] /\ picks'[q] = picks[q] /\ cur'[q] = cur[q],
             todo'[r] \subseteq issued' /\ picks'[r] \subseteq issued',
             rpc'[r] \in {"flag", "kill", "pause", "unlink", "delete"} => cur'[r] \in issued'
      PROVE  Given'
  <2>1. ASSUME NEW q \in Requests
        PROVE  HandGiven(q)'
    <3>1. CASE q = r
      BY <1>2, <3>1 DEF HandGiven
    <3>2. CASE q # r
      <4>1. HandGiven(q)
        BY DEF Given
      <4>2. QED
        BY <1>2, <3>2, <4>1 DEF HandGiven
    <3>3. QED
      BY <3>1, <3>2
  <2>2. QED
    BY <1>2, <2>1 DEF Given, HandGiven
<1>3. ASSUME NEW r \in Requests, View(r) PROVE Given'
  <2>1. HandGiven(r)
    BY DEF Given
  <2>2. ASSUME NEW o \in DOMAIN Accepts, NEW ids \in Batches, Begin(r, o, ids)
        PROVE  Given'
    <3>1. {f \in ids : status[f] \in Accepts[o]} \subseteq issued
      BY DEF Batches, Accepts, NoRow, Done, Active, Paused, Given
    <3>2. QED
      BY <1>2, <2>1, <2>2, <3>1 DEF Begin, Given, HandGiven, TypeOK
  <2>3. ASSUME NEW f \in Files, adddownload(r, f) PROVE Given'
    BY <1>2, <2>1, <2>3 DEF adddownload, Given, HandGiven, TypeOK
  <2>4. QED
    BY <1>3, <2>2, <2>3 DEF View
<1>4. ASSUME NEW r \in Requests, Handle(r) PROVE Given'
  <2>1. HandGiven(r)
    BY DEF Given
  <2>2. ASSUME NEW f \in Files, start_Down(r, f) \/ Look(r, f) PROVE Given'
    <3>1. CASE start_Down(r, f)
      BY <1>2, <2>1, <2>2, <3>1 DEF start_Down, Given, HandGiven, TypeOK
    <3>2. CASE Look(r, f)
      BY <1>2, <2>1, <2>2, <3>2 DEF Look, Given, HandGiven, TypeOK
    <3>3. QED
      BY <2>2, <3>1, <3>2
  <2>3. CASE Flag(r) \/ FlagFails(r) \/ KillThread(r)
    <3>1. CASE Flag(r) \/ KillThread(r)
      BY <1>2, <2>1, <3>1 DEF Flag, KillThread, Given, HandGiven, TypeOK
    <3>2. CASE FlagFails(r)
      BY <1>2, <2>1, <3>2 DEF FlagFails, Given, HandGiven, TypeOK
    <3>3. QED
      BY <2>3, <3>1, <3>2
  <2>4. CASE stopDown(r) \/ dropFiles(r) \/ dropDown(r) \/ Reply(r)
    <3>1. CASE stopDown(r)
      BY <1>2, <2>1, <3>1 DEF stopDown, Given, HandGiven, TypeOK
    <3>2. CASE dropFiles(r) \/ Reply(r)
      BY <1>2, <2>1, <3>2 DEF dropFiles, Reply, Given, HandGiven, TypeOK
    <3>3. CASE dropDown(r)
      BY <1>2, <2>1, <3>3 DEF dropDown, NoRow, Given, HandGiven, TypeOK
    <3>4. QED
      BY <2>4, <3>1, <3>2, <3>3
  <2>5. CASE SweepBegin(r) \/ SweepPop(r) \/ CheckEnd(r)
    BY <1>2, <2>1, <2>5 DEF SweepBegin, SweepPop, CheckEnd, Given, HandGiven, TypeOK
  <2>6. ASSUME NEW k \in Files, SweepSkip(r, k) \/ SweepStop(r, k) PROVE Given'
    BY <1>2, <2>1, <2>6 DEF SweepSkip, SweepStop, Given, HandGiven, TypeOK
  <2>7. CASE Query(r)
    <3>1. PICK S \in SUBSET {f \in Files : status[f] = Active} :
            picks' = [picks EXCEPT ![r] = S]
      BY <2>7 DEF Query
    <3>2. S \subseteq issued
      BY <3>1 DEF Active, NoRow, Given
    <3>3. QED
      BY <1>2, <2>1, <2>7, <3>1, <3>2 DEF Query, Given, HandGiven, TypeOK
  <2>8. ASSUME NEW f \in Files, NEW w \in Workers, Launch(r, f, w) PROVE Given'
    <3>1. f \in issued /\ \A q \in Requests : picks'[q] \subseteq picks[q]
      BY <2>1, <2>8 DEF Launch, HandGiven, TypeOK
    <3>2. \A v \in Workers : v # w => file'[v] = file[v] /\ main'[v] = main[v]
      BY <2>8 DEF Launch, TypeOK
    <3>3. file'[w] = f /\ UNCHANGED <<status, issued, todo, rpc, cur, fetch>>
      BY <2>8 DEF Launch, TypeOK
    <3>4. QED
      BY <3>1, <3>2, <3>3 DEF Given, HandGiven
  <2>9. QED
    BY <1>4, <2>2, <2>3, <2>4, <2>5, <2>6, <2>7, <2>8 DEF Handle
<1>5. ASSUME NEW w \in Workers, Fetch(w) PROVE Given'
  BY <1>1, <1>5 DEF Fetch, FetchOpen, FetchRead, FetchWrite, FetchEnd, TypeOK
<1>6. ASSUME NEW w \in Workers, startDown(w) PROVE Given'
  <2>1. CASE Tick(w) \/ Finish(w)
    <3>1. file[w] \in issued /\ UNCHANGED <<issued, todo, picks, rpc, cur, fetch, file>>
      BY <2>1 DEF Tick, Finish, Given
    <3>2. /\ \A v \in Workers : Reusable(v) => Reusable(v)'
          /\ \A f \in Files : f # file[w] => status'[f] = status[f]
      BY <2>1 DEF Tick, Finish, TypeOK
    <3>3. QED
      BY <3>1, <3>2 DEF Given, HandGiven
  <2>2. CASE ~Tick(w) /\ ~Finish(w)
    <3>1. /\ UNCHANGED <<status, issued, todo, picks, rpc, cur>> /\ UNCHANGED file
          /\ ~Reusable(w) /\ \A v \in Workers \ {w} : Reusable(v) => Reusable(v)'
      BY <1>6, <2>2 DEF startDown, Spawn, Poll, OpenOutput, CopyRefused, Copy, Close, Leave,
                        PopOwn, Index, TypeOK
    <3>2. QED
      BY <1>1, <3>1
  <2>3. QED
    BY <2>1, <2>2
<1>7. ASSUME NEW w \in Workers, Kill(w) PROVE Given'
  BY <1>1, <1>7 DEF Kill, Die, Swallow, TypeOK
<1>8. CASE Restart
  BY <1>8 DEF Restart, Empty, HandGiven, Given
<1>9. CASE UNCHANGED vars
  BY <1>1, <1>9 DEF vars
<1>10. QED
  BY <1>3, <1>4, <1>5, <1>6, <1>7, <1>8, <1>9 DEF Next

LEMMA GivenAlways == Spec => []Given
<1>1. Init => Given
  BY DEF Init, Empty, Given, HandGiven, Reusable, MainLive, FetchLive
<1>2. QED
  BY <1>1, GivenStep, TypeCorrect, PTL DEF Spec

LEMMA InTimeStep ==
  ASSUME TypeOK, scene.calm, ~scene.errors, OneRequest, OneWorker, InStep, Given, InTime,
         [Next]_vars, restarts' = 0
  PROVE  InTime'
<1> USE DEF part, disk, rows, job, workers, batch, hand, check, requests, bounds, world, rest,
          At, Goto, Save, Pop, FetchStep, Step, Reusable, MainLive, FetchLive
<1>1. scene' = scene /\ scene.size \in Nat \ {0}
  BY InStepStep, DownAssumption DEF TypeOK
\* While a request is ahead nothing is registered: an entry has its worker.
<1>2. (\A w \in Workers : Reusable(w)) => Registered = {}
  BY DEF InTime, Owned
\* Rows are given out one after the other, so that a row of its own name had it before.
<1>3. /\ scene.name \in [Files -> Names]
      /\ \A f \in Files : Name(f) \in Names /\ Name(f)' = Name(f)
  BY <1>1, SceneFacts DEF Name, TypeOK
<1>4. issued \subseteq issued' => \A f \in Files : Own(f)' => Own(f)
  BY <1>3 DEF Own, TypeOK
<1>5. ASSUME UNCHANGED <<disk, public_dic, main, fetch, file>>,
             issued \subseteq issued',
             \A r \in Requests : rpc'[r] # "pop" /\ \A f \in picks'[r] : status'[f] = Active,
             \/ UNCHANGED status
             \/ /\ \A w \in Workers : Reusable(w)
                /\ \A f \in Files : status'[f] = Done => status[f] = Done
      PROVE InTime'
  <2>1. Registered' = Registered /\ \A f \in Registered : Owned(f)'
    BY <1>5 DEF InTime, Registered, Owned
  <2>2. \A w \in Workers : Stage(w)'
    <3>1. ASSUME NEW w \in Workers, Reusable(w) PROVE Stage(w)'
      BY <1>5, <3>1 DEF Stage
    <3>2. ASSUME NEW w \in Workers, ~Reusable(w) PROVE Stage(w)'
      <4>1. file[w] \in Files /\ Stage(w)
        BY <3>2 DEF TypeOK, InTime
      <4>2. QED
        BY <1>1, <1>5, <1>3, <1>4, <3>2, <4>1
           DEF Stage, Buffered, Complete, Listable
    <3>3. QED
      BY <3>1, <3>2
  <2>3. \A f \in Files : status'[f] = Done => Settled(f)'
    BY <1>5, <1>3, <1>4 DEF InTime, Settled, Complete
  <2>4. QED
    BY <1>5, <2>1, <2>2, <2>3 DEF InTime
<1>6. ASSUME NEW r \in Requests, View(r) PROVE InTime'
  <2>1. Quiet
    BY <1>6 DEF View, Begin, adddownload, Asks
  <2>2. /\ UNCHANGED <<disk, public_dic, main, fetch, file, picks>>
        /\ \A q \in Requests : rpc'[q] # "pop" /\ picks[q] = {}
    BY <1>6, <2>1, SMTT(30) DEF View, Begin, adddownload, Quiet, OneRequest, TypeOK
  <2>3. \A f \in Files : status'[f] = Done => status[f] = Done
    BY <1>6 DEF View, Begin, adddownload, TypeOK, Active, Done
  <2>4. issued \subseteq issued'
    BY <1>6 DEF View, Begin, adddownload, TypeOK
  <2>5. QED
    BY <1>5, <2>1, <2>2, <2>3, <2>4 DEF Quiet
<1>7. ASSUME NEW r \in Requests, Handle(r) PROVE InTime'
  <2>1. ASSUME NEW f \in Files, start_Down(r, f) PROVE InTime'
    <3>1. /\ \A w \in Workers : Reusable(w)
          /\ \A q \in Requests : picks[q] = {}
      BY <2>1 DEF start_Down, OneRequest, Ahead
    <3>2. /\ UNCHANGED <<disk, issued, public_dic, main, fetch, file, picks>>
          /\ \A q \in Requests : rpc'[q] \in {rpc[q], "check"}
      BY <2>1 DEF start_Down, TypeOK
    <3>3. \A g \in Files : status'[g] = Done => status[g] = Done
      BY <2>1 DEF start_Down, TypeOK, Active, Done
    <3>4. QED
      BY <1>5, <3>1, <3>2, <3>3 DEF InTime
  \* Nothing is registered while a request is ahead, so that no flag is cleared.
  <2>2. ASSUME NEW f \in Files, Look(r, f) PROVE InTime'
    <3>1. /\ UNCHANGED <<disk, rows, public_dic, main, fetch, file, picks>>
          /\ \A q \in Requests : rpc'[q] \in {rpc[q], "flag", "pause", "unlink"}
      BY <2>2 DEF Look, TypeOK
    <3>2. QED
      BY <1>5, <3>1 DEF InTime
  <2>3. ~Flag(r)
    BY <1>2 DEF Flag, OneRequest, Ahead
  <2>4. CASE FlagFails(r) \/ KillThread(r)
    <3>1. /\ UNCHANGED <<disk, rows, public_dic, main, fetch, file, picks>>
          /\ \A q \in Requests : rpc'[q] \in {rpc[q], "next", "check", "pause", "unlink"}
      BY <2>4 DEF FlagFails, KillThread, TypeOK
    <3>2. QED
      BY <1>5, <3>1 DEF InTime
  <2>5. CASE stopDown(r)
    <3>1. /\ \A w \in Workers : Reusable(w)
          /\ \A q \in Requests : picks[q] = {}
      BY <2>5 DEF stopDown, OneRequest, Ahead
    <3>2. /\ UNCHANGED <<disk, issued, public_dic, main, fetch, file, picks>>
          /\ \A q \in Requests : rpc'[q] \in {rpc[q], "check"}
      BY <2>5 DEF stopDown, TypeOK
    <3>3. \A g \in Files : status'[g] = Done => status[g] = Done
      BY <2>5 DEF stopDown, TypeOK, Paused, Done
    <3>4. QED
      BY <1>5, <3>1, <3>2, <3>3 DEF InTime
  <2>6. ~dropFiles(r) /\ ~dropDown(r) /\ ~SweepPop(r)
    BY DEF dropFiles, dropDown, SweepPop, OneRequest, InTime
  <2>7. ~\E k \in Files : SweepStop(r, k)
    BY DEF SweepStop, InTime, Owned
  <2>8. CASE \/ Reply(r) \/ SweepBegin(r) \/ CheckEnd(r)
             \/ \E k \in Files : SweepSkip(r, k)
    <3>1. /\ UNCHANGED <<disk, rows, public_dic, main, fetch, file, picks>>
          /\ \A q \in Requests : rpc'[q] \in {rpc[q], "idle", "sweep", "check", "next"}
      BY <2>8 DEF Reply, SweepBegin, CheckEnd, SweepSkip, TypeOK
    <3>2. QED
      BY <1>5, <3>1 DEF InTime
  <2>9. CASE Query(r)
    <3>1. /\ UNCHANGED <<disk, rows, public_dic, main, fetch, file>>
          /\ \A q \in Requests : rpc'[q] \in {rpc[q], "launch"}
      BY <2>9 DEF Query, TypeOK
    <3>2. \A q \in Requests : \A f \in picks'[q] : status[f] = Active
      BY <2>9 DEF Query, InTime, TypeOK
    <3>3. QED
      BY <1>5, <3>1, <3>2 DEF InTime
  <2>10. ASSUME NEW f \in Files, NEW w \in Workers, Launch(r, f, w) PROVE InTime'
    <3>1. /\ UNCHANGED <<disk, rows, fetch, rpc>>
          /\ \A q \in Requests : picks'[q] \subseteq picks[q]
          /\ Reusable(w) /\ status[f] = Active
      BY <2>10 DEF Launch, InTime, TypeOK
    <3>2. /\ main'[w] = "spawn" /\ file'[w] = f
          /\ \A v \in Workers \ {w} : main'[v] = main[v] /\ file'[v] = file[v]
      BY <2>10 DEF Launch, TypeOK
    <3>3. /\ public_dic'[f].go /\ \A g \in Files \ {f} : public_dic'[g] = public_dic[g]
      <4>1. public_dic'[f] = [thread |-> w, go |-> TRUE]
        BY <2>10 DEF Launch, TypeOK
      <4>2. \A g \in Files \ {f} : public_dic'[g] = public_dic[g]
        BY <2>10 DEF Launch, TypeOK
      <4>3. QED
        BY <4>1, <4>2
    <3>4. \A g \in Registered' : Owned(g)'
      <4>1. Owned(f)'
        BY <3>2, <3>3 DEF Owned
      <4>2. ASSUME NEW g \in Registered', g # f PROVE Owned(g)'
        <5>1. g \in Registered /\ public_dic'[g] = public_dic[g]
          BY <3>3, <4>2 DEF Registered
        <5>2. PICK v \in Workers : file[v] = g /\ main[v] \notin {"ended", "index"}
          BY <5>1 DEF InTime, Owned
        <5>3. v # w /\ public_dic[g].go
          BY <3>1, <5>1, <5>2 DEF InTime, Owned
        <5>4. file'[v] = g /\ main'[v] \notin {"ended", "index"}
          BY <3>2, <5>2, <5>3
        <5>5. QED
          BY <5>1, <5>3, <5>4 DEF Owned
      <4>3. QED
        BY <4>1, <4>2
    <3>5. ASSUME NEW v \in Workers PROVE Stage(v)'
      <4>1. CASE v = w
        BY <3>1, <3>2, <4>1 DEF Stage
      <4>2. CASE v # w /\ Reusable(v)
        BY <3>1, <3>2, <4>2 DEF Stage
      <4>3. CASE v # w /\ ~Reusable(v)
        <5>1. /\ file[v] \in Files /\ Stage(v) /\ file'[v] = file[v]
              /\ main'[v] = main[v] /\ fetch'[v] = fetch[v]
          BY <3>1, <3>2, <4>3 DEF TypeOK, InTime
        <5>2. QED
          BY <1>1, <1>3, <1>4, <3>1, <5>1 DEF Stage, Buffered, Complete, Listable
      <4>4. QED
        BY <4>1, <4>2, <4>3
    <3>6. ASSUME NEW g \in Files, status'[g] = Done PROVE Settled(g)'
      <4>1. Settled(g)
        BY <3>1, <3>6 DEF InTime
      <4>2. CASE g \in listed /\ Complete(g)
        BY <1>3, <1>4, <3>1, <4>2 DEF Settled, Complete
      <4>3. ASSUME NEW v \in Workers, main[v] \in {"close", "leave", "pop", "index"},
                   file[v] = g
            PROVE  Settled(g)'
        BY <3>1, <3>2, <4>3 DEF Settled
      <4>4. QED
        BY <4>1, <4>2, <4>3 DEF Settled
    <3>7. QED
      BY <3>1, <3>4, <3>5, <3>6 DEF InTime
  <2>11. QED
    BY <1>7, <2>2, <2>5, <2>6, <2>7, <2>8, <2>9, <2>10, <2>1, <2>3, <2>4 DEF Handle
<1>8. ASSUME NEW w \in Workers, Fetch(w) \/ startDown(w) \/ Kill(w) PROVE InTime'
  <2> DEFINE f == file[w]
  <2>1. ~Kill(w) /\ ~CopyRefused(w)
    <3>1. ~Kill(w)
      BY DEF Kill, Die, Swallow, OneRequest
    <3>2. ASSUME CopyRefused(w) PROVE FALSE
      <4>1. main[w] = "copy" /\ isGo(file[w]) /\ ~FetchLive(w)
        BY <3>2 DEF CopyRefused, OneWorker
      <4>2. partLen[file[w]] = scene.size
        BY <4>1 DEF InTime, Stage
      <4>3. QED
        BY <1>1, <3>2, <4>1, <4>2 DEF CopyRefused
    <3>3. QED
      BY <3>1, <3>2
  <2>2. /\ ~Reusable(w) /\ f \in Files
        /\ UNCHANGED <<file, rpc, picks>>
        /\ \A v \in Workers \ {w} : main'[v] = main[v] /\ fetch'[v] = fetch[v]
    <3>1. CASE Fetch(w)
      BY <3>1 DEF Fetch, FetchOpen, FetchRead, FetchWrite, FetchEnd, TypeOK
    <3>2. CASE startDown(w)
      BY <3>2 DEF startDown, Spawn, Poll, Tick, OpenOutput, CopyRefused, Copy, Finish, Close,
                  Leave, PopOwn, Index, TypeOK
    <3>3. QED
      BY <1>8, <2>1, <3>1, <3>2
  <2>3. /\ issued' = issued
        /\ \A g \in Files \ {f} :
             /\ status'[g] = status[g] /\ partLen'[g] = partLen[g]
             /\ public_dic'[g] = public_dic[g] /\ (g \in listed => g \in listed')
    <3>1. CASE Fetch(w)
      BY <2>2, <3>1 DEF Fetch, FetchOpen, FetchRead, FetchWrite, FetchEnd, TypeOK
    <3>2. CASE Spawn(w) \/ Poll(w) \/ Tick(w) \/ OpenOutput(w) \/ Copy(w)
      BY <2>2, <3>2 DEF Spawn, Poll, Tick, OpenOutput, Copy, TypeOK
    <3>3. CASE Finish(w) \/ Close(w) \/ Leave(w) \/ PopOwn(w) \/ Index(w)
      BY <2>2, <3>3 DEF Finish, Close, Leave, PopOwn, Index, TypeOK
    <3>4. QED
      BY <1>8, <2>1, <3>1, <3>2, <3>3 DEF startDown
  \* The worker writes no output but the one of its row's name, and unlinks none.
  <2>4. \A n \in Names : /\ n # Name(f) => output'[n] = output[n]
                         /\ output[n].is # "none" => output'[n].is # "none"
    <3>1. Name(f) \in Names /\ output \in [Names -> Content]
      BY <1>3, <2>2 DEF TypeOK
    <3>2. CASE OpenOutput(w)
      BY <3>1, <3>2 DEF OpenOutput
    <3>3. CASE Copy(w)
      <4>1. PICK is \in {"buffered", "damaged"} :
              output' = [output EXCEPT ![Name(f)] = Written(output[Name(f)], f, is)]
        BY <3>3 DEF Copy
      <4>2. QED
        BY <2>2, <3>1, <4>1, WrittenStays
    <3>4. CASE Close(w)
      <4>1. output' = [output EXCEPT ![Name(f)] = Closed(output[Name(f)], f)]
        BY <3>4 DEF Close
      <4>2. QED
        BY <2>2, <3>1, <4>1, WrittenStays
    <3>5. CASE ~OpenOutput(w) /\ ~Copy(w) /\ ~Close(w)
      BY <1>8, <2>1, <3>5 DEF Fetch, FetchOpen, FetchRead, FetchWrite, FetchEnd, startDown,
                              Spawn, Poll, Tick, Finish, Leave, PopOwn, Index
    <3>6. QED
      BY <3>2, <3>3, <3>4, <3>5
  <2>5. \A g \in Files : Own(g)' = Own(g)
    BY <1>3, <2>3 DEF Own, TypeOK
  <2>6. ASSUME NEW g \in Files \ {f}
        PROVE  /\ Buffered(g) => Buffered(g)'
               /\ Complete(g) => Complete(g)'
               /\ Listable(g) => Listable(g)'
               /\ Own(g) => output'[Name(g)] = output[Name(g)]
    <3>1. f \in issued
      BY <2>2 DEF Given
    <3>2. Own(g) => Name(g) # Name(f)
      BY <3>1 DEF Own
    <3>3. QED
      BY <1>3, <2>4, <2>5, <3>2 DEF Buffered, Complete, Listable
  <2>7. \A v \in Workers \ {w} : ~Reusable(v) => file[v] \in Files \ {f}
    BY <2>2 DEF OneWorker, TypeOK
  \* What is left to show is about the worker and its row.
  <2>8. ASSUME f \in Registered' => public_dic'[f].go /\ main'[w] \notin {"ended", "index"},
               Stage(w)',
               status'[f] = Done => \/ f \in listed' /\ Complete(f)'
                                    \/ main'[w] \in {"close", "leave", "pop", "index"}
        PROVE  InTime'
    <3>1. \A r \in Requests : rpc'[r] # "pop" /\ \A g \in picks'[r] : status'[g] = Active
      <4>1. \A r \in Requests : picks[r] \subseteq Files \ {f}
        BY <2>2 DEF OneWorker, TypeOK
      <4>2. QED
        BY <2>2, <2>3, <4>1 DEF InTime
    <3>2. ASSUME NEW g \in Registered' PROVE Owned(g)'
      <4>1. CASE g = f
        BY <2>2, <2>8, <4>1 DEF Owned
      <4>2. CASE g # f
        <5>1. g \in Registered /\ public_dic'[g] = public_dic[g]
          BY <2>3, <4>2 DEF Registered
        <5>2. PICK v \in Workers : file[v] = g /\ main[v] \notin {"ended", "index"}
          BY <5>1 DEF InTime, Owned
        <5>3. v # w /\ public_dic[g].go
          BY <4>2, <5>1, <5>2 DEF InTime, Owned
        <5>4. file'[v] = g /\ main'[v] \notin {"ended", "index"}
          BY <2>2, <5>2, <5>3
        <5>5. QED
          BY <5>1, <5>3, <5>4 DEF Owned
      <4>3. QED
        BY <4>1, <4>2
    <3>3. ASSUME NEW v \in Workers PROVE Stage(v)'
      <4>1. CASE v = w
        BY <2>8, <4>1
      <4>2. CASE Reusable(v) /\ v # w
        BY <2>2, <4>2 DEF Stage
      <4>3. CASE ~Reusable(v) /\ v # w
        <5>1. /\ file[v] \in Files \ {f} /\ main'[v] = main[v] /\ fetch'[v] = fetch[v]
              /\ file'[v] = file[v] /\ Stage(v)
          BY <2>2, <2>7, <4>3 DEF InTime
        <5>2. QED
          BY <1>1, <1>3, <2>3, <2>5, <2>6, <5>1 DEF Stage
      <4>4. QED
        BY <4>1, <4>2, <4>3
    <3>4. ASSUME NEW g \in Files, status'[g] = Done PROVE Settled(g)'
      <4>1. CASE g = f
        BY <2>2, <2>8, <3>4, <4>1 DEF Settled
      <4>2. CASE g # f
        <5>1. Settled(g)
          BY <2>3, <3>4, <4>2 DEF InTime
        <5>2. CASE g \in listed /\ Complete(g)
          BY <2>3, <2>6, <4>2, <5>2 DEF Settled
        <5>3. ASSUME NEW v \in Workers, main[v] \in {"close", "leave", "pop", "index"},
                     file[v] = g
              PROVE  Settled(g)'
          BY <2>2, <4>2, <5>3 DEF Settled
        <5>4. QED
          BY <5>1, <5>2, <5>3 DEF Settled
      <4>3. QED
        BY <4>1, <4>2
    <3>5. QED
      BY <3>1, <3>2, <3>3, <3>4 DEF InTime
  <2>9. /\ f \in Registered => public_dic[f].go /\ main[w] \notin {"ended", "index"}
        /\ Stage(w)
        /\ status[f] = Done => \/ f \in listed /\ Complete(f)
                               \/ main[w] \in {"close", "leave", "pop", "index"}
        /\ main[w] # "index" => isGo(f)
        /\ FetchLive(w) => main[w] \in {"poll", "tick"}
    <3>1. \A v \in Workers : main[v] # "ended" /\ file[v] = f => v = w
      BY <2>2 DEF OneWorker
    <3>2. f \in Registered => public_dic[f].go /\ main[w] \notin {"ended", "index"}
      BY <3>1 DEF InTime, Owned
    <3>3. status[f] = Done => \/ f \in listed /\ Complete(f)
                              \/ main[w] \in {"close", "leave", "pop", "index"}
      BY <2>2, <3>1 DEF InTime, Settled
    <3>4. QED
      BY <2>2, <3>2, <3>3 DEF InTime, OneWorker
  <2>10. CASE Fetch(w)
    <3>1. /\ main[w] \in {"poll", "tick"} /\ isGo(f)
          /\ UNCHANGED <<main, public_dic, rows, output, listed>>
      BY <2>9, <2>10 DEF Fetch, FetchOpen, FetchRead, FetchWrite, FetchEnd
    <3>2. fetch'[w] = "ended" => partLen'[f] = scene.size
      <4>1. CASE FetchOpen(w) \/ FetchRead(w) \/ FetchWrite(w)
        BY <3>1, <4>1 DEF FetchOpen, FetchRead, FetchWrite, TypeOK
      <4>2. CASE FetchEnd(w)
        <5>1. at[w] = partLen[f] /\ partLen[f] <= scene.size /\ at[w] >= scene.size
          BY <2>2, <4>2 DEF FetchEnd, InStep
        <5>2. partLen[f] = scene.size
          BY SMTT(30), <1>1, <2>2, <5>1 DEF TypeOK
        <5>3. QED
          BY <4>2, <5>2 DEF FetchEnd
      <4>3. QED
        BY <2>10, <4>1, <4>2 DEF Fetch
    <3>3. Stage(w)'
      BY <1>1, <2>2, <2>9, <3>1, <3>2 DEF Stage
    <3>4. QED
      <4>1. Complete(f) => Complete(f)'
        BY <1>3, <2>2, <2>5, <3>1 DEF Complete
      <4>2. QED
        BY <2>8, <2>9, <3>1, <3>3, <4>1 DEF Registered
  <2>11. CASE Spawn(w) \/ Poll(w) \/ Tick(w)
    <3>1. UNCHANGED <<disk, public_dic>> /\ status'[f] = status[f]
      BY <2>2, <2>9, <2>11 DEF Spawn, Poll, Tick, Stage, TypeOK
    <3>2. /\ main[w] \in {"spawn", "poll", "tick"}
          /\ main'[w] \in {"poll", "tick", "open"}
          /\ main[w] = "spawn" => fetch'[w] = "open" /\ main'[w] = "poll"
          /\ main[w] # "spawn" => fetch'[w] = fetch[w]
          /\ main'[w] = "open" => fetch[w] = "ended"
      <4>1. CASE Spawn(w)
        BY <4>1 DEF Spawn, TypeOK
      <4>2. CASE Poll(w)
        BY <2>9, <4>2 DEF Poll, Waits, TypeOK
      <4>3. CASE Tick(w)
        BY <4>3 DEF Tick, TypeOK
      <4>4. QED
        BY <2>11, <4>1, <4>2, <4>3
    <3>3. Stage(w)'
      BY <1>1, <2>2, <2>9, <3>1, <3>2 DEF Stage
    <3>4. status[f] = Active
      BY <2>9, <3>2 DEF Stage
    <3>5. QED
      BY <2>8, <2>9, <3>1, <3>2, <3>3, <3>4 DEF Registered, Active, Done
  <2>12. CASE OpenOutput(w)
    <3>1. /\ main[w] = "open" /\ main'[w] = "copy"
          /\ UNCHANGED <<status, partLen, fetch, public_dic>>
          /\ output'[Name(f)] = [is |-> "empty", of |-> f]
      BY <1>3, <2>2, <2>12 DEF OpenOutput, TypeOK
    <3>2. Stage(w)' /\ status[f] = Active
      BY <1>1, <1>3, <2>2, <2>9, <3>1 DEF Stage, Listable
    <3>3. QED
      BY <2>8, <2>9, <3>1, <3>2 DEF Registered, Active, Done
  <2>13. CASE Copy(w)
    <3>1. /\ main[w] = "copy" /\ main'[w] = "finish" /\ fetch[w] = "ended"
          /\ UNCHANGED <<status, public_dic>>
      BY <2>9, <2>13 DEF Copy, TypeOK
    <3>2. /\ partLen[f] = scene.size /\ partOk[f] /\ status[f] = Active /\ Listable(f)
          /\ Own(f) => output[Name(f)].of = f
      BY <2>2, <2>9, <3>1 DEF Stage, InStep
    <3>3. output'[Name(f)] = Written(output[Name(f)], f, "buffered")
      BY <1>3, <2>2, <2>13, <3>2 DEF Copy, TypeOK
    <3>4. Buffered(f)' /\ Listable(f)'
      <4>1. Own(f) => output'[Name(f)] = [is |-> "buffered", of |-> f]
        BY <3>2, <3>3 DEF Written, Listable
      <4>2. Listable(f)'
        BY <1>3, <2>2, <2>4, <3>2 DEF Listable
      <4>3. QED
        BY <1>3, <2>2, <2>5, <4>1, <4>2 DEF Buffered
    <3>5. Stage(w)'
      BY <2>2, <3>1, <3>2, <3>4 DEF Stage
    <3>6. QED
      BY <2>8, <2>9, <3>1, <3>2, <3>5 DEF Registered, Active, Done
  <2>14. CASE Finish(w)
    <3>1. /\ main[w] = "finish" /\ main'[w] = "close" /\ status'[f] = Done
          /\ UNCHANGED <<output, public_dic>>
      BY <2>2, <2>14 DEF Finish, TypeOK
    <3>2. Buffered(f)' /\ Listable(f)'
      BY <1>3, <2>2, <2>9, <2>5, <3>1 DEF Stage, Buffered, Listable
    <3>3. Stage(w)'
      BY <2>2, <3>1, <3>2 DEF Stage
    <3>4. QED
      BY <2>8, <2>9, <3>1, <3>3 DEF Registered
  <2>15. CASE Close(w)
    <3>1. /\ main[w] = "close" /\ main'[w] = "leave" /\ UNCHANGED <<status, public_dic>>
          /\ output'[Name(f)] = Closed(output[Name(f)], f)
      BY <1>3, <2>2, <2>15 DEF Close, TypeOK
    <3>2. status[f] = Done /\ Buffered(f) /\ Listable(f)
      BY <2>9, <3>1 DEF Stage
    <3>3. Complete(f)' /\ Listable(f)'
      <4>1. Own(f) => output'[Name(f)] = [is |-> "whole", of |-> f]
        BY <3>1, <3>2 DEF Buffered, Closed, Written
      <4>2. Listable(f)'
        BY <1>3, <2>2, <2>4, <3>2 DEF Listable
      <4>3. QED
        BY <1>3, <2>2, <2>5, <4>1, <4>2 DEF Complete
    <3>4. Stage(w)'
      BY <2>2, <3>1, <3>2, <3>3 DEF Stage
    <3>5. QED
      BY <2>8, <2>9, <3>1, <3>4 DEF Registered
  <2>16. CASE Leave(w) \/ PopOwn(w)
    <3>1. /\ main[w] \in {"leave", "pop"} /\ main'[w] \in {"pop", "index"}
          /\ UNCHANGED <<status, output>>
          /\ main'[w] = "index" => public_dic'[f] = NoEntry
          /\ main'[w] = "pop" => public_dic'[f] = public_dic[f]
      <4>1. isGo(f)
        BY <2>9, <2>16 DEF Leave, PopOwn
      <4>2. CASE Leave(w)
        BY <4>1, <4>2 DEF Leave, isGo, TypeOK
      <4>3. CASE PopOwn(w)
        BY <2>2, <4>1, <4>3 DEF PopOwn, isGo, TypeOK
      <4>4. QED
        BY <2>16, <4>2, <4>3
    <3>2. Complete(f)' /\ Listable(f)' /\ status[f] = Done
      BY <1>3, <2>2, <2>9, <2>5, <3>1 DEF Stage, Complete, Listable
    <3>3. Stage(w)'
      BY <2>2, <3>1, <3>2 DEF Stage
    <3>4. f \in Registered' => public_dic'[f].go /\ main'[w] \notin {"ended", "index"}
      BY <2>9, <3>1 DEF Registered
    <3>5. QED
      BY <2>8, <3>1, <3>3, <3>4
  <2>17. CASE Index(w)
    <3>1. main[w] = "index" /\ main'[w] = "ended" /\ UNCHANGED <<output, public_dic>>
      BY <2>17 DEF Index, TypeOK
    <3>2. Complete(f)' /\ Listable(f)
      BY <1>3, <2>2, <2>9, <2>5, <3>1 DEF Stage, Complete
    <3>3. f \in listed'
      BY <2>17, <3>2 DEF Index
    <3>4. Stage(w)'
      BY <3>1 DEF Stage
    <3>5. QED
      BY <2>8, <2>9, <3>1, <3>2, <3>3, <3>4 DEF Registered
  <2>18. QED
    BY <1>8, <2>1, <2>10, <2>11, <2>12, <2>13, <2>14, <2>15, <2>17, <2>16 DEF startDown
<1>9. ~Restart
  BY DEF Restart, TypeOK
<1>10. CASE UNCHANGED vars
  BY <1>5, <1>10 DEF vars, InTime
<1>11. QED
  BY <1>6, <1>7, <1>8, <1>9, <1>10 DEF Next

LEMMA InTimeAlways ==
  ASSUME MaxBatch <= 1
  PROVE  Spec => [](Unbroken => InTime)
<1>1. Init => InTime
  <2> SUFFICES ASSUME Init PROVE InTime
    OBVIOUS
  <2>1. /\ Registered = {}
        /\ \A r \in Requests : rpc[r] = "idle" /\ picks[r] = {}
        /\ \A w \in Workers : main[w] = "ended"
    BY DEF Init, Empty, Registered
  <2>2. \A f \in Files : status[f] # Done
    BY SceneFacts DEF Init, NoRow, Active, Paused, Done
  <2>3. QED
    BY <2>1, <2>2 DEF InTime, Stage
<1>2. TypeOK /\ Tame /\ Given /\ (Unbroken => InTime) /\ [Next]_vars
        => (Unbroken' => InTime')
  <2> SUFFICES ASSUME TypeOK, Tame, Given, Unbroken => InTime, [Next]_vars, Unbroken'
               PROVE  InTime'
    OBVIOUS
  <2>1. scene' = scene /\ (restarts' = restarts \/ restarts' = restarts + 1)
    BY SceneFixed
  <2>2. restarts' = 0 /\ restarts = 0 /\ Unbroken
    BY <2>1 DEF Unbroken, TypeOK
  <2>3. QED
    BY <2>2, InTimeStep DEF Unbroken, Tame
<1>3. QED
  BY <1>1, <1>2, TypeCorrect, TameAlways, GivenAlways, PTL DEF Spec

\* With a calm user, a network without errors and no restart, status 1 means that the
\* output is complete, and when all threads have ended also that the file is in the
\* index (startDown, main_down.py:304-385).
THEOREM DoneFinished ==
  ASSUME MaxBatch <= 1
  PROVE  Spec => []DoneIsFinished
<1>1. TypeOK /\ (Unbroken => InTime) => DoneIsFinished
  <2> SUFFICES ASSUME TypeOK, Unbroken, InTime PROVE DoneIsWhole /\ DoneIsListed
    BY DEF DoneIsFinished
  <2>1. DoneIsWhole
    <3>1. ASSUME NEW f \in Files, status[f] = Done, Own(f)
          PROVE  /\ output[Name(f)].of = f
                 /\ \/ output[Name(f)].is = "whole"
                    \/ /\ output[Name(f)].is = "buffered"
                       /\ \E w \in Workers : main[w] = "close" /\ file[w] = f
      <4>1. CASE Complete(f)
        BY <3>1, <4>1 DEF Complete
      <4>2. ASSUME NEW w \in Workers, main[w] \in {"close", "leave", "pop", "index"},
                   file[w] = f, ~Complete(f)
            PROVE  main[w] = "close" /\ output[Name(f)] = [is |-> "buffered", of |-> f]
        BY <3>1, <4>2 DEF InTime, Stage, Buffered
      <4>3. QED
        BY <3>1, <4>1, <4>2 DEF InTime, Settled
    <3>2. QED
      BY <3>1 DEF DoneIsWhole
  <2>2. DoneIsListed
    BY DEF DoneIsListed, Quiet, Reusable, MainLive, InTime, Settled
  <2>3. QED
    BY <2>1, <2>2
<1>2. QED
  BY <1>1, TypeCorrect, InTimeAlways, PTL

\* Under the same conditions a download keeps its entry until its row says that it is
\* done: neither a request nor another worker takes it away (check_dic and startDown,
\* main_down.py:13-58 and 304-385).  The safety half of LaunchedCompletes.
THEOREM EntryKept ==
  ASSUME MaxBatch <= 1
  PROVE  Spec => KeptUntilDone
<1> DEFINE Kept == \A f \in Files : Unbroken' /\ isGo(f) /\ ~isGo(f)' => status'[f] = Done
<1> USE DEF part, disk, rows, job, workers, batch, hand, check, requests, bounds, world, rest,
          At, Goto, Save, Pop, FetchStep, Step
<1>1. TypeOK /\ Tame /\ (Unbroken => InTime) /\ [Next]_vars => Kept
  <2> SUFFICES ASSUME TypeOK, Tame, Unbroken => InTime, [Next]_vars,
                      NEW f \in Files, Unbroken', isGo(f), ~isGo(f)'
               PROVE  status'[f] = Done
    OBVIOUS
  <2>1. scene' = scene /\ (restarts' = restarts \/ restarts' = restarts + 1)
    BY SceneFixed
  <2>2. InTime /\ OneRequest /\ OneWorker
    BY <2>1 DEF Unbroken, TypeOK, Tame
  <2>3. PICK w \in Workers : file[w] = f /\ main[w] \notin {"ended", "index"}
    BY <2>2 DEF InTime, Owned, isGo
  <2>4. ~UNCHANGED public_dic
    BY DEF isGo, Registered
  <2>5. ASSUME NEW r \in Requests, View(r) PROVE FALSE
    BY <2>4, <2>5 DEF View, Begin, adddownload, isGo, Registered
  <2>6. ASSUME NEW r \in Requests, Handle(r) PROVE FALSE
    <3>1. ASSUME NEW g \in Files, NEW v \in Workers, Launch(r, g, v) PROVE FALSE
      <4>1. public_dic' = [public_dic EXCEPT ![g] = [thread |-> v, go |-> TRUE]]
        BY <3>1 DEF Launch
      <4>2. CASE f = g
        <5>1. public_dic'[f] = [thread |-> v, go |-> TRUE]
          BY <4>1, <4>2 DEF TypeOK
        <5>2. [thread |-> v, go |-> TRUE] \in [thread : Workers, go : BOOLEAN]
          OBVIOUS
        <5>3. public_dic'[f] # NoEntry
          BY <5>1, <5>2, DownAssumption
        <5>4. QED
          BY <5>1, <5>3 DEF isGo, Registered
      <4>3. CASE f # g
        <5>1. public_dic'[f] = public_dic[f]
          BY <4>1, <4>3 DEF TypeOK
        <5>2. QED
          BY <5>1 DEF isGo, Registered
      <4>4. QED
        BY <4>2, <4>3
    <3>2. ASSUME Flag(r) PROVE FALSE
      <4>1. Ahead(r)
        BY <3>2 DEF Flag, Ahead
      <4>2. QED
        BY <2>2, <2>3, <4>1 DEF OneRequest, Reusable, MainLive
    <3>3. ~SweepPop(r)
      BY <2>2 DEF SweepPop, InTime
    <3>4. QED
      BY <2>4, <2>6, <3>1, <3>2, <3>3 DEF Handle, start_Down, Look, FlagFails, KillThread,
           stopDown, dropFiles, dropDown,
           Reply, SweepBegin, SweepSkip, SweepStop, Query, CheckEnd, isGo, Registered
  <2>7. ASSUME NEW v \in Workers, Fetch(v) \/ startDown(v) \/ Kill(v)
        PROVE  status'[f] = Done
    <3>1. CASE PopOwn(v)
      <4>1. file[v] = f
        BY <3>1 DEF PopOwn, isGo, Registered, TypeOK
      <4>2. status[f] = Done
        BY <2>2, <3>1, <4>1 DEF PopOwn, InTime, Stage
      <4>3. QED
        BY <3>1, <4>2 DEF PopOwn
    <3>2. CASE ~PopOwn(v)
      <4>1. UNCHANGED public_dic
        BY <2>7, <3>2 DEF Fetch, FetchOpen, FetchRead, FetchWrite, FetchEnd, startDown, Spawn,
              Poll, Tick, OpenOutput, CopyRefused, Copy, Finish, Close, Leave, Index, Kill, Die,
              Swallow
      <4>2. QED
        BY <2>4, <4>1
    <3>3. QED
      BY <3>1, <3>2
  <2>8. ~Restart
    BY DEF Restart, Unbroken, TypeOK
  <2>9. CASE UNCHANGED vars
    BY <2>4, <2>9 DEF vars
  <2>10. QED
    BY <2>5, <2>6, <2>7, <2>8, <2>9 DEF Next
<1>2. QED
  BY <1>1, TypeCorrect, TameAlways, InTimeAlways, PTL DEF Spec, KeptUntilDone

=============================================================================
