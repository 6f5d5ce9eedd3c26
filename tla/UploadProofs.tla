---------------------------- MODULE UploadProofs ----------------------------
(* What TLAPS proves of Upload, for every value of the constants. *)
EXTENDS Upload, SequenceTheorems, WellFoundedInduction, TLAPS

LEMMA Appended ==
  ASSUME file \in Seq(Blocks), NEW b \in Blocks
  PROVE  /\ Append(file, b) \in Seq(Blocks)
         /\ Range(Append(file, b)) = Range(file) \cup {b}
<1>1. /\ Append(file, b) \in Seq(Blocks)
      /\ DOMAIN Append(file, b) = DOMAIN file \cup {Len(file) + 1}
      /\ \A i \in DOMAIN file : Append(file, b)[i] = file[i]
      /\ Append(file, b)[Len(file) + 1] = b
  OBVIOUS
<1>2. QED
  BY <1>1 DEF Range

LEMMA LeastId ==
  ASSUME NEW N \in SUBSET Nat, N # {}
  PROVE  \E n \in N : \A m \in N : n <= m
<1> DEFINE Less == {ss \in Nat \X Nat : ss[1] < ss[2]}
<1>1. IsWellFoundedOn(Less, Nat)
  BY NatLessThanWellFounded DEF OpToRel
<1>2. PICK n \in N : \A m \in N : <<m, n>> \notin Less
  BY <1>1, WFMin
<1>3. \A m \in N : m \in Nat /\ n \in Nat /\ ~(m < n)
  BY <1>2
<1>4. QED
  BY <1>3

LEMMA OneRow ==
  ASSUME NEW t \in [id : Nat, count : Nat]
  PROVE  First({t}) = t
BY DEF First

\* The state keeps its shape: a row of Tmpfileinfo never counts the last chunk, a
\* request that records has a row to move on or a file of several chunks
\* (uploadfile, views.py:3547-3732; watch.py:17-108).
THEOREM TypeCorrect == Spec => []TypeOK
<1> USE UploadAssumption DEF disk, watcher, server, clients, bounds
<1>1. Init => TypeOK
  <2>1. Blocks # {}
    <3>1. PICK c \in Clients : TRUE
      OBVIOUS
    <3>2. [from |-> c, chunk |-> 0] \in Blocks
      BY DEF Blocks
    <3>3. QED
      BY <3>2
  <2>2. (CHOOSE b \in Blocks : TRUE) \in Blocks
    BY <2>1
  <2>3. QED
    BY <2>2 DEF Init, TypeOK
<1>2. TypeOK /\ [Next]_vars => TypeOK'
  <2> SUFFICES ASSUME TypeOK, [Next]_vars PROVE TypeOK'
    OBVIOUS
  <2>1. ASSUME NEW c \in Clients, NEW h \in Handlers, Send(c, h) \/ Retry(c, h)
        PROVE TypeOK'
    <3>1. next[c] < Chunks
      BY <2>1 DEF Send, Retry, TypeOK
    <3>2. [from |-> c, chunk |-> next[c]] \in Blocks
      BY <3>1 DEF Blocks, TypeOK
    <3>3. CASE Send(c, h)
      BY <3>1, <3>2, <3>3 DEF Send, Request, TypeOK
    <3>4. CASE Retry(c, h)
      <4>1. retries' \in [Clients -> 0 .. chunkRetry]
        BY SMTT(30), <3>4 DEF Retry, TypeOK
      <4>2. QED
        BY <3>1, <3>2, <3>4, <4>1 DEF Retry, Request, TypeOK
    <3>5. QED
      BY <2>1, <3>3, <3>4
  <2>2. ASSUME NEW h \in Handlers, uploadfile(h) PROVE TypeOK'
    <3>1. CASE Look(h)
      BY <3>1 DEF Look, TypeOK
    <3>t. CASE LookTmp(h)
      BY <3>t DEF LookTmp, TypeOK
    <3>2. CASE Touch(h)
      BY <3>2 DEF Touch, TypeOK
    <3>3. CASE Decide(h)
      <4>1. tmp # {} => First(tmp) \in tmp
        <5> SUFFICES ASSUME tmp # {} PROVE First(tmp) \in tmp
          OBVIOUS
        <5>1. \E t \in tmp : \A u \in tmp : t.id <= u.id
          <6>1. PICK x \in tmp : TRUE
            OBVIOUS
          <6>2. x.id \in {t.id : t \in tmp} /\ {t.id : t \in tmp} \subseteq Nat
            BY SMTT(30), <6>1 DEF TypeOK, Rows
          <6>3. \E n \in {t.id : t \in tmp} : \A m \in {t.id : t \in tmp} : n <= m
            BY <6>2, LeastId
          <6>4. QED
            BY <6>3
        <5>2. QED
          BY <5>1 DEF First
      <4>2. QED
        BY <3>3, <4>1 DEF Decide, TypeOK, Rows
    <3>4. CASE AppendChunk(h)
      <4>1. file' \in Seq(Blocks)
        BY <3>4, Appended DEF AppendChunk, TypeOK
      <4>2. events' \in Seq({"close", "delete"})
        BY <3>4 DEF AppendChunk, Notify, TypeOK
      <4>3. QED
        BY <3>4, <4>1, <4>2 DEF AppendChunk, TypeOK
    <3>5. CASE Record(h)
      <4> DEFINE k == req[h].chunk
                 t == row[h]
      <4>1. k \in Nat /\ nextId \in Nat
        BY DEF TypeOK, Blocks
      <4>2. CASE t = NoRow
        <5>1. [id |-> nextId, count |-> 0] \in Rows
          BY <3>5, <4>1, <4>2 DEF Record, TypeOK, Rows
        <5>2. tmp' = tmp \cup {[id |-> nextId, count |-> 0]} /\ nextId' = nextId + 1
          BY <3>5, <4>2 DEF Record, Recorded
        <5>3. tmp' \subseteq Rows
          BY <5>1, <5>2 DEF TypeOK
        <5>4. \A u \in tmp' : u.id < nextId'
          <6> SUFFICES ASSUME NEW u \in tmp' PROVE u.id < nextId'
            OBVIOUS
          <6>1. CASE u \in tmp
            <7>1. u.id \in Nat /\ u.id < nextId
              BY <6>1 DEF TypeOK, Rows
            <7>2. QED
              BY <4>1, <5>2, <7>1
          <6>2. CASE u = [id |-> nextId, count |-> 0]
            BY <4>1, <5>2, <6>2
          <6>3. QED
            BY <5>2, <6>1, <6>2
        <5>5. \A x \in Handlers : row[x] # NoRow => row[x].id < nextId'
          <6>1. \A x \in Handlers : row[x] # NoRow => row[x].id \in Nat /\ row[x].id < nextId
            BY DEF TypeOK, Rows
          <6>2. QED
            BY <4>1, <5>2, <6>1
        <5>6. QED
          BY <3>5, <4>1, <5>2, <5>3, <5>4, <5>5 DEF Record, TypeOK
      <4>3. CASE t # NoRow
        <5>1. t \in Rows /\ t.id \in Nat /\ t.id < nextId
          BY <4>3 DEF TypeOK, Rows
        <5>2. tmp' \subseteq tmp \cup IF k + 1 < Chunks THEN {[id |-> t.id, count |-> k]}
                                                        ELSE {}
          BY <3>5, <4>3 DEF Record, Recorded
        <5>3. k + 1 < Chunks => [id |-> t.id, count |-> k] \in Rows
          BY <4>1, <5>1 DEF Rows
        <5>4. tmp' \subseteq Rows
          BY <5>2, <5>3 DEF TypeOK
        <5>5. \A u \in tmp' : u.id < nextId
          BY <5>1, <5>2 DEF TypeOK
        <5>6. nextId' = nextId
          BY <3>5, <4>3 DEF Record
        <5>7. QED
          BY <3>5, <5>4, <5>5, <5>6 DEF Record, TypeOK
      <4>4. QED
        BY <4>2, <4>3
    <3>6. CASE Reply(h)
      <4>1. req[h].from \in Clients /\ next[req[h].from] < Chunks
        BY <3>6 DEF Reply, TypeOK, Blocks
      <4>2. next' \in [Clients -> 0 .. Chunks] /\ retries' \in [Clients -> 0 .. chunkRetry]
        BY SMTT(30), <3>6, <4>1 DEF Reply, TypeOK
      <4>3. QED
        BY <3>6, <4>1, <4>2 DEF Reply, TypeOK
    <3>7. CASE ReplyLost(h)
      BY <3>7 DEF ReplyLost, TypeOK
    <3>8. QED
      BY <2>2, <3>1, <3>t, <3>2, <3>3, <3>4, <3>5, <3>6, <3>7 DEF uploadfile
  <2>3. CASE autosyncdb
    <3>1. CASE CloseWrite
      <4>1. events' \in Seq({"close", "delete"})
        BY <3>1 DEF CloseWrite, TypeOK
      <4>2. QED
        BY <3>1, <4>1 DEF CloseWrite, TypeOK
    <3>2. CASE Open
      <4>1. file # <<>> => Len(file) \in Nat \ {0}
        BY DEF TypeOK
      <4>2. QED
        BY <3>2, <4>1 DEF Open, TypeOK
    <3>3. CASE Select
      BY <3>3 DEF Select, TypeOK
    <3>4. CASE Insert
      BY <3>4 DEF Insert, TypeOK
    <3>5. CASE process_IN_DELETE
      BY <3>5 DEF process_IN_DELETE, TypeOK
    <3>6. QED
      BY <2>3, <3>1, <3>2, <3>3, <3>4, <3>5 DEF autosyncdb
  <2>4. CASE Delete
    <3>1. events' \in Seq({"close", "delete"})
      BY <2>4 DEF Delete, Notify, TypeOK
    <3>2. QED
      BY SMTT(30), <2>4, <3>1 DEF Delete, TypeOK
  <2>5. CASE Restart
    BY <2>5 DEF Restart, TypeOK
  <2>6. CASE UNCHANGED vars
    BY <2>6 DEF vars, TypeOK
  <2>7. QED
    BY <2>1, <2>2, <2>3, <2>4, <2>5, <2>6 DEF Next
<1>3. QED
  BY <1>1, <1>2, PTL DEF Spec

-----------------------------------------------------------------------------
(* A scene: one client uploads, nothing else has happened to the path.      *)

\* What has not happened yet had not happened before.
LEMMA Undone ==
  ASSUME TypeOK, [Next]_vars, NEW c \in Clients, Undisturbed(c)'
  PROVE  Undisturbed(c)
<1> USE UploadAssumption DEF disk, watcher, server, clients, bounds
<1>1. deletes = 0 /\ restarts = 0
  <2>1. deletes' \in {deletes, deletes + 1} /\ restarts' \in {restarts, restarts + 1}
    BY DEF Next, vars, Send, Retry, Request, uploadfile, Look, LookTmp, Touch, Decide, AppendChunk,
           Record, Reply, ReplyLost, autosyncdb, CloseWrite, Open, Select, Insert, process_IN_DELETE,
           Delete, Restart
  <2>2. QED
    BY <2>1 DEF Undisturbed, TypeOK
<1>2. ASSUME NEW d \in Clients \ {c} PROVE next[d] = 0 /\ listen[d] = NoHandler
  <2>1. next'[d] = 0 /\ listen'[d] = NoHandler
    BY DEF Undisturbed
  <2>2. ASSUME NEW e \in Clients, NEW h \in Handlers, Send(e, h) \/ Retry(e, h)
        PROVE next[d] = 0 /\ listen[d] = NoHandler
    <3>1. next' = next /\ listen' = [listen EXCEPT ![e] = h]
      BY <2>2 DEF Send, Retry, Request
    <3>2. QED
      BY <2>1, <3>1 DEF TypeOK
  <2>3. ASSUME NEW h \in Handlers, Reply(h) PROVE next[d] = 0 /\ listen[d] = NoHandler
    <3>1. /\ req[h].from \in Clients /\ next[req[h].from] \in Nat
          /\ next' = [next EXCEPT ![req[h].from] = @ + 1]
          /\ listen' = [listen EXCEPT ![req[h].from] = NoHandler]
      BY SMTT(30), <2>3 DEF Reply, TypeOK, Blocks
    <3>2. req[h].from # d
      BY SMTT(30), <2>1, <3>1 DEF TypeOK
    <3>3. QED
      BY <2>1, <3>1, <3>2 DEF TypeOK
  <2>4. CASE UNCHANGED <<next, listen>>
    BY <2>1, <2>4
  <2>5. QED
    BY <2>2, <2>3, <2>4
       DEF Next, vars, uploadfile, Look, LookTmp, Touch, Decide, AppendChunk, Record, ReplyLost,
           autosyncdb, CloseWrite, Open, Select, Insert, process_IN_DELETE, Delete, Restart
<1>3. QED
  BY <1>1, <1>2 DEF Undisturbed

\* The one who sends is c.
LEMMA OwnRequest ==
  ASSUME TypeOK, NEW c \in Clients, Undisturbed(c)',
         NEW d \in Clients, NEW h \in Handlers, Send(d, h) \/ Retry(d, h)
  PROVE  d = c
<1>1. listen'[d] = h /\ h # NoHandler
  BY UploadAssumption DEF Send, Retry, Request, TypeOK
<1>2. QED
  BY <1>1 DEF Undisturbed

\* The chunk c waits for is in the file, and it is the last one or Tmpfileinfo has a
\* row: what has to be true when uploadfile answers without storing anything.
Covered(c) == Stored(c, next[c]) /\ (tmp = {} => next[c] + 1 = Chunks)

\* The invariant that AnsweredIsStored needs.
SerialInv(c) ==
  /\ \A k \in 0 .. next[c] - 1 : Stored(c, k)
  /\ file = <<>> => events = <<>> /\ stage \in {"wait", "ended"} /\ index = NoRow
  /\ \A t \in tmp : tmp = {t} /\ \A k \in 0 .. t.count : Stored(c, k)
  /\ tmp = {} /\ file # <<>> /\ next[c] < Chunks
       => Covered(c) \/ \E h \in Handlers : pc[h] = "record"
  /\ \A h \in Handlers : pc[h] # "idle" =>
       /\ listen[c] = h /\ req[h] = [from |-> c, chunk |-> next[c]]
       /\ pc[h] \in {"looktmp", "touch"} => file # <<>>
       /\ pc[h] = "touch" => tmp = {}
       /\ pc[h] \in {"append", "record"} =>
            tmp = IF row[h] = NoRow THEN {} ELSE {row[h]}
       /\ pc[h] = "record" => Stored(c, next[c])
       /\ pc[h] = "reply" => Covered(c)

\* A step that leaves the scene leaves the invariant: one step for every action.
LEMMA SerialKept ==
  ASSUME TypeOK, NEW c \in Clients, SerialInv(c), [SerialNext]_vars, Undisturbed(c)'
  PROVE  SerialInv(c)'
<1> USE UploadAssumption DEF disk, watcher, server, clients, bounds
<1>a. /\ next \in [Clients -> 0 .. Chunks] /\ next[c] \in Nat
      /\ listen \in [Clients -> Handlers \cup {NoHandler}]
      /\ pc \in [Handlers -> {"idle", "look", "looktmp", "touch", "decide", "append",
                              "record", "reply"}]
      /\ \A h \in Handlers : pc[h] # "idle" => next[c] < Chunks /\ req[h].from = c
  BY DEF TypeOK, SerialInv
<1>b. \A g, h \in Handlers : pc[g] # "idle" /\ pc[h] # "idle" => g = h
  BY DEF SerialInv
<1>1. ASSUME NEW d \in Clients, NEW h \in Handlers, Send(d, h) \/ Retry(d, h), Serial
      PROVE SerialInv(c)'
  <2>1. d = c
    BY <1>1, OwnRequest
  <2>2. \A g \in Handlers : pc[g] = "idle"
    <3>1. CASE Send(c, h)
      BY <3>1 DEF Send, SerialInv
    <3>2. CASE Retry(c, h)
      <4>1. retries'[c] > retries[c]
        BY <3>2 DEF Retry, TypeOK
      <4>2. ~Busy(c)
        BY <1>1, <4>1 DEF Serial
      <4>3. QED
        BY <1>a, <4>2 DEF Busy
    <3>3. QED
      BY <1>1, <2>1, <3>1, <3>2
  <2>3. /\ pc' = [pc EXCEPT ![h] = "look"] /\ listen' = [listen EXCEPT ![c] = h]
        /\ req' = [req EXCEPT ![h] = [from |-> c, chunk |-> next[c]]]
        /\ UNCHANGED <<file, events, tmp, index, watcher, next>>
    BY <1>1, <2>1 DEF Send, Retry, Request
  <2>4. UNCHANGED Covered(c) /\ \A k \in Nat : UNCHANGED Stored(c, k)
    BY <2>3 DEF Covered, Stored, Range
  <2>5. \A g \in Handlers : pc'[g] # "idle" =>
           g = h /\ pc'[g] = "look" /\ listen'[c] = g
           /\ req'[g] = [from |-> c, chunk |-> next[c]]
    BY <1>a, <2>2, <2>3 DEF TypeOK
  <2>6. QED
    BY SMTT(30), <1>a, <2>2, <2>3, <2>4, <2>5 DEF SerialInv, TypeOK, Rows
<1>2. ASSUME NEW h \in Handlers, uploadfile(h) PROVE SerialInv(c)'
  <2>a. /\ pc[h] # "idle" /\ \A g \in Handlers \ {h} : pc[g] = "idle"
        /\ req[h] = [from |-> c, chunk |-> next[c]] /\ listen[c] = h
        /\ req[h] \in Blocks /\ next[c] < Chunks
    BY <1>2, <1>a, <1>b DEF uploadfile, Look, LookTmp, Touch, Decide, AppendChunk, Record, Reply,
                            ReplyLost, SerialInv, TypeOK
  <2>1. CASE Look(h)
    BY SMTT(30), <1>a, <2>a, <2>1
       DEF Look, SerialInv, Covered, Stored, TypeOK, Rows
  <2>t. CASE LookTmp(h)
    BY SMTT(30), <1>a, <2>a, <2>t
       DEF LookTmp, SerialInv, Covered, Stored, TypeOK, Rows
  <2>2. CASE Touch(h)
    <3>1. Covered(c) /\ file # <<>>
      BY <2>a, <2>2 DEF Touch, SerialInv
    <3>2. QED
      BY SMTT(30), <1>a, <2>a, <2>2, <3>1
         DEF Touch, SerialInv, Covered, Stored, TypeOK, Rows
  <2>3. CASE Decide(h)
    <3>1. tmp # {} => First(tmp) \in tmp /\ tmp = {First(tmp)}
      <4>1. ASSUME NEW t \in tmp PROVE First(tmp) \in tmp /\ tmp = {First(tmp)}
        <5>1. tmp = {t} /\ t \in [id : Nat, count : Nat]
          BY DEF SerialInv, TypeOK, Rows
        <5>2. QED
          BY <5>1, OneRow
      <4>2. QED
        BY <4>1
    <3>2. tmp # {} /\ Known(next[c], First(tmp)) => Covered(c)
      BY <1>a, <3>1 DEF Known, Covered, SerialInv, TypeOK, Rows
    <3>3. row'[h] = IF tmp = {} THEN NoRow ELSE First(tmp)
      BY <2>3 DEF Decide, TypeOK
    <3>4. \A t \in tmp : t # NoRow
      BY DEF TypeOK, Rows
    <3>5. /\ pc'[h] \in {"reply", "append"} /\ (pc'[h] = "reply" => Covered(c))
          /\ \A g \in Handlers \ {h} : pc'[g] = "idle"
          /\ UNCHANGED <<file, events, tmp, index, watcher, req, next, listen>>
      BY <1>a, <2>a, <2>3, <3>2 DEF Decide
    <3>6. tmp = IF row'[h] = NoRow THEN {} ELSE {row'[h]}
      BY <3>1, <3>3, <3>4
    <3>7. UNCHANGED Covered(c) /\ \A k \in Nat : UNCHANGED Stored(c, k)
      BY <3>5 DEF Covered, Stored
    <3>8. tmp = {} /\ file # <<>> /\ next[c] < Chunks => Covered(c)
      BY <2>a, <2>3 DEF Decide, SerialInv
    <3>9. QED
      <4>1. \A t \in tmp' : tmp' = {t} /\ \A k \in 0 .. t.count : Stored(c, k)'
        BY <3>5, <3>7 DEF SerialInv, TypeOK, Rows
      <4>2. \A k \in 0 .. next'[c] - 1 : Stored(c, k)'
        BY <1>a, <3>5, <3>7 DEF SerialInv
      <4>3. pc'[h] = "append" => tmp' = IF row'[h] = NoRow THEN {} ELSE {row'[h]}
        BY <3>5, <3>6
      <4>4. QED
        BY <1>a, <2>a, <3>5, <3>7, <3>8, <4>1, <4>2, <4>3 DEF SerialInv
  <2>4. CASE AppendChunk(h)
    <3>1. /\ file' # <<>> /\ UNCHANGED <<tmp, row, req, next, listen>>
          /\ \A k \in Nat : Stored(c, k) => Stored(c, k)'
          /\ Stored(c, next[c])'
      <4>1. /\ file' = Append(file, req[h])
            /\ Range(file') = Range(file) \cup {req[h]}
        BY <2>a, <2>4, Appended DEF AppendChunk, TypeOK
      <4>2. req[h] = [from |-> c, chunk |-> next[c]] /\ next' = next
        BY <2>a, <2>4 DEF AppendChunk
      <4>3. file' # <<>>
        BY <4>1 DEF TypeOK
      <4>4. QED
        BY <2>4, <4>1, <4>2, <4>3 DEF AppendChunk, Stored
    <3>2. \/ pc'[h] = "record"
          \/ pc'[h] = "reply" /\ Chunks = 1 /\ tmp = {}
      BY <2>a, <2>4 DEF AppendChunk, SerialInv, TypeOK
    <3>3. CASE pc'[h] = "record"
      <4>1. /\ \A g \in Handlers \ {h} : pc'[g] = "idle"
            /\ tmp = IF row[h] = NoRow THEN {} ELSE {row[h]}
        BY <1>a, <2>a, <2>4 DEF AppendChunk, SerialInv
      <4>2. \A t \in tmp' : tmp' = {t} /\ \A j \in 0 .. t.count : Stored(c, j)'
        BY <3>1 DEF SerialInv, TypeOK, Rows
      <4>3. \A k \in 0 .. next'[c] - 1 : Stored(c, k)'
        BY <1>a, <3>1 DEF SerialInv
      <4>4. QED
        BY <1>a, <2>a, <3>1, <3>3, <4>1, <4>2, <4>3 DEF SerialInv
    <3>4. CASE pc'[h] = "reply" /\ Chunks = 1 /\ tmp = {}
      <4>1. Covered(c)'
        BY <1>a, <2>a, <3>1, <3>4 DEF Covered
      <4>2. QED
        BY <1>a, <2>a, <2>4, <3>1, <3>4, <4>1 DEF AppendChunk, SerialInv, TypeOK, Rows
    <3>5. QED
      BY <3>2, <3>3, <3>4
  <2>5. CASE Record(h)
    <3> DEFINE k == next[c]
    <3>1. /\ Stored(c, k) /\ tmp = IF row[h] = NoRow THEN {} ELSE {row[h]}
          /\ tmp' = Recorded(k, row[h])
          /\ row[h] \in Rows \cup {NoRow}
          /\ nextId \in Nat
      BY <2>a, <2>5 DEF Record, SerialInv, TypeOK
    <3>2. \A j \in 0 .. k : Stored(c, j)
      BY <1>a, <3>1 DEF SerialInv
    <3>3. \/ k + 1 = Chunks /\ tmp' = {}
          \/ \E t \in [id : Nat, count : 0 .. k] : tmp' = {t}
      <4>1. CASE row[h] = NoRow
        <5>1. [id |-> nextId, count |-> 0] \in [id : Nat, count : 0 .. k]
          BY <1>a, <3>1
        <5>2. tmp' = {[id |-> nextId, count |-> 0]}
          BY <3>1, <4>1 DEF Recorded
        <5>3. QED
          BY <5>1, <5>2
      <4>2. CASE row[h] # NoRow /\ k + 1 < Chunks
        <5>1. [id |-> row[h].id, count |-> k] \in [id : Nat, count : 0 .. k]
          BY <1>a, <3>1, <4>2 DEF Rows
        <5>2. tmp' = {[id |-> row[h].id, count |-> k]}
          BY <3>1, <4>2 DEF Recorded
        <5>3. QED
          BY <5>1, <5>2
      <4>3. CASE row[h] # NoRow /\ ~(k + 1 < Chunks)
        <5>1. tmp' = {}
          BY <3>1, <4>3 DEF Recorded
        <5>2. QED
          BY <1>a, <2>a, <4>3, <5>1
      <4>4. QED
        BY <4>1, <4>2, <4>3
    <3>4. /\ pc' = [pc EXCEPT ![h] = "reply"]
          /\ UNCHANGED <<file, events, index, watcher, req, row, next, listen>>
      BY <2>5 DEF Record
    <3>5. \A j \in Nat : UNCHANGED Stored(c, j)
      BY <3>4 DEF Stored
    <3>6. Covered(c)'
      BY <1>a, <3>1, <3>3, <3>4, <3>5 DEF Covered
    <3>7. \A t \in tmp' : tmp' = {t} /\ \A j \in 0 .. t.count : Stored(c, j)'
      BY <1>a, <3>2, <3>3, <3>5
    <3>8. QED
      BY <1>a, <2>a, <3>4, <3>5, <3>6, <3>7 DEF SerialInv
  <2>6. CASE Reply(h)
    <3>1. /\ next' = [next EXCEPT ![c] = @ + 1] /\ pc' = [pc EXCEPT ![h] = "idle"]
          /\ UNCHANGED <<file, events, tmp, index, watcher>>
      BY <2>a, <2>6 DEF Reply
    <3>2. Covered(c)
      BY <2>a, <2>6 DEF Reply, SerialInv
    <3>3. next'[c] = next[c] + 1 /\ \A g \in Handlers : pc'[g] = "idle"
      BY <1>a, <2>a, <3>1
    <3>4. \A j \in Nat : UNCHANGED Stored(c, j)
      BY <3>1 DEF Stored
    <3>5. \A j \in 0 .. next'[c] - 1 : Stored(c, j)'
      BY <1>a, <3>2, <3>3, <3>4 DEF SerialInv, Covered
    <3>6. \A t \in tmp' : tmp' = {t} /\ \A j \in 0 .. t.count : Stored(c, j)'
      <4>1. tmp' = tmp /\ \A t \in tmp : t.count \in Nat
        BY <3>1 DEF TypeOK, Rows
      <4>2. \A t \in tmp : tmp = {t} /\ \A j \in 0 .. t.count : Stored(c, j)
        BY DEF SerialInv
      <4>3. \A t \in tmp : \A j \in 0 .. t.count : Stored(c, j)'
        BY <3>4, <4>1, <4>2
      <4>4. QED
        BY <4>1, <4>2, <4>3
    <3>7. tmp' = {} => ~(next'[c] < Chunks)
      BY <1>a, <3>1, <3>2, <3>3 DEF Covered
    <3>8. QED
      BY <3>1, <3>3, <3>5, <3>6, <3>7 DEF SerialInv
  <2>7. CASE ReplyLost(h)
    BY SMTT(30), <1>a, <2>a, <2>7
       DEF ReplyLost, SerialInv, Covered, Stored, TypeOK, Rows
  <2>8. QED
    BY <1>2, <2>1, <2>t, <2>2, <2>3, <2>4, <2>5, <2>6, <2>7 DEF uploadfile
<1>3. CASE autosyncdb
  <2>1. UNCHANGED <<file, tmp, pc, req, row, next, listen>>
    BY <1>3 DEF autosyncdb, CloseWrite, Open, Select, Insert, process_IN_DELETE
  <2>2. file = <<>> => events' = <<>> /\ stage' \in {"wait", "ended"} /\ index' = NoRow
    BY <1>3 DEF autosyncdb, CloseWrite, Open, Select, Insert, process_IN_DELETE, SerialInv
  <2>3. UNCHANGED Covered(c) /\ \A k \in Nat : UNCHANGED Stored(c, k)
    BY <2>1 DEF Covered, Stored
  <2>4. QED
    BY <1>a, <2>1, <2>2, <2>3 DEF SerialInv, TypeOK, Rows
<1>4. CASE Delete \/ Restart
  BY <1>4 DEF Delete, Restart, TypeOK, Undisturbed
<1>5. CASE UNCHANGED vars
  BY <1>5 DEF vars, SerialInv, Covered, Stored
<1>6. QED
  BY <1>1, <1>2, <1>3, <1>4, <1>5 DEF SerialNext, Next

LEMMA SerialIsSpec == SerialSpec => Spec
<1>1. [SerialNext]_vars => [Next]_vars
  BY DEF SerialNext
<1>2. QED
  BY <1>1, PTL DEF SerialSpec, Spec

SerialScenes == \A c \in Clients : Undisturbed(c) => SerialInv(c)

LEMMA SerialAlways == SerialSpec => []SerialScenes
<1>1. Init => SerialScenes
  BY UploadAssumption DEF Init, SerialInv, SerialScenes
<1>2. TypeOK /\ SerialScenes /\ [SerialNext]_vars => SerialScenes'
  <2> SUFFICES ASSUME TypeOK, SerialScenes, [SerialNext]_vars,
                      NEW c \in Clients, Undisturbed(c)'
               PROVE  SerialInv(c)'
    BY DEF SerialScenes
  <2>1. [Next]_vars
    BY DEF SerialNext
  <2>2. Undisturbed(c)
    BY <2>1, Undone
  <2>3. QED
    BY <2>2, SerialKept DEF SerialScenes
<1>3. QED
  BY <1>1, <1>2, SerialIsSpec, TypeCorrect, PTL DEF SerialSpec

\* Whatever answers are lost, a client that sends one request at a time finds every
\* chunk it got "success" for in the file (uploadfile, views.py:3582-3671): a chunk is
\* recorded after it was appended, and nothing is answered without storing unless
\* Tmpfileinfo counts the chunk or the whole file is there.
THEOREM AnsweredStored == SerialSpec => []AnsweredIsStored
<1>1. SerialScenes => AnsweredIsStored
  BY DEF SerialScenes, SerialInv, AnsweredIsStored
<1>2. QED
  BY <1>1, SerialAlways, PTL

-----------------------------------------------------------------------------
(* The same scene when the watcher keeps up: the file grows chunk by chunk, *)
(* and Tmpfileinfo counts exactly what is in it.                            *)

\* The first n chunks of the file of c.
Upto(c, n) == [i \in 1 .. n |-> [from |-> c, chunk |-> i - 1]]

LEMMA AppendIs ==
  ASSUME NEW S, NEW s \in Seq(S), NEW e \in S
  PROVE  /\ Append(s, e) \in [1 .. Len(s) + 1 -> S]
         /\ \A i \in 1 .. Len(s) : Append(s, e)[i] = s[i]
         /\ Append(s, e)[Len(s) + 1] = e
<1>1. /\ Append(s, e) \in Seq(S) /\ Len(Append(s, e)) = Len(s) + 1
      /\ \A i \in 1 .. Len(s) : Append(s, e)[i] = s[i]
      /\ Append(s, e)[Len(s) + 1] = e
  OBVIOUS
<1>2. Append(s, e) \in [1 .. Len(Append(s, e)) -> S]
  BY <1>1, LenProperties
<1>3. QED
  BY <1>1, <1>2

LEMMA TailIs ==
  ASSUME NEW S, NEW s \in Seq(S), s # <<>>
  PROVE  /\ Len(s) >= 1 /\ Head(s) = s[1] /\ Len(Tail(s)) = Len(s) - 1
         /\ \A i \in 1 .. Len(s) - 1 : Tail(s)[i] = s[i + 1]
OBVIOUS

LEMMA UptoGrows ==
  ASSUME NEW c \in Clients, NEW n \in 0 .. Chunks - 1
  PROVE  /\ Upto(c, n) \in Seq(Blocks) /\ Len(Upto(c, n)) = n
         /\ Append(Upto(c, n), [from |-> c, chunk |-> n]) = Upto(c, n + 1)
         /\ Len(Upto(c, n + 1)) = n + 1
<1> USE UploadAssumption
<1> DEFINE b == [from |-> c, chunk |-> n]
<1>1. n \in Nat /\ n + 1 \in Nat /\ Chunks \in Nat
  OBVIOUS
<1>2. \A i \in 1 .. n : [from |-> c, chunk |-> i - 1] \in Blocks
  BY <1>1 DEF Blocks
<1>3. b \in Blocks
  BY <1>1 DEF Blocks
<1>4. Upto(c, n) \in [1 .. n -> Blocks]
  BY <1>2 DEF Upto
<1>5. Upto(c, n) \in Seq(Blocks) /\ Len(Upto(c, n)) = n
  BY <1>1, <1>4
<1>6. /\ Append(Upto(c, n), b) \in [1 .. n + 1 -> Blocks]
      /\ \A i \in 1 .. n : Append(Upto(c, n), b)[i] = Upto(c, n)[i]
      /\ Append(Upto(c, n), b)[n + 1] = b
  <2> HIDE DEF b
  <2>1. QED
    BY <1>3, <1>5, AppendIs
<1>7. Upto(c, n + 1) \in [1 .. n + 1 -> Blocks]
  <2>1. \A i \in 1 .. n + 1 : [from |-> c, chunk |-> i - 1] \in Blocks
    BY <1>1 DEF Blocks
  <2>2. QED
    BY <2>1 DEF Upto
<1>8. \A i \in 1 .. n + 1 : Append(Upto(c, n), b)[i] = Upto(c, n + 1)[i]
  <2> SUFFICES ASSUME NEW i \in 1 .. n + 1
               PROVE  Append(Upto(c, n), b)[i] = Upto(c, n + 1)[i]
    OBVIOUS
  <2>1. Upto(c, n + 1)[i] = [from |-> c, chunk |-> i - 1]
    BY DEF Upto
  <2>2. CASE i \in 1 .. n
    <3>1. Append(Upto(c, n), b)[i] = Upto(c, n)[i]
      BY <1>6, <2>2
    <3>2. Upto(c, n)[i] = [from |-> c, chunk |-> i - 1]
      BY <2>2 DEF Upto
    <3>3. QED
      BY <2>1, <3>1, <3>2
  <2>3. CASE i = n + 1
    <3>1. Append(Upto(c, n), b)[i] = b
      BY <1>6, <2>3
    <3>2. i - 1 = n
      BY <1>1, <2>3
    <3>3. QED
      BY <2>1, <3>1, <3>2
  <2>4. i \in 1 .. n \/ i = n + 1
    BY <1>1
  <2>5. QED
    BY <2>2, <2>3, <2>4
<1>9. Append(Upto(c, n), b) = Upto(c, n + 1) /\ Len(Upto(c, n + 1)) = n + 1
  <2> HIDE DEF b
  <2>1. QED
    BY SMTT(30), <1>1, <1>6, <1>7, <1>8
<1>10. QED
  BY <1>5, <1>9

\* Tmpfileinfo when n chunks are in the file: one row that counts them from 0,
\* none before the first and after the last.
Counts(n) == IF n \in {0, Chunks} THEN tmp = {}
             ELSE \E t \in tmp : tmp = {t} /\ t.count = n - 1

\* The invariant UploadedIsExact and NoLeftover need: the file is what c was answered
\* for, or one chunk more while c waits for an answer, and every request stands where
\* that tells it to.
ExactInv(c) ==
  /\ \A i \in 1 .. Len(events) : events[i] = "close"
  /\ \/ file = Upto(c, next[c])
     \/ next[c] < Chunks /\ listen[c] # NoHandler /\ file = Upto(c, next[c] + 1)
  /\ (\A h \in Handlers : pc[h] # "record") => Counts(Len(file))
  /\ \A h \in Handlers :
       /\ pc[h] \in {"touch", "reply", "record"} => file = Upto(c, next[c] + 1)
       /\ pc[h] = "append" => file = Upto(c, next[c])
       /\ pc[h] = "record" => Counts(next[c])
       /\ pc[h] = "look" /\ Len(file) = Chunks => index # NoRow
       /\ pc[h] = "decide" => Len(file) # Chunks

LEMMA ExactKept ==
  ASSUME TypeOK, NEW c \in Clients, SerialInv(c), ExactInv(c), [PromptNext]_vars,
         Undisturbed(c)'
  PROVE  ExactInv(c)'
<1> USE UploadAssumption DEF disk, watcher, server, clients, bounds
<1> DEFINE n == next[c]
<1>a. /\ n \in 0 .. Chunks /\ Chunks \in Nat \ {0} /\ NoHandler \notin Handlers
      /\ next \in [Clients -> 0 .. Chunks] /\ listen \in [Clients -> Handlers \cup {NoHandler}]
      /\ pc \in [Handlers -> {"idle", "look", "looktmp", "touch", "decide", "append",
                              "record", "reply"}]
      /\ \A h \in Handlers : pc[h] # "idle" =>
           n < Chunks /\ listen[c] = h /\ req[h] = [from |-> c, chunk |-> n]
      /\ \A g, h \in Handlers : pc[g] # "idle" /\ pc[h] # "idle" => g = h
  BY DEF TypeOK, SerialInv
<1>b. n < Chunks => /\ Len(Upto(c, n)) = n /\ Len(Upto(c, n + 1)) = n + 1
                    /\ Append(Upto(c, n), [from |-> c, chunk |-> n]) = Upto(c, n + 1)
  BY <1>a, UptoGrows
<1>c. n < Chunks => Len(file) \in {n, n + 1} /\ Len(file) <= Chunks
  BY <1>a, <1>b DEF ExactInv
<1>1. ASSUME NEW d \in Clients, NEW h \in Handlers, Send(d, h) \/ Retry(d, h), Serial, Prompt
      PROVE ExactInv(c)'
  <2>1. d = c
    BY <1>1, OwnRequest
  <2>2. \A g \in Handlers : pc[g] = "idle"
    <3>1. CASE Send(c, h)
      BY <1>a, <3>1 DEF Send
    <3>2. CASE Retry(c, h)
      <4>1. retries'[c] > retries[c]
        BY <3>2 DEF Retry, TypeOK
      <4>2. QED
        BY <1>1, <1>a, <4>1 DEF Serial, Busy
    <3>3. QED
      BY <1>1, <2>1, <3>1, <3>2
  <2>3. /\ pc' = [pc EXCEPT ![h] = "look"] /\ listen' = [listen EXCEPT ![c] = h]
        /\ UNCHANGED <<file, events, tmp, index, next>>
    BY <1>1, <2>1 DEF Send, Retry, Request
  <2>4. n < Chunks /\ (Len(file) = Chunks => index # NoRow)
    <3>1. CASE Send(c, h)
      <4>1. n < Chunks /\ file = Upto(c, n)
        BY <3>1 DEF Send, ExactInv
      <4>2. QED
        BY <1>a, <1>b, <4>1
    <3>2. CASE Retry(c, h)
      <4>1. retries'[c] > retries[c] /\ n < Chunks
        BY <3>2 DEF Retry, TypeOK
      <4>2. n + 1 < Chunks \/ index # NoRow
        BY <1>1, <4>1 DEF Prompt
      <4>3. QED
        BY <1>a, <1>c, <4>1, <4>2
    <3>3. QED
      BY <1>1, <2>1, <3>1, <3>2
  <2>5. Counts(Len(file))'
    BY <2>2, <2>3 DEF ExactInv, Counts
  <2>6. \A g \in Handlers : pc'[g] \in {"idle", "look"}
    BY <1>a, <2>2, <2>3
  <2>7. listen'[c] # NoHandler
    BY <1>a, <2>3
  <2>8. QED
    BY <2>3, <2>4, <2>5, <2>6, <2>7 DEF ExactInv
<1>2. ASSUME NEW h \in Handlers, uploadfile(h) PROVE ExactInv(c)'
  <2>a. /\ pc[h] # "idle" /\ \A g \in Handlers \ {h} : pc[g] = "idle"
        /\ n < Chunks /\ req[h] = [from |-> c, chunk |-> n] /\ listen[c] = h
        /\ \A g \in Handlers \ {h} : pc'[g] = "idle"
    <3>1. pc[h] # "idle"
      BY <1>2 DEF uploadfile, Look, LookTmp, Touch, Decide, AppendChunk, Record, Reply, ReplyLost
    <3>2. \A g \in Handlers \ {h} : pc'[g] = pc[g]
      BY <1>2, <1>a DEF uploadfile, Look, LookTmp, Touch, Decide, AppendChunk, Record, Reply, ReplyLost
    <3>3. QED
      BY <1>a, <3>1, <3>2
  <2>1. CASE Look(h)
    <3>1. /\ pc'[h] = IF index # NoRow THEN "looktmp" ELSE "decide"
          /\ UNCHANGED <<file, events, tmp, index, next, listen>>
      BY <1>a, <2>1 DEF Look
    <3>2. Counts(Len(file)) /\ (Len(file) = Chunks => index # NoRow)
      BY <2>a, <2>1 DEF Look, ExactInv
    <3>3. Counts(Len(file))'
      BY <3>1, <3>2 DEF Counts
    <3>4. QED
      BY <2>a, <3>1, <3>2, <3>3 DEF ExactInv
  <2>t. CASE LookTmp(h)
    <3>1. /\ pc'[h] = IF tmp = {} THEN "touch" ELSE "decide"
          /\ UNCHANGED <<file, events, tmp, index, next, listen>>
      BY <1>a, <2>t DEF LookTmp
    <3>2. Counts(Len(file)) /\ file # <<>>
      BY <2>a, <2>t DEF LookTmp, ExactInv, SerialInv
    <3>3. pc'[h] = "touch" => file = Upto(c, n + 1)
      <4>1. SUFFICES ASSUME tmp = {} PROVE file = Upto(c, n + 1)
        BY <3>1
      <4>2. Len(file) = Chunks
        BY <3>2, <4>1 DEF Counts, TypeOK
      <4>3. file # Upto(c, n)
        BY <1>a, <1>b, <2>a, <4>2
      <4>4. QED
        BY <4>3 DEF ExactInv
    <3>4. pc'[h] = "decide" => Len(file) # Chunks
      BY <3>1, <3>2 DEF Counts
    <3>5. Counts(Len(file))'
      BY <3>1, <3>2 DEF Counts
    <3>6. QED
      BY <2>a, <3>1, <3>3, <3>4, <3>5 DEF ExactInv
  <2>2. CASE Touch(h)
    <3>1. /\ pc'[h] = "reply" /\ UNCHANGED <<file, events, tmp, next, listen>>
          /\ file = Upto(c, n + 1) /\ Counts(Len(file))
      BY <1>a, <2>a, <2>2 DEF Touch, ExactInv
    <3>2. Counts(Len(file))'
      BY <3>1 DEF Counts
    <3>3. QED
      BY <1>a, <2>a, <3>1, <3>2 DEF ExactInv
  <2>3. CASE Decide(h)
    <3>1. /\ Counts(Len(file)) /\ Len(file) # Chunks
          /\ UNCHANGED <<file, events, tmp, index, next, listen>>
          /\ pc'[h] = IF tmp # {} /\ Known(n, First(tmp)) THEN "reply" ELSE "append"
      BY <1>a, <2>a, <2>3 DEF Decide, ExactInv
    <3>2. tmp # {} => First(tmp).count = Len(file) - 1
      <4>1. ASSUME tmp # {} PROVE First(tmp).count = Len(file) - 1
        <5>1. PICK t \in tmp : tmp = {t} /\ t.count = Len(file) - 1
          BY <3>1, <4>1 DEF Counts
        <5>2. First({t}) = t
          BY <5>1, OneRow DEF TypeOK, Rows
        <5>3. QED
          BY <5>1, <5>2
      <4>2. QED
        BY <4>1
    <3>3. pc'[h] = "reply" => file = Upto(c, n + 1)
      <4>1. SUFFICES ASSUME tmp # {}, Known(n, First(tmp)) PROVE file = Upto(c, n + 1)
        BY <3>1
      <4>2. n <= Len(file) - 1
        BY <3>2, <4>1 DEF Known
      <4>3. file # Upto(c, n)
        BY <1>a, <1>b, <2>a, <4>2
      <4>4. QED
        BY <4>3 DEF ExactInv
    <3>4. pc'[h] = "append" => file = Upto(c, n)
      <4>1. SUFFICES ASSUME ~(tmp # {} /\ Known(n, First(tmp))), file = Upto(c, n + 1)
                     PROVE  FALSE
        BY <3>1 DEF ExactInv
      <4>2. Len(file) = n + 1 /\ n + 1 < Chunks
        BY <1>a, <1>b, <2>a, <3>1, <4>1
      <4>3. tmp # {}
        BY <1>a, <3>1, <4>2 DEF Counts
      <4>4. First(tmp).count = n
        BY <1>a, <3>2, <4>2, <4>3
      <4>5. QED
        BY <1>a, <4>1, <4>2, <4>3, <4>4 DEF Known
    <3>5. Counts(Len(file))'
      BY <3>1 DEF Counts
    <3>6. QED
      BY <2>a, <3>1, <3>3, <3>4, <3>5 DEF ExactInv
  <2>4. CASE AppendChunk(h)
    <3>1. /\ file = Upto(c, n) /\ Counts(n)
          /\ tmp = IF row[h] = NoRow THEN {} ELSE {row[h]}
      BY <1>b, <2>a, <2>4 DEF AppendChunk, ExactInv, SerialInv
    <3>2. file' = Upto(c, n + 1) /\ Len(file') = n + 1
      BY <1>b, <2>a, <2>4, <3>1 DEF AppendChunk
    <3>3. /\ UNCHANGED <<tmp, next, listen>>
          /\ pc'[h] = IF row[h] = NoRow /\ Chunks = 1 THEN "reply" ELSE "record"
      BY <1>a, <2>4 DEF AppendChunk
    <3>4. \A i \in 1 .. Len(events') : events'[i] = "close"
      <4>1. events' \in {events, Append(events, "close")}
        BY <2>4 DEF AppendChunk, Notify
      <4>2. /\ Len(events) \in Nat /\ Append(events, "close")[Len(events) + 1] = "close"
            /\ Append(events, "close") \in [1 .. Len(events) + 1 -> {"close", "delete"}]
            /\ \A i \in 1 .. Len(events) : Append(events, "close")[i] = events[i]
        <5>1. events \in Seq({"close", "delete"}) /\ "close" \in {"close", "delete"}
          BY DEF TypeOK
        <5>2. QED
          BY <5>1, AppendIs, LenProperties
      <4>3. Len(Append(events, "close")) = Len(events) + 1
        BY <4>2 DEF TypeOK
      <4>4. \A i \in 1 .. Len(events) + 1 : i \in 1 .. Len(events) \/ i = Len(events) + 1
        BY <4>2
      <4>5. QED
        BY <4>1, <4>2, <4>3, <4>4 DEF ExactInv
    <3>5. Counts(n)'
      BY <3>1, <3>3 DEF Counts
    <3>6. pc'[h] = "reply" => Counts(Len(file))'
      BY <1>a, <2>a, <3>1, <3>2, <3>3 DEF Counts
    <3>7. QED
      BY <1>a, <2>a, <3>2, <3>3, <3>4, <3>5, <3>6 DEF ExactInv
  <2>5. CASE Record(h)
    <3>1. /\ file = Upto(c, n + 1) /\ Counts(n)
          /\ tmp = IF row[h] = NoRow THEN {} ELSE {row[h]}
          /\ row[h] # NoRow \/ Chunks > 1
      BY <2>a, <2>5 DEF Record, ExactInv, SerialInv, TypeOK
    <3>2. /\ tmp' = Recorded(n, row[h]) /\ pc'[h] = "reply"
          /\ UNCHANGED <<file, events, index, next, listen>>
      BY <1>a, <2>a, <2>5 DEF Record
    <3>3. Len(file) = n + 1
      BY <1>b, <2>a, <3>1
    <3>4. Counts(n + 1)'
      <4>1. CASE row[h] = NoRow
        <5>1. n = 0 /\ n + 1 # Chunks
          BY <1>a, <2>a, <3>1, <4>1 DEF Counts
        <5>2. tmp' = {[id |-> nextId, count |-> 0]}
          BY <3>1, <3>2, <4>1 DEF Recorded
        <5>3. QED
          <6>1. [id |-> nextId, count |-> 0].count = next'[c] + 1 - 1
            BY <3>2, <5>1
          <6>2. next'[c] + 1 = 1 /\ Chunks # 1
            BY <1>a, <3>2, <5>1
          <6>3. QED
            BY <5>2, <6>1, <6>2 DEF Counts
      <4>2. CASE row[h] # NoRow /\ n + 1 < Chunks
        <5>1. tmp' = {[id |-> row[h].id, count |-> n]}
          BY <3>1, <3>2, <4>2 DEF Recorded
        <5>2. QED
          BY <3>2, <1>a, <4>2, <5>1 DEF Counts
      <4>3. CASE row[h] # NoRow /\ ~(n + 1 < Chunks)
        <5>1. tmp' = {}
          BY <3>1, <3>2, <4>3 DEF Recorded
        <5>2. QED
          BY <3>2, <1>a, <2>a, <4>3, <5>1 DEF Counts
      <4>4. QED
        BY <4>1, <4>2, <4>3
    <3>5. Counts(Len(file))'
      BY <3>2, <3>3, <3>4 DEF Counts
    <3>6. QED
      BY <1>a, <2>a, <3>1, <3>2, <3>5 DEF ExactInv
  <2>6. CASE Reply(h)
    <3>1. /\ file = Upto(c, n + 1) /\ Counts(Len(file)) /\ next'[c] = n + 1
          /\ pc'[h] = "idle" /\ UNCHANGED <<file, events, tmp>>
      BY <1>a, <2>a, <2>6 DEF Reply, ExactInv
    <3>2. Counts(Len(file))'
      BY <3>1 DEF Counts
    <3>3. QED
      BY <2>a, <3>1, <3>2 DEF ExactInv
  <2>7. CASE ReplyLost(h)
    <3>1. /\ file = Upto(c, n + 1) /\ Counts(Len(file))
          /\ pc'[h] = "idle" /\ UNCHANGED <<file, events, tmp, index, next, listen>>
      BY <1>a, <2>a, <2>7 DEF ReplyLost, ExactInv
    <3>2. Counts(Len(file))'
      BY <3>1 DEF Counts
    <3>3. QED
      BY <1>a, <2>a, <3>1, <3>2 DEF ExactInv
  <2>8. QED
    BY <1>2, <2>1, <2>t, <2>2, <2>3, <2>4, <2>5, <2>6, <2>7 DEF uploadfile
<1>3. CASE autosyncdb
  <2>1. UNCHANGED <<file, tmp, pc, next, listen>>
    BY <1>3 DEF autosyncdb, CloseWrite, Open, Select, Insert, process_IN_DELETE
  <2>2. ~process_IN_DELETE
    <3>1. SUFFICES ASSUME process_IN_DELETE PROVE FALSE
      OBVIOUS
    <3>2. events # <<>> /\ Head(events) = "delete"
      BY <3>1 DEF process_IN_DELETE
    <3>3. Len(events) \in Nat /\ Len(events) >= 1 /\ events[1] = "delete"
      BY <3>2, TailIs DEF TypeOK
    <3>4. events[1] = "close"
      BY <3>3 DEF ExactInv
    <3>5. QED
      BY <3>3, <3>4
  <2>3. index # NoRow => index' # NoRow
    BY <1>3, <2>2 DEF autosyncdb, CloseWrite, Open, Select, Insert
  <2>4. \A i \in 1 .. Len(events') : events'[i] = "close"
    <3>1. events' = events \/ events' = <<>> \/ (events # <<>> /\ events' = Tail(events))
      BY <1>3 DEF autosyncdb, CloseWrite, Open, Select, Insert, process_IN_DELETE
    <3>2. CASE events' = events
      BY <3>2 DEF ExactInv
    <3>3. CASE events # <<>> /\ events' = Tail(events)
      <4>1. /\ Len(events) \in Nat /\ Len(events') = Len(events) - 1
            /\ \A i \in 1 .. Len(events) - 1 : events'[i] = events[i + 1]
        BY <3>3, TailIs DEF TypeOK
      <4>2. \A i \in 1 .. Len(events) - 1 : i + 1 \in 1 .. Len(events)
        BY <4>1
      <4>3. QED
        BY <4>1, <4>2 DEF ExactInv
    <3>4. CASE events' = <<>>
      BY <3>4
    <3>5. QED
      BY <3>1, <3>2, <3>3, <3>4
  <2>5. \A k \in Nat : UNCHANGED Counts(k)
    BY <2>1 DEF Counts
  <2>6. QED
    BY <1>a, <2>1, <2>3, <2>4, <2>5 DEF ExactInv, TypeOK
<1>4. CASE Delete \/ Restart
  BY <1>4 DEF Delete, Restart, TypeOK, Undisturbed
<1>5. CASE UNCHANGED vars
  BY <1>5 DEF vars, ExactInv, Counts
<1>6. QED
  BY <1>1, <1>2, <1>3, <1>4, <1>5 DEF PromptNext, SerialNext, Next

ExactScenes == \A c \in Clients : Undisturbed(c) => ExactInv(c)

LEMMA ExactAlways == PromptSpec => []ExactScenes
<1>1. Init => ExactScenes
  BY UploadAssumption DEF Init, ExactInv, ExactScenes, Upto, Counts
<1>2. TypeOK /\ SerialScenes /\ ExactScenes /\ [PromptNext]_vars => ExactScenes'
  <2> SUFFICES ASSUME TypeOK, SerialScenes, ExactScenes, [PromptNext]_vars,
                      NEW c \in Clients, Undisturbed(c)'
               PROVE  ExactInv(c)'
    BY DEF ExactScenes
  <2>1. [Next]_vars
    BY DEF PromptNext, SerialNext
  <2>2. Undisturbed(c)
    BY <2>1, Undone
  <2>3. QED
    BY <2>2, ExactKept DEF ExactScenes, SerialScenes
<1>3. [PromptNext]_vars => [SerialNext]_vars
  BY DEF PromptNext
<1>4. QED
  BY <1>1, <1>2, <1>3, SerialAlways, SerialIsSpec, TypeCorrect, PTL DEF PromptSpec, SerialSpec

\* A file that one client uploads to a fresh path, whatever answers are lost, is that
\* file, chunk after chunk, when the client reports it as uploaded (uploadfile,
\* views.py:3547-3732), for any number of chunks, clients and request threads.
THEOREM ExactlyUploaded == PromptSpec => []UploadedIsExact
<1>1. ExactScenes => UploadedIsExact
  <2> SUFFICES ASSUME ExactScenes, NEW c \in Clients, next[c] = Chunks, Undisturbed(c)
               PROVE  file = Upto(c, Chunks)
    BY DEF UploadedIsExact, Upto
  <2>1. ExactInv(c)
    BY DEF ExactScenes
  <2>2. ~(next[c] < Chunks)
    BY UploadAssumption
  <2>3. QED
    BY <2>1, <2>2 DEF ExactInv
<1>2. QED
  BY <1>1, ExactAlways, PTL

\* And Tmpfileinfo is empty again: the next upload of the name starts afresh
\* (views.py:3600-3612, 3655-3663).
THEOREM NothingLeftOver == PromptSpec => []NoLeftover
<1>1. TypeOK /\ SerialScenes /\ ExactScenes => NoLeftover
  <2> SUFFICES ASSUME TypeOK, SerialScenes, ExactScenes,
                      NEW c \in Clients, next[c] = Chunks, Undisturbed(c)
               PROVE  tmp = {}
    BY DEF NoLeftover
  <2>1. SerialInv(c) /\ ExactInv(c)
    BY DEF ExactScenes, SerialScenes
  <2>2. ~(next[c] < Chunks)
    BY UploadAssumption
  <2>3. \A h \in Handlers : pc[h] # "record"
    BY ZenonT(40), <2>1, <2>2, UploadAssumption DEF SerialInv, TypeOK
  <2>4. file = Upto(c, Chunks) /\ Counts(Len(file))
    BY <2>1, <2>2, <2>3 DEF ExactInv
  <2>5. Len(file) = Chunks
    <3>1. Chunks - 1 \in 0 .. Chunks - 1 /\ Chunks - 1 + 1 = Chunks
      BY UploadAssumption
    <3>2. QED
      BY <2>4, <3>1, UptoGrows
  <2>6. QED
    BY <2>4, <2>5 DEF Counts
<1>2. [PromptNext]_vars => [SerialNext]_vars
  BY DEF PromptNext
<1>3. QED
  BY <1>1, <1>2, ExactAlways, SerialAlways, SerialIsSpec, TypeCorrect, PTL
     DEF PromptSpec, SerialSpec

=============================================================================
