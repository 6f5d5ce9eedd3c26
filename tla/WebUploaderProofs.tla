------------------------- MODULE WebUploaderProofs -------------------------
(* What TLAPS proves of WebUploader, for every value of the constants: any *)
(* files, any numbers of blocks, of requests at a time and of retries.     *)
EXTENDS WebUploader, FiniteSetTheorems, WellFoundedInduction, TLAPS

-----------------------------------------------------------------------------
(* Blocks and their counts *)

LEMMA BlocksOfFiles ==
  /\ \A b \in Blocks : b[1] \in Files /\ b \in Of(b[1])
  /\ \A f \in Files : \A b \in Of(f) : b \in Blocks /\ b[1] = f
BY DEF Blocks, Of

\* The first n blocks of a file.
LEMMA FirstOf ==
  ASSUME NEW f, NEW n \in Nat
  PROVE  IsFiniteSet({f} \X (0 .. n - 1)) /\ Cardinality({f} \X (0 .. n - 1)) = n
<1> DEFINE m == n - 1
           N == 0 .. m
<1>1. IsFiniteSet(N) /\ Cardinality(N) = n
  <2>1. m \in Int /\ 0 \in Int /\ n = m + 1
    OBVIOUS
  <2> HIDE DEF m
  <2>2. Cardinality(0 .. m) = IF 0 > m THEN 0 ELSE m - 0 + 1
    BY <2>1, FS_Interval
  <2>3. IsFiniteSet(0 .. m)
    BY <2>1, FS_Interval
  <2>4. QED
    BY <2>1, <2>2, <2>3
<1> HIDE DEF N
<1>2. IsFiniteSet({f}) /\ Cardinality({f}) = 1
  BY FS_Singleton
<1>3. IsFiniteSet({f} \X N) /\ Cardinality({f} \X N) = 1 * n
  BY <1>1, <1>2, FS_Product
<1>4. QED
  BY <1>3 DEF N

LEMMA FinitelyMany ==
  /\ IsFiniteSet(Blocks)
  /\ \A f \in Files : IsFiniteSet(Of(f)) /\ Cardinality(Of(f)) = Chunks[f]
<1>1. ASSUME NEW f \in Files PROVE IsFiniteSet(Of(f)) /\ Cardinality(Of(f)) = Chunks[f]
  <2>1. Chunks[f] \in Nat
    BY SenderAssumption
  <2>2. QED
    BY <2>1, FirstOf DEF Of
<1>2. IsFiniteSet({Of(f) : f \in Files})
  <2> DEFINE S == {Of(f) : f \in Files}
             F == [f \in Files |-> Of(f)]
  <2>1. F \in Surjection(Files, S)
    BY DEF Surjection
  <2>2. QED
    BY <2>1, SenderAssumption, FS_Surjection
<1>3. IsFiniteSet(Blocks)
  BY <1>1, <1>2, FS_UNION DEF Blocks
<1>4. QED
  BY <1>1, <1>3

-----------------------------------------------------------------------------
(* The inductive invariant *)

SendingCounts == sending = Cardinality(Pool)

\* A file has blocks from the moment it is cut.
CutBlocks ==
  \A b \in Blocks : block[b] = "none" <=>
    status[b[1]] \in {"none", "inited", "queued"} \/ promise = b[1]

RemaningCounts ==
  \A f \in Files : status[f] \in {"progress", "interrupt"} /\ promise # f =>
    remaning[f] = Cardinality(Unfinished(f)) /\ remaning[f] > 0

\* Only the file that is being prepared is ever interrupted.
InterruptedWaits ==
  /\ \A b \in Blocks : status[b[1]] = "interrupt" => block[b] \in {"none", "left"}
  /\ runing => \A f \in Files : status[f] # "interrupt"

PreparedOne ==
  promise \in Files =>
    status[promise] \in {"progress", "interrupt"} /\ Cardinality(Pool) < threads

GoneIsAnswered ==
  \A b \in Blocks : block[b] = "gone" /\ status[b[1]] = "progress" => b \in acked

\* after-send-file is asked for once, of the last block.
ClosingIsLast ==
  \A b \in Blocks : block[b] = "closing" =>
    b \in acked /\ \A c \in Of(b[1]) : c # b => block[c] = "gone"

IInv ==
  /\ TypeOK /\ SendingCounts /\ CutBlocks /\ RemaningCounts /\ InterruptedWaits
  /\ PreparedOne /\ GoneIsAnswered /\ ClosingIsLast /\ EndedIsIdle
  /\ ReportedIsAnswered /\ NeverStuck

LEMMA Counts ==
  /\ IsFiniteSet(Pool) /\ Cardinality(Pool) \in Nat
  /\ \A f \in Files : IsFiniteSet(Unfinished(f)) /\ Cardinality(Unfinished(f)) \in Nat
<1>1. Pool \in SUBSET Blocks
  BY DEF Pool
<1>2. \A f \in Files : Unfinished(f) \in SUBSET Of(f)
  BY DEF Unfinished
<1>3. IsFiniteSet(Pool)
  BY <1>1, FinitelyMany, FS_Subset
<1>4. \A f \in Files : IsFiniteSet(Unfinished(f))
  BY <1>2, FinitelyMany, FS_Subset
<1>5. QED
  BY <1>3, <1>4, FS_CardinalityType

\* What one block that changes its state does to the pool.
LEMMA PoolMoves ==
  ASSUME TypeOK, NEW b \in Blocks, NEW st, Put(b, st)
  PROVE  /\ b \in Pool /\ st \in {"hook", "sent", "closing"} => Pool' = Pool
         /\ b \notin Pool /\ st \in {"hook", "sent", "closing"} =>
              Cardinality(Pool)' = Cardinality(Pool) + 1
         /\ b \in Pool /\ st \notin {"hook", "sent", "closing"} =>
              Cardinality(Pool)' = Cardinality(Pool) - 1
<1>1. \A c \in Blocks : block'[c] = IF c = b THEN st ELSE block[c]
  BY DEF Put, TypeOK
<1>2. CASE st \in {"hook", "sent", "closing"}
  <2>1. Pool' = Pool \cup {b}
    BY <1>1, <1>2 DEF Pool
  <2>2. b \in Pool => Pool' = Pool
    BY <2>1
  <2>3. b \notin Pool => Cardinality(Pool') = Cardinality(Pool) + 1
    BY <2>1, Counts, FS_AddElement
  <2>4. QED
    BY <1>2, <2>2, <2>3
<1>3. CASE st \notin {"hook", "sent", "closing"}
  <2>1. Pool' = Pool \ {b}
    BY <1>1, <1>3 DEF Pool
  <2>2. b \in Pool => Cardinality(Pool') = Cardinality(Pool) - 1
    BY <2>1, Counts, FS_RemoveElement
  <2>3. QED
    BY <1>3, <2>2
<1>4. QED
  BY <1>2, <1>3

LEMMA UnfinishedMoves ==
  ASSUME TypeOK, NEW b \in Blocks, NEW st, Put(b, st), block[b] # "gone"
  PROVE  /\ \A f \in Files : f # b[1] \/ st # "gone" => Unfinished(f)' = Unfinished(f)
         /\ st = "gone" =>
              Cardinality(Unfinished(b[1]))' = Cardinality(Unfinished(b[1])) - 1
<1>1. \A c \in Blocks : block'[c] = IF c = b THEN st ELSE block[c]
  BY DEF Put, TypeOK
<1>2. ASSUME NEW f \in Files, f # b[1] \/ st # "gone"
      PROVE  Unfinished(f)' = Unfinished(f)
  <2>1. \A c \in Of(f) : block'[c] # "gone" <=> block[c] # "gone"
    BY <1>1, <1>2, BlocksOfFiles
  <2>2. QED
    BY <2>1 DEF Unfinished, Of
<1>3. ASSUME st = "gone"
      PROVE  Cardinality(Unfinished(b[1]))' = Cardinality(Unfinished(b[1])) - 1
  <2> DEFINE f == b[1]
  <2>1. f \in Files /\ b \in Of(f) /\ \A c \in Of(f) : c \in Blocks
    BY BlocksOfFiles
  <2>2. b \in Unfinished(f)
    BY <2>1 DEF Unfinished
  <2>3. Unfinished(f)' = Unfinished(f) \ {b}
    BY <1>1, <1>3, <2>1 DEF Unfinished, Of
  <2>4. IsFiniteSet(Unfinished(f))
    BY <2>1, Counts
  <2> DEFINE U == Unfinished(f)
  <2>5. Cardinality(U \ {b}) = Cardinality(U) - 1
    <3> HIDE DEF U
    <3>1. b \in U /\ IsFiniteSet(U)
      BY <2>2, <2>4 DEF U
    <3>2. QED
      BY <3>1, FS_RemoveElement
  <2>6. QED
    BY <2>3, <2>5
<1>4. QED
  BY <1>2, <1>3

\* A file of which something is unfinished has a block that is left or in the pool.
LEMMA SomethingUnfinished ==
  ASSUME IInv, NEW f \in Files, status[f] = "progress", promise # f
  PROVE  \E b \in Of(f) : b \in Pool \/ b \in Left(f)
<1>1. Cardinality(Unfinished(f)) > 0
  BY DEF IInv, RemaningCounts
<1>2. Unfinished(f) # {}
  BY <1>1, FS_EmptySet
<1>3. PICK b \in Of(f) : block[b] # "gone"
  BY <1>2 DEF Unfinished
<1>4. b \in Blocks /\ b[1] = f
  BY BlocksOfFiles
<1>5. block[b] # "none" /\ block[b] \in States
  BY <1>4 DEF IInv, CutBlocks, TypeOK
<1>6. QED
  BY <1>3, <1>4, <1>5 DEF Pool, Left, States

LEMMA SameBlocks ==
  ASSUME UNCHANGED block
  PROVE  /\ Pool' = Pool
         /\ \A f \in Files : Unfinished(f)' = Unfinished(f) /\ Left(f)' = Left(f)
BY DEF Pool, Unfinished, Left

LEMMA Initially == Init => IInv
<1> SUFFICES ASSUME Init PROVE IInv
  OBVIOUS
<1> USE SenderAssumption DEF Init
<1>1. Pool = {} /\ Cardinality(Pool) = 0
  BY FS_EmptySet DEF Pool
<1>2. TypeOK
  <2>1. retried \in [Blocks -> 0 .. chunkRetry] /\ block \in [Blocks -> States]
    BY DEF States
  <2>2. QED
    BY <2>1 DEF TypeOK
<1>3. SendingCounts /\ CutBlocks /\ PreparedOne /\ NeverStuck
  BY <1>1, BlocksOfFiles DEF SendingCounts, CutBlocks, PreparedOne, NeverStuck, Is
<1>4. RemaningCounts /\ InterruptedWaits /\ GoneIsAnswered /\ ClosingIsLast
  BY DEF RemaningCounts, InterruptedWaits, GoneIsAnswered, ClosingIsLast
<1>5. EndedIsIdle /\ ReportedIsAnswered
  <2>1. threads \in Nat
    OBVIOUS
  <2>2. QED
    BY <1>1, <2>1 DEF EndedIsIdle, ReportedIsAnswered, Is
<1>6. QED
  BY <1>2, <1>3, <1>4, <1>5 DEF IInv

-----------------------------------------------------------------------------
(* Steps that leave the blocks alone *)

LEMMA UserKeeps == IInv /\ User => IInv'
<1> SUFFICES ASSUME IInv, User PROVE IInv'
  OBVIOUS
<1>1. /\ UNCHANGED <<block, retried, remaning, sending, promise, threads, acked>>
      /\ Pool' = Pool /\ \A f \in Files : Unfinished(f)' = Unfinished(f)
  BY SameBlocks DEF User, addFile, startUpload, startQueues, stopUpload, stopRefused,
     button, engine, blocks, Click
<1>2. TypeOK'
  <2> DEFINE Statuses == {"none", "inited", "queued", "progress", "interrupt", "complete",
                          "error"}
  <2>1. status \in [Files -> Statuses]
    BY DEF IInv, TypeOK
  <2>2. status' \in [Files -> Statuses]
    <3>1. CASE \E f \in Files : addFile(f)
      BY <2>1, <3>1 DEF addFile, SetStatus
    <3>2. CASE startUpload
      BY <2>1, <3>2 DEF startUpload
    <3>3. CASE startQueues
      BY <2>1, <3>3 DEF startQueues
    <3>4. CASE stopUpload
      BY <2>1, <3>4 DEF stopUpload
    <3>5. CASE stopRefused
      BY <2>1, <3>5 DEF stopRefused
    <3>6. QED
      BY <3>1, <3>2, <3>3, <3>4, <3>5 DEF User
  <2>3. page' \in {"pending", "uploading", "paused", "done"} /\ clicks' \in Nat /\ ticks' \in Nat
    BY DEF User, addFile, startUpload, startQueues, stopUpload, stopRefused, button,
       engine, Click, Rearm, nextTick, IInv, TypeOK
  <2>4. runing' \in BOOLEAN
    BY DEF User, addFile, startUpload, startQueues, stopUpload, stopRefused, engine, IInv, TypeOK
  <2>5. trigged' \in BOOLEAN
    BY DEF User, addFile, startUpload, startQueues, stopUpload, stopRefused, Rearm, engine,
       IInv, TypeOK
  <2>6. UNCHANGED finished
    BY DEF User, addFile, startUpload, startQueues, stopUpload, stopRefused
  <2>7. QED
    BY <1>1, <2>2, <2>3, <2>4, <2>5, <2>6 DEF IInv, TypeOK
<1>3. \A f \in Files :
        /\ status[f] \in {"none", "inited", "queued"} <=>
             status'[f] \in {"none", "inited", "queued"}
        /\ status[f] \in {"progress", "interrupt"} <=>
             status'[f] \in {"progress", "interrupt"}
        /\ status[f] = "complete" <=> status'[f] = "complete"
        /\ status'[f] = "interrupt" => status[f] = "interrupt" \/ promise = f
        /\ status'[f] = "progress" => status[f] \in {"progress", "interrupt"}
  BY DEF User, addFile, startUpload, startQueues, stopUpload, stopRefused, SetStatus, Is,
     IInv, TypeOK, PreparedOne
<1>4. SendingCounts' /\ CutBlocks' /\ RemaningCounts'
  BY <1>1, <1>3, BlocksOfFiles DEF IInv, SendingCounts, CutBlocks, RemaningCounts
<1>5. InterruptedWaits'
  <2>1. \A b \in Blocks : promise = b[1] => block[b] = "none"
    BY DEF IInv, CutBlocks
  <2>2. \A b \in Blocks : status'[b[1]] = "interrupt" => block'[b] \in {"none", "left"}
    BY <1>1, <1>3, <2>1, BlocksOfFiles DEF IInv, InterruptedWaits
  <2>3. runing' => \A f \in Files : status'[f] # "interrupt"
    BY DEF User, addFile, startUpload, startQueues, stopUpload, stopRefused, SetStatus, Is,
       IInv, TypeOK, InterruptedWaits, button, engine, Click
  <2>4. QED
    BY <2>2, <2>3 DEF InterruptedWaits
<1>6. PreparedOne' /\ GoneIsAnswered' /\ ClosingIsLast'
  <2>1. \A b \in Blocks : status[b[1]] = "interrupt" => block[b] # "gone"
    BY DEF IInv, InterruptedWaits
  <2>2. QED
    BY <1>1, <1>3, <2>1, BlocksOfFiles
       DEF IInv, PreparedOne, GoneIsAnswered, ClosingIsLast, TypeOK
<1>7. EndedIsIdle' /\ ReportedIsAnswered'
  <2>1. \A b \in Blocks : promise = b[1] => block[b] = "none"
    BY DEF IInv, CutBlocks
  <2>2. \A f \in Files : status[f] = "progress" =>
          status'[f] \in {"progress", "interrupt"} /\ (promise # f => status'[f] = "progress")
    BY DEF User, addFile, startUpload, startQueues, stopUpload, stopRefused, SetStatus, Is,
       IInv, TypeOK
  <2>3. QED
    BY <1>1, <1>3, <2>1, <2>2, BlocksOfFiles DEF IInv, EndedIsIdle, ReportedIsAnswered, Is
<1>8. NeverStuck'
  <2>1. CASE startUpload
    BY <2>1 DEF startUpload, nextTick, IInv, TypeOK, NeverStuck
  <2>2. CASE ~startUpload
    BY <1>1, <2>2 DEF User, addFile, startQueues, stopUpload, stopRefused, SetStatus, Is,
       IInv, TypeOK, NeverStuck, engine, Click
  <2>3. QED
    BY <2>1, <2>2
<1>9. QED
  BY <1>2, <1>4, <1>5, <1>6, <1>7, <1>8 DEF IInv

\* A tick that finds nothing to send: every file in progress is in the pool.
LEMMA NothingIsSentOn ==
  ASSUME IInv, Tick, NothingToSend, Pool = {}
  PROVE  /\ \A f \in Files : status[f] # "progress"
         /\ runing => \A f \in Files : status[f] # "queued"
<1>1. Room
  <2>1. threads \in Nat \ {0} /\ Cardinality(Pool) = 0
    BY SenderAssumption, FS_EmptySet DEF IInv, TypeOK
  <2>2. QED
    BY <2>1 DEF Room
<1>2. ASSUME NEW f \in Files, status[f] = "progress" PROVE FALSE
  <2>1. promise # f
    BY SenderAssumption DEF Tick
  <2>2. Left(f) # {}
    BY <1>2, <2>1, SomethingUnfinished
  <2>3. QED
    BY <1>1, <1>2, <2>2 DEF NothingToSend, Sendable
<1>3. QED
  BY <1>1, <1>2 DEF NothingToSend, Is

LEMMA IdleKeeps ==
  ASSUME IInv, TickFinish \/ TickIdle \/ uploadFinished \/ \E b \in Blocks : Retry(b)
  PROVE  IInv'
<1>1. /\ UNCHANGED <<block, remaning, sending, promise, threads, acked, status, clicks>>
      /\ Pool' = Pool /\ \A f \in Files : Unfinished(f)' = Unfinished(f)
  BY SameBlocks DEF TickFinish, TickIdle, uploadFinished, Retry, button, engine, blocks
<1>2. runing' => runing
  BY DEF TickFinish, TickIdle, uploadFinished, Retry, engine
<1>3. TypeOK'
  <2>1. page' \in {"pending", "uploading", "paused", "done"} /\ ticks' \in Nat
    BY DEF TickFinish, TickIdle, uploadFinished, Retry, button, Tick, IInv, TypeOK
  <2>2. runing' \in BOOLEAN /\ trigged' \in BOOLEAN
    BY DEF TickFinish, TickIdle, uploadFinished, Retry, engine, IInv, TypeOK
  <2>3. finished' \in BOOLEAN
    BY DEF TickFinish, TickIdle, uploadFinished, Retry, IInv, TypeOK
  <2>4. retried' \in [Blocks -> 0 .. chunkRetry]
    <3>1. CASE \E b \in Blocks : Retry(b)
      BY <3>1, SenderAssumption DEF Retry, IInv, TypeOK
    <3>2. CASE TickFinish \/ TickIdle \/ uploadFinished
      BY <3>2 DEF TickFinish, TickIdle, uploadFinished, blocks, IInv, TypeOK
    <3>3. QED
      BY <3>1, <3>2
  <2>5. QED
    BY <1>1, <2>1, <2>2, <2>3, <2>4 DEF IInv, TypeOK
<1>4. SendingCounts' /\ CutBlocks' /\ RemaningCounts' /\ InterruptedWaits'
  BY <1>1, <1>2 DEF IInv, SendingCounts, CutBlocks, RemaningCounts, InterruptedWaits
<1>5. PreparedOne' /\ GoneIsAnswered' /\ ClosingIsLast' /\ EndedIsIdle' /\ ReportedIsAnswered'
  BY <1>1 DEF IInv, PreparedOne, GoneIsAnswered, ClosingIsLast, EndedIsIdle,
     ReportedIsAnswered, Is
<1>6. NeverStuck'
  <2>1. CASE Pool # {} \/ promise # NoFile
    BY <1>1, <2>1 DEF NeverStuck
  <2>2. CASE Pool = {} /\ promise = NoFile /\ TickFinish
    BY <1>1, <2>2, NothingIsSentOn DEF TickFinish, NeverStuck, Is
  <2>3. CASE Pool = {} /\ promise = NoFile /\ TickIdle
    <3>1. sending = 0
      BY <2>3, FS_EmptySet DEF IInv, SendingCounts
    <3>2. ~runing
      BY <2>3, <3>1, NothingIsSentOn DEF TickIdle, AllOver, Is, IInv, InterruptedWaits
    <3>3. QED
      BY <1>1, <1>2, <2>3, <3>2, NothingIsSentOn DEF TickIdle, NeverStuck, Is
  <2>4. CASE Pool = {} /\ (uploadFinished \/ \E b \in Blocks : Retry(b))
    BY <1>1, <1>2, <2>4 DEF uploadFinished, Retry, NeverStuck, Is, IInv
  <2>5. QED
    BY <2>1, <2>2, <2>3, <2>4
<1>7. QED
  BY <1>3, <1>4, <1>5, <1>6 DEF IInv

LEMMA PrepareKeeps ==
  ASSUME IInv, NEW f \in Files, TickPrepare(f)
  PROVE  IInv'
<1>1. /\ UNCHANGED <<block, retried, remaning, sending, threads, acked, runing, button, finished>>
      /\ Pool' = Pool /\ \A g \in Files : Unfinished(g)' = Unfinished(g)
  BY SameBlocks DEF TickPrepare, blocks, button
<1>2. /\ promise' = f /\ f # NoFile /\ promise = NoFile /\ status[f] = "queued"
      /\ status' = [status EXCEPT ![f] = "progress"] /\ ticks' \in Nat
      /\ Cardinality(Pool) < threads /\ runing /\ trigged' = FALSE
  <2>1. f # NoFile /\ ticks' \in Nat
    BY SenderAssumption DEF TickPrepare, Tick, IInv, TypeOK
  <2>2. QED
    BY <2>1 DEF TickPrepare, Tick, Room, SetStatus, Is, Rearm
<1>3. \A g \in Files : status'[g] = IF g = f THEN "progress" ELSE status[g]
  BY <1>2 DEF IInv, TypeOK
<1>4. \A b \in Blocks : b[1] = f => block[b] = "none"
  BY <1>2 DEF IInv, CutBlocks
<1>5. TypeOK'
  BY <1>1, <1>2 DEF IInv, TypeOK, button
<1>6. SendingCounts' /\ CutBlocks' /\ RemaningCounts'
  <2>1. SendingCounts'
    BY <1>1 DEF IInv, SendingCounts
  <2>2. CutBlocks'
    <3>1. \A b \in Blocks : promise # b[1]
      BY <1>2, BlocksOfFiles, SenderAssumption
    <3>2. QED
      BY <1>1, <1>2, <1>3, <1>4, <3>1, BlocksOfFiles DEF IInv, CutBlocks
  <2>3. RemaningCounts'
    <3>1. \A g \in Files : promise # g
      BY <1>2, SenderAssumption
    <3>2. QED
      BY <1>1, <1>2, <1>3, <3>1 DEF IInv, RemaningCounts
  <2>4. QED
    BY <2>1, <2>2, <2>3
<1>7. InterruptedWaits' /\ PreparedOne'
  BY <1>1, <1>2, <1>3, BlocksOfFiles DEF IInv, InterruptedWaits, PreparedOne, button
<1>8. GoneIsAnswered' /\ ClosingIsLast' /\ ReportedIsAnswered'
  BY <1>1, <1>3, <1>4, BlocksOfFiles
     DEF IInv, GoneIsAnswered, ClosingIsLast, ReportedIsAnswered, Is
<1>9. EndedIsIdle' /\ NeverStuck'
  BY <1>1, <1>2, <1>3, <1>4, BlocksOfFiles DEF IInv, EndedIsIdle, NeverStuck, Is, button
<1>10. QED
  BY <1>5, <1>6, <1>7, <1>8, <1>9 DEF IInv

-----------------------------------------------------------------------------
(* Steps of a block *)

LEMMA FirstLeft ==
  ASSUME NEW f \in Files, Left(f) # {}
  PROVE  shift(f) \in Left(f) /\ \A c \in Left(f) : shift(f)[2] <= c[2]
<1> DEFINE Less == {ss \in Nat \X Nat : ss[1] < ss[2]}
           N == {b[2] : b \in Left(f)}
<1>1. IsWellFoundedOn(Less, Nat)
  BY NatLessThanWellFounded DEF OpToRel
<1>2. N # {} /\ N \subseteq Nat
  BY SenderAssumption DEF Left, Of
<1>3. PICK n \in N : \A m \in N : <<m, n>> \notin Less
  BY <1>1, <1>2, WFMin
<1>4. PICK b \in Left(f) : b[2] = n
  BY <1>3
<1>5. \A c \in Left(f) : b[2] <= c[2]
  <2>1. \A m \in N : m \in Nat /\ n \in Nat /\ ~(m < n)
    BY <1>2, <1>3
  <2>2. \A m \in N : n <= m
    BY <2>1
  <2>3. QED
    BY <1>4, <2>2
<1>6. QED
  BY <1>5 DEF shift

\* A block of a file in progress goes from one state to another, neither of them "none"
\* or "gone"; the first part of what such a step leaves true.
LEMMA BlockMoves ==
  ASSUME IInv, NEW b \in Blocks, NEW st \in {"hook", "sent", "closing"}, Put(b, st),
         block[b] \in {"left", "hook", "sent"}, status[b[1]] = "progress",
         UNCHANGED <<status, promise, runing, remaning, threads>>,
         acked \subseteq acked'
  PROVE  /\ block' \in [Blocks -> States]
         /\ \A c \in Blocks : block'[c] = IF c = b THEN st ELSE block[c]
         /\ CutBlocks' /\ RemaningCounts' /\ InterruptedWaits' /\ GoneIsAnswered'
         /\ \A c \in Blocks : block'[c] \in {"sent", "closing"} => status[c[1]] = "progress"
         /\ Pool' # {}
<1>1. \A c \in Blocks : block'[c] = IF c = b THEN st ELSE block[c]
  BY DEF Put, IInv, TypeOK
<1>2. block' \in [Blocks -> States]
  BY DEF Put, IInv, TypeOK, States
<1>3. CutBlocks'
  BY <1>1 DEF IInv, CutBlocks
<1>4. \A f \in Files : Unfinished(f)' = Unfinished(f)
  BY UnfinishedMoves DEF IInv
<1>5. RemaningCounts'
  BY <1>4 DEF IInv, RemaningCounts
<1>6. InterruptedWaits' /\ GoneIsAnswered'
  BY <1>1 DEF IInv, InterruptedWaits, GoneIsAnswered
<1>7. \A c \in Blocks : block'[c] \in {"sent", "closing"} => status[c[1]] = "progress"
  BY <1>1 DEF IInv, EndedIsIdle, Is
<1>8. Pool' # {}
  BY <1>1 DEF Pool
<1>9. QED
  BY <1>1, <1>2, <1>3, <1>5, <1>6, <1>7, <1>8

LEMMA SendKeeps ==
  ASSUME IInv, NEW f \in Files, TickSend(f)
  PROVE  IInv'
<1> DEFINE b == shift(f)
<1>1. b \in Left(f) /\ status[f] = "progress"
  BY FirstLeft DEF TickSend, Sendable
<1>2. b \in Blocks /\ b[1] = f /\ block[b] = "left"
  BY <1>1, BlocksOfFiles DEF Left
<1>3. /\ Put(b, "hook") /\ sending' = sending + 1 /\ promise = NoFile
      /\ Cardinality(Pool) < threads /\ trigged' = FALSE
      /\ UNCHANGED <<button, threads, status, runing, promise, retried, remaning, ticks,
                     finished, acked>>
  BY DEF TickSend, Tick, Room, button, Rearm
<1> HIDE DEF b
<1>4. Cardinality(Pool)' = Cardinality(Pool) + 1
  <2>1. b \notin Pool
    BY <1>2 DEF Pool
  <2>2. QED
    BY <1>2, <1>3, <2>1, PoolMoves DEF IInv
<1>5. /\ block' \in [Blocks -> States]
      /\ \A c \in Blocks : block'[c] = IF c = b THEN "hook" ELSE block[c]
      /\ CutBlocks' /\ RemaningCounts' /\ InterruptedWaits' /\ GoneIsAnswered'
      /\ \A c \in Blocks : block'[c] \in {"sent", "closing"} => status[c[1]] = "progress"
      /\ Pool' # {}
  BY <1>1, <1>2, <1>3, BlockMoves
<1>6. TypeOK'
  <2>1. trigged' \in BOOLEAN
    BY <1>3
  <2>2. sending \in Nat /\ sending' = sending + 1
    BY <1>3 DEF IInv, TypeOK
  <2>3. sending' \in Nat
    BY <2>2
  <2>4. QED
    BY <1>3, <1>5, <2>1, <2>3 DEF IInv, TypeOK, button
<1>7. SendingCounts' /\ PreparedOne' /\ NeverStuck'
  BY <1>3, <1>4, <1>5, SenderAssumption DEF IInv, SendingCounts, PreparedOne, NeverStuck
<1>8. ClosingIsLast' /\ ReportedIsAnswered'
  <2>1. \A c \in Blocks : block[c] = "closing" => c[1] # f
    BY <1>2, BlocksOfFiles DEF IInv, ClosingIsLast
  <2>2. \A c \in Blocks : block'[c] = "closing" =>
          block[c] = "closing" /\ \A d \in Of(c[1]) : block'[d] = block[d]
    BY <1>2, <1>5, <2>1, BlocksOfFiles
  <2>3. QED
    BY <1>3, <2>2 DEF IInv, ClosingIsLast, ReportedIsAnswered, Is
<1>9. EndedIsIdle'
  <2>1. Cardinality(Pool) \in Nat /\ threads \in Nat
    BY Counts, SenderAssumption DEF IInv, TypeOK
  <2>2. QED
    BY <1>3, <1>4, <1>5, <2>1 DEF EndedIsIdle, Is
<1>10. QED
  BY <1>5, <1>6, <1>7, <1>8, <1>9 DEF IInv

LEMMA DoSendKeeps ==
  ASSUME IInv, NEW b \in Blocks, doSend(b)
  PROVE  IInv'
<1>1. /\ Put(b, "sent") /\ block[b] = "hook" /\ status[b[1]] = "progress"
      /\ UNCHANGED <<button, threads, status, engine, retried, remaning, sending, ticks,
                     finished, acked>>
      /\ UNCHANGED <<runing, promise, trigged>>
  BY DEF doSend, Is, button, engine
<1>2. Pool' = Pool
  <2>1. b \in Pool
    BY <1>1 DEF Pool
  <2>2. QED
    BY <1>1, <2>1, PoolMoves DEF IInv
<1>3. /\ block' \in [Blocks -> States]
      /\ \A c \in Blocks : block'[c] = IF c = b THEN "sent" ELSE block[c]
      /\ CutBlocks' /\ RemaningCounts' /\ InterruptedWaits' /\ GoneIsAnswered'
      /\ \A c \in Blocks : block'[c] \in {"sent", "closing"} => status[c[1]] = "progress"
      /\ Pool' # {}
  BY <1>1, BlockMoves
<1>4. TypeOK'
  BY <1>1, <1>3 DEF IInv, TypeOK, button
<1>5. SendingCounts' /\ PreparedOne' /\ NeverStuck' /\ ReportedIsAnswered'
  BY <1>1, <1>2, <1>3
     DEF IInv, SendingCounts, PreparedOne, NeverStuck, ReportedIsAnswered, Is
<1>6. ClosingIsLast'
  <2>1. \A c \in Blocks : block[c] = "closing" => c[1] # b[1]
    BY <1>1, BlocksOfFiles DEF IInv, ClosingIsLast
  <2>2. QED
    BY <1>1, <1>3, <2>1, BlocksOfFiles DEF IInv, ClosingIsLast
<1>7. EndedIsIdle'
  BY <1>1, <1>2, <1>3 DEF IInv, EndedIsIdle, Is
<1>8. QED
  BY <1>3, <1>4, <1>5, <1>6, <1>7 DEF IInv

\* A block leaves the pool, answered, or of a file that is over.
LEMMA PopKeeps ==
  ASSUME IInv, NEW b \in Blocks, block[b] \in {"hook", "sent"},
         popBlock(b), acked \subseteq acked', acked' \subseteq Blocks,
         UNCHANGED <<button, threads, status, runing, promise, trigged, retried, finished>>,
         status[b[1]] = "progress" => b \in acked' /\ remaning[b[1]] # 1
  PROVE  IInv'
<1> DEFINE f == b[1]
<1>1. /\ f \in Files /\ b \in Of(f) /\ Put(b, "gone")
      /\ remaning' = [remaning EXCEPT ![f] = IF @ = 0 THEN 0 ELSE @ - 1]
      /\ sending' = sending - Cardinality({b}) /\ ticks' = ticks + Cardinality({b})
  BY BlocksOfFiles DEF popBlock, Popped, nextTick
<1>2. Cardinality({b}) = 1
  BY FS_Singleton
<1>3. \A c \in Blocks : block'[c] = IF c = b THEN "gone" ELSE block[c]
  BY <1>1 DEF Put, IInv, TypeOK
<1>4. Cardinality(Pool)' = Cardinality(Pool) - 1 /\ Cardinality(Pool)' \in Nat
  <2>1. b \in Pool
    BY DEF Pool
  <2>2. Cardinality(Pool)' = Cardinality(Pool) - 1
    BY <1>1, <2>1, PoolMoves DEF IInv
  <2>3. Pool' \in SUBSET Blocks
    BY DEF Pool
  <2>4. IsFiniteSet(Pool')
    BY <2>3, FinitelyMany, FS_Subset
  <2>5. QED
    BY <2>2, <2>4, FS_CardinalityType
<1>5. TypeOK'
  <2>1. block' \in [Blocks -> States]
    BY <1>1 DEF Put, IInv, TypeOK, States
  <2>2. remaning' \in [Files -> Nat]
    BY <1>1 DEF IInv, TypeOK
  <2>3. sending' \in Nat /\ ticks' \in Nat
    BY <1>1, <1>2, <1>4 DEF IInv, TypeOK, SendingCounts
  <2>4. QED
    BY <2>1, <2>2, <2>3 DEF IInv, TypeOK, button
<1>6. SendingCounts'
  BY <1>1, <1>2, <1>4 DEF IInv, SendingCounts
<1>7. CutBlocks' /\ InterruptedWaits' /\ GoneIsAnswered' /\ ClosingIsLast'
  BY <1>3, BlocksOfFiles
     DEF IInv, CutBlocks, InterruptedWaits, GoneIsAnswered, ClosingIsLast
<1>8. RemaningCounts'
  <2>1. ASSUME NEW g \in Files, status[g] \in {"progress", "interrupt"}, promise # g
        PROVE  remaning'[g] = Cardinality(Unfinished(g))' /\ remaning'[g] > 0
    <3>1. remaning[g] = Cardinality(Unfinished(g)) /\ remaning[g] > 0 /\ remaning[g] \in Nat
      BY <2>1 DEF IInv, RemaningCounts, TypeOK
    <3>2. CASE g # f
      <4>1. Unfinished(g)' = Unfinished(g)
        BY <1>1, <3>2, UnfinishedMoves DEF IInv
      <4>2. QED
        BY <1>1, <3>1, <3>2, <4>1 DEF IInv, TypeOK
    <3>3. CASE g = f
      <4>1. Cardinality(Unfinished(f))' = Cardinality(Unfinished(f)) - 1
        BY <1>1, UnfinishedMoves DEF IInv
      <4>2. status[f] = "progress" /\ remaning[f] # 1
        BY <2>1, <3>3 DEF IInv, InterruptedWaits
      <4>3. remaning'[f] = remaning[f] - 1
        BY <1>1, <3>1, <3>3 DEF IInv, TypeOK
      <4>4. QED
        BY <3>1, <3>3, <4>1, <4>2, <4>3
    <3>4. QED
      BY <3>2, <3>3
  <2>2. QED
    BY <2>1 DEF RemaningCounts
<1>9. PreparedOne' /\ EndedIsIdle'
  <2>1. Cardinality(Pool) \in Nat /\ threads \in Nat
    BY Counts, SenderAssumption DEF IInv, TypeOK
  <2>2. QED
    BY <1>3, <1>4, <2>1 DEF IInv, PreparedOne, EndedIsIdle, Is
<1>10. ReportedIsAnswered' /\ NeverStuck'
  BY <1>1, <1>2 DEF IInv, TypeOK, ReportedIsAnswered, NeverStuck, Is
<1>11. QED
  BY <1>5, <1>6, <1>7, <1>8, <1>9, <1>10 DEF IInv

LEMMA LoadKeeps ==
  ASSUME IInv, NEW b \in Blocks, load(b)
  PROVE  IInv'
<1> DEFINE f == b[1]
<1>1. /\ block[b] = "sent" /\ acked' = acked \cup {b} /\ f \in Files /\ b \in Of(f)
      /\ UNCHANGED <<button, threads, status, runing, promise, trigged, retried, finished>>
  BY BlocksOfFiles DEF load, button, engine
<1>2. status[f] = "progress" /\ promise # f
  BY <1>1 DEF IInv, EndedIsIdle, Is, CutBlocks
<1>3. CASE remaning[f] # 1
  BY <1>1, <1>3, PopKeeps DEF load, IsLast, IInv, TypeOK
<1>4. CASE remaning[f] = 1
  <2>1. Put(b, "closing") /\ UNCHANGED <<remaning, sending, ticks>>
    BY <1>4 DEF load, IsLast
  <2>2. Pool' = Pool
    <3>1. b \in Pool
      BY <1>1 DEF Pool
    <3>2. QED
      BY <2>1, <3>1, PoolMoves DEF IInv
  <2>3. /\ block' \in [Blocks -> States]
        /\ \A c \in Blocks : block'[c] = IF c = b THEN "closing" ELSE block[c]
        /\ CutBlocks' /\ RemaningCounts' /\ InterruptedWaits' /\ GoneIsAnswered'
        /\ \A c \in Blocks : block'[c] \in {"sent", "closing"} => status[c[1]] = "progress"
        /\ Pool' # {}
    BY <1>1, <1>2, <2>1, BlockMoves
  <2>4. TypeOK'
    BY <1>1, <2>1, <2>3 DEF IInv, TypeOK, button
  <2>5. SendingCounts' /\ PreparedOne' /\ NeverStuck' /\ ReportedIsAnswered'
    BY <1>1, <2>1, <2>2, <2>3
       DEF IInv, SendingCounts, PreparedOne, NeverStuck, ReportedIsAnswered, Is
  <2>6. \A c \in Of(f) : c # b => block[c] = "gone"
    <3>1. IsFiniteSet(Unfinished(f)) /\ Cardinality(Unfinished(f)) = 1 /\ b \in Unfinished(f)
      BY <1>1, <1>2, <1>4, Counts DEF IInv, RemaningCounts, Unfinished
    <3>2. Unfinished(f) = {b}
      BY <3>1, FS_Singleton
    <3>3. QED
      BY <3>2 DEF Unfinished
  <2>7. ClosingIsLast'
    BY <1>1, <2>3, <2>6, BlocksOfFiles DEF IInv, ClosingIsLast
  <2>8. EndedIsIdle'
    BY <1>1, <2>2, <2>3 DEF IInv, EndedIsIdle, Is
  <2>9. QED
    BY <2>3, <2>4, <2>5, <2>7, <2>8 DEF IInv
<1>5. QED
  BY <1>3, <1>4

LEMMA DontSendKeeps ==
  ASSUME IInv, NEW b \in Blocks, dontSend(b)
  PROVE  IInv'
BY PopKeeps DEF dontSend, button, engine, IInv, TypeOK, Is

\* A file ends: what is in the pool of it is aborted, what is left of it is dropped.
LEMMA EndKeeps ==
  ASSUME IInv, NEW b \in Blocks, block[b] \in {"sent", "closing"},
         NEW st \in {"error", "complete"}, SetStatus(b[1], st), uploadComplete(b[1]),
         UNCHANGED <<button, threads, runing, promise, trigged, retried, finished, acked>>,
         st = "complete" => Of(b[1]) \subseteq acked
  PROVE  IInv'
<1> DEFINE f == b[1]
           A == Aborted(f)
<1>1. /\ f \in Files /\ b \in Of(f) /\ status[f] = "progress" /\ promise # f
      /\ \A g \in Files : status'[g] = IF g = f THEN st ELSE status[g]
  BY BlocksOfFiles DEF IInv, EndedIsIdle, Is, CutBlocks, SetStatus, TypeOK
<1>2. \A c \in Blocks : block'[c] = IF c \in A \cup Left(f) THEN "gone" ELSE block[c]
  BY DEF uploadComplete
<1>3. \A c \in A : c \in Blocks /\ c[1] = f /\ block[c] \in {"sent", "closing"}
  BY <1>1, BlocksOfFiles DEF Aborted
<1>4. \A c \in Left(f) : c \in Blocks /\ c[1] = f /\ block[c] = "left"
  BY <1>1, BlocksOfFiles DEF Left
<1>5. b \in A /\ A \subseteq Pool /\ Pool' = Pool \ A /\ Pool \cap A = A
  <2>1. b \in A /\ A \subseteq Pool
    BY <1>1, <1>3 DEF Aborted, Pool
  <2>2. Pool' = Pool \ A
    BY <1>2, <1>3, <1>4 DEF Pool
  <2>3. QED
    BY <2>1, <2>2
<1>6. /\ sending' = sending - Cardinality(A) /\ ticks' = ticks + Cardinality(A)
      /\ remaning' = [remaning EXCEPT ![f] = 0]
  BY DEF uploadComplete, Popped, nextTick
<1>7. /\ Cardinality(A) \in Nat /\ Cardinality(A) > 0
      /\ Cardinality(Pool)' = Cardinality(Pool) - Cardinality(A)
      /\ Cardinality(Pool)' \in Nat
  <2> HIDE DEF A
  <2>1. IsFiniteSet(A) /\ IsFiniteSet(Pool')
    BY <1>5, Counts, FS_Subset, FS_Difference
  <2>2. Cardinality(A) \in Nat /\ Cardinality(Pool') \in Nat /\ Cardinality(Pool) \in Nat
    BY <2>1, Counts, FS_CardinalityType
  <2>3. Cardinality(A) # 0
    BY <1>5, <2>1, FS_EmptySet
  <2>4. Cardinality(Pool \ A) = Cardinality(Pool) - Cardinality(Pool \cap A)
    BY Counts, FS_Difference
  <2>5. QED
    BY <1>5, <2>2, <2>3, <2>4
<1>8. TypeOK'
  <2>1. block' \in [Blocks -> States]
    BY DEF uploadComplete, IInv, TypeOK, States
  <2>2. status' \in [Files -> {"none", "inited", "queued", "progress", "interrupt",
                              "complete", "error"}]
    BY DEF SetStatus, IInv, TypeOK
  <2>3. sending' \in Nat /\ ticks' \in Nat
    BY <1>6, <1>7 DEF IInv, TypeOK, SendingCounts
  <2>4. remaning' \in [Files -> Nat]
    BY <1>6 DEF IInv, TypeOK
  <2>5. QED
    BY <2>1, <2>2, <2>3, <2>4 DEF IInv, TypeOK, button
<1>9. SendingCounts'
  BY <1>6, <1>7 DEF IInv, SendingCounts
<1>10. CutBlocks' /\ InterruptedWaits' /\ GoneIsAnswered'
  BY <1>1, <1>2, <1>3, <1>4, BlocksOfFiles
     DEF IInv, CutBlocks, InterruptedWaits, GoneIsAnswered
<1>11. RemaningCounts'
  <2>1. ASSUME NEW g \in Files, g # f
        PROVE  Unfinished(g)' = Unfinished(g) /\ remaning'[g] = remaning[g]
    <3>1. \A c \in Of(g) : c \in Blocks /\ c[1] # f
      BY <2>1, BlocksOfFiles
    <3>2. \A c \in Of(g) : block'[c] = block[c]
      BY <1>2, <1>3, <1>4, <3>1
    <3>3. Unfinished(g)' = Unfinished(g)
      BY <3>2 DEF Unfinished
    <3>4. QED
      BY <1>6, <2>1, <3>3 DEF IInv, TypeOK
  <2>2. QED
    BY <1>1, <2>1 DEF IInv, RemaningCounts
<1>12. PreparedOne' /\ EndedIsIdle'
  <2>1. Cardinality(Pool) \in Nat /\ threads \in Nat
    BY Counts, SenderAssumption DEF IInv, TypeOK
  <2>2. Cardinality(Pool)' <= threads /\ (promise \in Files => Cardinality(Pool)' < threads)
    BY <1>7, <2>1 DEF IInv, PreparedOne, EndedIsIdle
  <2>3. \A c \in Blocks : block'[c] \in {"sent", "closing"} => status'[c[1]] = "progress"
    BY <1>1, <1>2, <1>3, BlocksOfFiles DEF IInv, EndedIsIdle, Is, Aborted
  <2>4. QED
    BY <1>1, <2>2, <2>3 DEF IInv, PreparedOne, EndedIsIdle, Is
<1>13. ClosingIsLast'
  <2>1. \A c \in Blocks : block'[c] = "closing" => c[1] # f /\ block[c] = "closing"
    BY <1>2, BlocksOfFiles DEF Aborted
  <2>2. QED
    BY <1>2, <2>1, BlocksOfFiles DEF IInv, ClosingIsLast
<1>14. ReportedIsAnswered' /\ NeverStuck'
  BY <1>1, <1>6, <1>7 DEF IInv, TypeOK, ReportedIsAnswered, NeverStuck, Is
<1>15. QED
  BY <1>8, <1>9, <1>10, <1>11, <1>12, <1>13, <1>14 DEF IInv

LEMMA ErrorKeeps ==
  ASSUME IInv, NEW b \in Blocks, error(b)
  PROVE  IInv'
BY EndKeeps DEF error, button, engine

LEMMA FinishKeeps ==
  ASSUME IInv, NEW b \in Blocks, finishFile(b)
  PROVE  IInv'
<1> DEFINE f == b[1]
<1>1. block[b] = "closing" /\ status[f] = "progress" /\ b \in acked
  BY DEF finishFile, IInv, EndedIsIdle, ClosingIsLast, Is
<1>2. \A c \in Of(f) : c # b => c \in Blocks /\ c[1] = f /\ block[c] = "gone"
  BY <1>1, BlocksOfFiles DEF IInv, ClosingIsLast
<1>3. Of(f) \subseteq acked
  BY <1>1, <1>2 DEF IInv, GoneIsAnswered
<1>4. QED
  BY <1>1, <1>3, EndKeeps DEF finishFile, button, engine

\* The prepared file is cut.
LEMMA CutKeeps ==
  ASSUME IInv, NEW f \in Files, CuteFile(f)
  PROVE  IInv'
<1> DEFINE b == <<f, 0>>
           going == status[f] = "progress"
<1>1. /\ promise = f /\ promise' = NoFile /\ f # NoFile
      /\ remaning' = [remaning EXCEPT ![f] = Chunks[f]]
      /\ sending' = (IF going THEN sending + 1 ELSE sending)
      /\ ticks' = ticks + 1
      /\ UNCHANGED <<button, threads, status, runing, trigged, retried, finished, acked>>
  BY SenderAssumption DEF CuteFile, Count, nextTick, Is, button
<1>2. b \in Of(f) /\ b \in Blocks /\ Chunks[f] \in Nat \ {0}
  BY SenderAssumption, BlocksOfFiles DEF Of
<1>3. \A c \in Blocks : c[1] = f => block[c] = "none"
  BY <1>1 DEF IInv, CutBlocks
<1>4. /\ \A c \in Blocks : c[1] # f => block'[c] = block[c]
      /\ \A c \in Blocks : c[1] = f => block'[c] = IF c = b /\ going THEN "hook" ELSE "left"
  <2>1. \A c \in Blocks : c[1] = f => (c[2] = 0 <=> c = b)
    BY DEF Blocks, Of
  <2>2. QED
    BY <2>1 DEF CuteFile, Is
<1>5. status[f] \in {"progress", "interrupt"} /\ Cardinality(Pool) < threads
  BY <1>1 DEF IInv, PreparedOne
<1>6. Cardinality(Pool)' = (IF going THEN Cardinality(Pool) + 1 ELSE Cardinality(Pool))
  <2>1. CASE going
    <3>1. Pool' = Pool \cup {b} /\ b \notin Pool
      BY <1>2, <1>3, <1>4, <2>1 DEF Pool
    <3>2. Cardinality(Pool \cup {b}) = Cardinality(Pool) + 1
      BY <3>1, Counts, FS_AddElement
    <3>3. QED
      BY <2>1, <3>1, <3>2
  <2>2. CASE ~going
    <3>1. Pool' = Pool
      BY <1>3, <1>4, <2>2 DEF Pool
    <3>2. QED
      BY <2>2, <3>1
  <2>3. QED
    BY <2>1, <2>2
<1>7. TypeOK'
  <2>1. block' \in [Blocks -> States]
    BY DEF CuteFile, IInv, TypeOK, States
  <2>2. remaning' \in [Files -> Nat]
    BY <1>1, <1>2 DEF IInv, TypeOK
  <2>3. sending' \in Nat /\ ticks' \in Nat
    BY <1>1 DEF IInv, TypeOK
  <2>4. QED
    BY <1>1, <2>1, <2>2, <2>3 DEF IInv, TypeOK, button
<1>8. SendingCounts'
  BY <1>1, <1>6 DEF IInv, SendingCounts
<1>9. CutBlocks'
  <2>1. \A c \in Blocks : promise' # c[1] /\ (promise = c[1] <=> c[1] = f)
    BY <1>1, BlocksOfFiles, SenderAssumption
  <2>2. QED
    BY <1>1, <1>4, <1>5, <2>1 DEF IInv, CutBlocks
<1>10. RemaningCounts'
  <2>1. ASSUME NEW g \in Files, g # f PROVE Unfinished(g)' = Unfinished(g)
    <3>1. \A c \in Of(g) : block'[c] = block[c]
      BY <1>4, <2>1, BlocksOfFiles
    <3>2. QED
      BY <3>1 DEF Unfinished
  <2>2. Unfinished(f)' = Of(f)
    BY <1>4, BlocksOfFiles DEF Unfinished
  <2>3. remaning'[f] = Cardinality(Unfinished(f))' /\ remaning'[f] > 0
    <3>1. Cardinality(Of(f)) = Chunks[f]
      BY FinitelyMany
    <3>2. QED
      BY <1>1, <1>2, <2>2, <3>1 DEF IInv, TypeOK
  <2>4. \A g \in Files : g # f => remaning'[g] = remaning[g] /\ promise # g
    BY <1>1 DEF IInv, TypeOK
  <2>5. QED
    BY <1>1, <2>1, <2>3, <2>4 DEF IInv, RemaningCounts
<1>11. InterruptedWaits' /\ PreparedOne' /\ GoneIsAnswered'
  BY <1>1, <1>4, BlocksOfFiles, SenderAssumption
     DEF IInv, InterruptedWaits, PreparedOne, GoneIsAnswered
<1>12. ClosingIsLast' /\ ReportedIsAnswered' /\ NeverStuck'
  <2>1. \A c \in Blocks : block'[c] = "closing" => c[1] # f /\ block[c] = "closing"
    BY <1>4
  <2>2. ClosingIsLast'
    BY <1>1, <1>4, <2>1, BlocksOfFiles DEF IInv, ClosingIsLast
  <2>3. ReportedIsAnswered' /\ NeverStuck'
    BY <1>1 DEF IInv, TypeOK, ReportedIsAnswered, NeverStuck, Is
  <2>4. QED
    BY <2>2, <2>3
<1>13. EndedIsIdle'
  <2>1. Cardinality(Pool) \in Nat /\ threads \in Nat
    BY Counts, SenderAssumption DEF IInv, TypeOK
  <2>2. Cardinality(Pool)' <= threads
    BY <1>5, <1>6, <2>1
  <2>3. \A c \in Blocks : block'[c] \in {"sent", "closing"} => status[c[1]] = "progress"
    BY <1>4 DEF IInv, EndedIsIdle, Is
  <2>4. QED
    BY <1>1, <2>2, <2>3 DEF EndedIsIdle, Is
<1>14. QED
  BY <1>7, <1>8, <1>9, <1>10, <1>11, <1>12, <1>13 DEF IInv

LEMMA StutterKeeps == IInv /\ UNCHANGED vars => IInv'
<1> SUFFICES ASSUME IInv, UNCHANGED vars PROVE IInv'
  OBVIOUS
<1> USE DEF vars, button, engine, blocks
<1>1. Pool' = Pool /\ \A f \in Files : Unfinished(f)' = Unfinished(f)
  BY SameBlocks
<1>2. TypeOK' /\ SendingCounts' /\ CutBlocks' /\ RemaningCounts' /\ InterruptedWaits'
  BY <1>1 DEF IInv, TypeOK, SendingCounts, CutBlocks, RemaningCounts, InterruptedWaits
<1>3. PreparedOne' /\ GoneIsAnswered' /\ ClosingIsLast'
  BY <1>1 DEF IInv, PreparedOne, GoneIsAnswered, ClosingIsLast
<1>4. EndedIsIdle' /\ ReportedIsAnswered' /\ NeverStuck'
  BY <1>1 DEF IInv, EndedIsIdle, ReportedIsAnswered, NeverStuck, Is
<1>5. QED
  BY <1>2, <1>3, <1>4 DEF IInv

LEMMA StepKeeps == IInv /\ [Next]_vars => IInv'
BY UserKeeps, IdleKeeps, PrepareKeeps, SendKeeps, DoSendKeeps, DontSendKeeps, LoadKeeps,
   ErrorKeeps, FinishKeeps, CutKeeps, StutterKeeps DEF Next, tick, Callback, Answer

LEMMA Inductive == Spec => []IInv
BY StepKeeps, Initially, PTL DEF Spec

-----------------------------------------------------------------------------
(* Theorems *)

\* The state of the page and of the uploader keeps its shape (webuploader.js:3425-4112):
\* the counters never go below zero.
THEOREM TypeCorrect == Spec => []TypeOK
<1>1. IInv => TypeOK
  BY DEF IInv
<1>2. QED
  BY <1>1, Inductive, PTL

\* A file is shown as uploaded only when every block of it was answered with success, for
\* any number of requests at a time, whatever the order of their answers
\* (webuploader.js:4049-4064).
THEOREM ReportedAnswered == Spec => []ReportedIsAnswered
<1>1. IInv => ReportedIsAnswered
  BY DEF IInv
<1>2. QED
  BY <1>1, Inductive, PTL

\* The counters on which the end of a file and of the upload are decided agree with the
\* blocks (webuploader.js:3416-3417, 3866-3872).
THEOREM CountersRight == Spec => []CountersAgree
<1>1. IInv => CountersAgree
  BY DEF IInv, SendingCounts, RemaningCounts, CountersAgree, Is
<1>2. QED
  BY <1>1, Inductive, PTL

\* Nothing is under way of a file that has ended, and never more than "threads" requests
\* (webuploader.js:3453-3463, 3715).
THEOREM EndedIdle == Spec => []EndedIsIdle
<1>1. IInv => EndedIsIdle
  BY DEF IInv
<1>2. QED
  BY <1>1, Inductive, PTL

\* While the upload runs, a timer, a callback or an answer is due: it cannot stop without
\* being over (webuploader.js:3704-3738).
THEOREM NotStuck == Spec => []NeverStuck
<1>1. IInv => NeverStuck
  BY DEF IInv
<1>2. QED
  BY <1>1, Inductive, PTL

-----------------------------------------------------------------------------
(* The order of the blocks of a file.  A block that is not answered is     *)
(* not counted; with one request at a time a block leaves the list of      *)
(* CuteFile only when all before it are answered.                          *)
Early  == {"none", "left", "hook", "sent"}
Moving == {"hook", "sent", "closing", "gone"}

Unanswered == \A b \in Blocks : block[b] \in Early => b \notin acked

Ordered ==
  threads = 1 => \A b, c \in Blocks :
    b[1] = c[1] /\ c[2] < b[2] /\ status[b[1]] = "progress" /\ block[b] \in Moving
    => block[c] = "gone"

OrderInv == IInv /\ Unanswered /\ Ordered

\* A step that sends and answers nothing.
LEMMA OrderOn ==
  ASSUME OrderInv, UNCHANGED <<threads, acked>>,
         \A f \in Files : status'[f] = "progress" =>
           \/ status[f] = "progress" /\ \A b \in Of(f) : block'[b] = block[b]
           \/ \A b \in Of(f) : block'[b] \in {"none", "left"},
         \A b \in Blocks : block'[b] \in Early => block[b] \in Early
  PROVE  Unanswered' /\ Ordered'
<1>1. Unanswered'
  BY DEF OrderInv, Unanswered
<1>2. ASSUME threads = 1, NEW b \in Blocks, NEW c \in Blocks, b[1] = c[1], c[2] < b[2],
             status'[b[1]] = "progress", block'[b] \in Moving
      PROVE  block'[c] = "gone"
  <2>1. b \in Of(b[1]) /\ c \in Of(b[1]) /\ b[1] \in Files
    BY <1>2, BlocksOfFiles
  <2>2. status[b[1]] = "progress" /\ block'[b] = block[b] /\ block'[c] = block[c]
    BY <1>2, <2>1 DEF Moving
  <2>3. QED
    BY <1>2, <2>2 DEF OrderInv, Ordered
<1>3. QED
  BY <1>1, <1>2 DEF Ordered

\* A step that takes one block on, when those before it are gone.
LEMMA OrderMoves ==
  ASSUME OrderInv, UNCHANGED <<threads, status>>, NEW b \in Blocks, NEW st \in Moving,
         Put(b, st), block[b] # "gone",
         threads = 1 => \A c \in Of(b[1]) : c[2] < b[2] => block[c] = "gone"
  PROVE  Ordered'
<1>1. \A c \in Blocks : block'[c] = IF c = b THEN st ELSE block[c]
  BY DEF Put, OrderInv, IInv, TypeOK
<1>2. ASSUME threads = 1, NEW d \in Blocks, NEW c \in Blocks, d[1] = c[1], c[2] < d[2],
             status[d[1]] = "progress", block'[d] \in Moving
      PROVE  block'[c] = "gone"
  <2>1. CASE d = b
    <3>1. c \in Of(b[1]) /\ c # b
      <4>1. c[2] \in Int /\ d[2] \in Int
        BY SenderAssumption DEF Blocks, Of
      <4>2. QED
        BY <1>2, <2>1, <4>1, BlocksOfFiles
    <3>2. QED
      BY <1>1, <1>2, <2>1, <3>1
  <2>2. CASE d # b
    <3>1. block[c] = "gone"
      BY <1>1, <1>2, <2>2 DEF OrderInv, Ordered
    <3>2. QED
      BY <1>1, <3>1
  <2>3. QED
    BY <2>1, <2>2
<1>3. QED
  BY <1>2 DEF Ordered

LEMMA StillOrdered ==
  ASSUME OrderInv,
         \/ UNCHANGED vars \/ User \/ TickFinish \/ TickIdle \/ uploadFinished
         \/ (\E f \in Files : TickPrepare(f)) \/ (\E b \in Blocks : Retry(b))
  PROVE  Unanswered' /\ Ordered'
<1>1. UNCHANGED <<block, acked, threads>>
  BY DEF vars, blocks, button, User, addFile, Click, startUpload, startQueues, stopUpload, stopRefused,
     TickFinish, TickIdle, TickPrepare, uploadFinished, Retry
<1>2. ASSUME NEW f \in Files, status'[f] = "progress"
      PROVE  status[f] \in {"progress", "queued", "interrupt"}
  <2> USE DEF IInv, TypeOK, OrderInv, Is, SetStatus
  <2>1. CASE \E g \in Files : addFile(g) \/ TickPrepare(g)
    BY <1>2, <2>1 DEF addFile, TickPrepare
  <2>2. CASE startUpload \/ startQueues \/ stopUpload
    BY <1>2, <2>2 DEF startUpload, startQueues, stopUpload
  <2>3. CASE \/ UNCHANGED vars \/ stopRefused \/ TickFinish \/ TickIdle \/ uploadFinished
             \/ \E b \in Blocks : Retry(b)
    BY <1>2, <2>3 DEF vars, stopRefused, TickFinish, TickIdle, uploadFinished, Retry
  <2>4. QED
    BY <2>1, <2>2, <2>3 DEF User
<1>3. ASSUME NEW f \in Files, status[f] \in {"queued", "interrupt"}, NEW b \in Of(f)
      PROVE  block[b] \in {"none", "left"}
  BY <1>3, BlocksOfFiles DEF OrderInv, IInv, CutBlocks, InterruptedWaits
<1>4. QED
  BY <1>1, <1>2, <1>3, OrderOn

LEMMA EndsOrdered ==
  ASSUME OrderInv, NEW b \in Blocks, error(b) \/ finishFile(b)
  PROVE  Unanswered' /\ Ordered'
<1> DEFINE f == b[1]
<1>1. /\ f \in Files /\ UNCHANGED <<threads, acked>>
      /\ status'[f] # "progress" /\ \A g \in Files : g # f => status'[g] = status[g]
      /\ uploadComplete(f)
  BY BlocksOfFiles DEF error, finishFile, SetStatus, button, OrderInv, IInv, TypeOK
<1>2. \A c \in Blocks : block'[c] = block[c] \/ (block'[c] = "gone" /\ c[1] = f)
  <2>1. \A c \in Blocks : block'[c] = IF c \in Aborted(f) \cup Left(f) THEN "gone" ELSE block[c]
    BY <1>1 DEF uploadComplete
  <2>2. \A c \in Aborted(f) \cup Left(f) : c[1] = f
    BY <1>1, BlocksOfFiles DEF Aborted, Left
  <2>3. QED
    BY <2>1, <2>2
<1>3. \A g \in Files : g # f => \A c \in Of(g) : block'[c] = block[c]
  BY <1>2, BlocksOfFiles
<1>4. \A c \in Blocks : block'[c] \in Early => block[c] \in Early
  BY <1>2 DEF Early
<1>5. \A g \in Files : status'[g] = "progress" =>
        status[g] = "progress" /\ \A c \in Of(g) : block'[c] = block[c]
  BY <1>1, <1>3
<1>6. QED
  BY <1>1, <1>4, <1>5, OrderOn

LEMMA DontSendOrdered ==
  ASSUME OrderInv, NEW b \in Blocks, dontSend(b)
  PROVE  Unanswered' /\ Ordered'
<1> DEFINE f == b[1]
<1>1. /\ f \in Files /\ UNCHANGED <<threads, acked, status>> /\ status[f] # "progress"
      /\ Put(b, "gone")
  BY BlocksOfFiles DEF dontSend, popBlock, button, Is
<1>2. \A c \in Blocks : block'[c] = IF c = b THEN "gone" ELSE block[c]
  BY <1>1 DEF Put, OrderInv, IInv, TypeOK
<1>3. \A g \in Files : g # f => \A c \in Of(g) : block'[c] = block[c]
  BY <1>2, BlocksOfFiles
<1>4. \A c \in Blocks : block'[c] \in Early => block[c] \in Early
  BY <1>2 DEF Early
<1>5. QED
  BY <1>1, <1>3, <1>4, OrderOn

LEMMA CutOrdered ==
  ASSUME OrderInv, NEW f \in Files, CuteFile(f)
  PROVE  Unanswered' /\ Ordered'
<1>1. /\ UNCHANGED <<threads, acked, status>> /\ promise = f
      /\ \A b \in Blocks : block'[b] = IF b[1] # f THEN block[b]
                             ELSE IF b[2] = 0 /\ Is(f, "progress") THEN "hook" ELSE "left"
  BY DEF CuteFile, button
<1>2. \A b \in Of(f) : block[b] = "none"
  BY <1>1, BlocksOfFiles DEF OrderInv, IInv, CutBlocks
<1>3. Unanswered'
  BY <1>1, <1>2, BlocksOfFiles DEF OrderInv, Unanswered, Early
<1>4. ASSUME threads = 1, NEW b \in Blocks, NEW c \in Blocks, b[1] = c[1], c[2] < b[2],
             status[b[1]] = "progress", block'[b] \in Moving
      PROVE  block'[c] = "gone"
  <2>1. c[2] \in Int /\ 0 <= c[2] /\ b[2] \in Int
    BY SenderAssumption DEF Blocks, Of
  <2>2. b[1] # f
    BY <1>1, <1>4, <2>1 DEF Moving
  <2>3. QED
    BY <1>1, <1>4, <2>2 DEF OrderInv, Ordered
<1>5. QED
  BY <1>1, <1>3, <1>4 DEF Ordered

\* The block that goes to the pool is the first that is left, and the pool was empty.
LEMMA SendOrdered ==
  ASSUME OrderInv, NEW f \in Files, TickSend(f)
  PROVE  Unanswered' /\ Ordered'
<1> DEFINE b == shift(f)
<1>1. b \in Left(f) /\ \A c \in Left(f) : b[2] <= c[2]
  BY FirstLeft DEF TickSend, Sendable
<1>2. /\ b \in Blocks /\ b[1] = f /\ block[b] = "left" /\ status[f] = "progress" /\ promise # f
      /\ Put(b, "hook") /\ UNCHANGED <<threads, status, acked>> /\ Cardinality(Pool) < threads
  BY <1>1, BlocksOfFiles, SenderAssumption DEF Left, TickSend, Tick, Sendable, Room, button
<1> HIDE DEF b
<1>3. ASSUME threads = 1, NEW c \in Of(f), c[2] < b[2] PROVE block[c] = "gone"
  <2>1. Pool = {}
    <3>1. Cardinality(Pool) = 0
      BY <1>2, <1>3, Counts
    <3>2. QED
      BY <3>1, Counts, FS_EmptySet
  <2>2. c \in Blocks /\ c[1] = f /\ c[2] \in Int /\ b[2] \in Int
    BY <1>2, BlocksOfFiles, SenderAssumption DEF Blocks, Of
  <2>3. c \notin Left(f)
    BY <1>1, <1>3, <2>2
  <2>4. block[c] \notin {"none", "left", "hook", "sent", "closing"}
    BY <1>2, <2>1, <2>2, <2>3 DEF Left, Pool, OrderInv, IInv, CutBlocks
  <2>5. block[c] \in States
    BY <2>2 DEF OrderInv, IInv, TypeOK
  <2>6. QED
    BY <2>4, <2>5 DEF States
<1>4. Ordered'
  BY <1>2, <1>3, OrderMoves DEF Moving
<1>5. \A c \in Blocks : block'[c] = IF c = b THEN "hook" ELSE block[c]
  BY <1>2 DEF Put, OrderInv, IInv, TypeOK
<1>6. Unanswered'
  BY <1>2, <1>5 DEF OrderInv, Unanswered, Early
<1>7. QED
  BY <1>4, <1>6

LEMMA DoSendOrdered ==
  ASSUME OrderInv, NEW b \in Blocks, doSend(b)
  PROVE  Unanswered' /\ Ordered'
<1>1. /\ Put(b, "sent") /\ block[b] = "hook" /\ status[b[1]] = "progress"
      /\ UNCHANGED <<threads, status, acked>>
  BY DEF doSend, button, Is
<1>2. \A c \in Blocks : block'[c] = IF c = b THEN "sent" ELSE block[c]
  BY <1>1 DEF Put, OrderInv, IInv, TypeOK
<1>3. threads = 1 => \A c \in Of(b[1]) : c[2] < b[2] => block[c] = "gone"
  BY <1>1, BlocksOfFiles DEF OrderInv, Ordered, Moving
<1>4. Ordered'
  BY <1>1, <1>3, OrderMoves DEF Moving
<1>5. Unanswered'
  BY <1>1, <1>2 DEF OrderInv, Unanswered, Early
<1>6. QED
  BY <1>4, <1>5

LEMMA LoadOrdered ==
  ASSUME OrderInv, NEW b \in Blocks, load(b)
  PROVE  Unanswered' /\ Ordered'
<1>1. /\ block[b] = "sent" /\ acked' = acked \cup {b} /\ status[b[1]] = "progress"
      /\ UNCHANGED <<threads, status>>
      /\ Put(b, "closing") \/ Put(b, "gone")
  BY DEF load, popBlock, button, OrderInv, IInv, EndedIsIdle, Is
<1>2. PICK st \in {"closing", "gone"} : Put(b, st)
  BY <1>1
<1>3. \A c \in Blocks : block'[c] = IF c = b THEN st ELSE block[c]
  BY <1>2 DEF Put, OrderInv, IInv, TypeOK
<1>4. threads = 1 => \A c \in Of(b[1]) : c[2] < b[2] => block[c] = "gone"
  BY <1>1, BlocksOfFiles DEF OrderInv, Ordered, Moving
<1>5. Ordered'
  BY <1>1, <1>2, <1>4, OrderMoves DEF Moving
<1>6. Unanswered'
  BY <1>1, <1>2, <1>3 DEF OrderInv, Unanswered, Early
<1>7. QED
  BY <1>5, <1>6

LEMMA OrderKept == OrderInv /\ [Next]_vars => Unanswered' /\ Ordered'
<1> SUFFICES ASSUME OrderInv, [Next]_vars PROVE Unanswered' /\ Ordered'
  OBVIOUS
<1>1. QED
  BY StillOrdered, EndsOrdered, DontSendOrdered, CutOrdered, SendOrdered, DoSendOrdered,
     LoadOrdered DEF Next, tick, Callback, Answer

-----------------------------------------------------------------------------
(* The refinement: with one request at a time every file is sent as module *)
(* ChunkSender says.                                                       *)
Answered(f) == Cardinality(Of(f) \cap acked)
Wire(f) == {b[2] : b \in {c \in Of(f) : block[c] = "sent"}}
Outcome(st) == CASE st = "complete" -> "done" [] st = "error" -> "failed" [] OTHER -> "none"
Result(f) == Outcome(status[f])

LEMMA Outcomes ==
  /\ Outcome("complete") = "done"
  /\ Outcome("error") = "failed"
  /\ Outcome("progress") = "none"
<1>1. "complete" # "error" /\ "complete" # "progress" /\ "error" # "progress"
  OBVIOUS
<1>2. QED
  BY <1>1 DEF Outcome

\* The block of a file that is in the pool comes right after those that are answered.
LEMMA NextBlock ==
  ASSUME OrderInv, threads = 1, NEW b \in Blocks, block[b] \in {"hook", "sent"},
         status[b[1]] = "progress"
  PROVE  /\ Answered(b[1]) = b[2] /\ b[2] < Chunks[b[1]]
         /\ Wire(b[1]) = IF block[b] = "sent" THEN {b[2]} ELSE {}
<1> DEFINE f == b[1]
           n == b[2]
<1>1. /\ f \in Files /\ b \in Of(f) /\ b = <<f, n>> /\ n \in Nat /\ n < Chunks[f] /\ Chunks[f] \in Nat
      /\ \A c \in Of(f) : c \in Blocks /\ c[1] = f /\ c[2] \in Nat /\ c = <<f, c[2]>>
  <2>1. f \in Files /\ b \in Of(f) /\ \A c \in Of(f) : c \in Blocks /\ c[1] = f
    BY BlocksOfFiles
  <2>2. Chunks[f] \in Nat
    BY <2>1, SenderAssumption
  <2>3. \A c \in Of(f) : c[2] \in Nat /\ c[2] < Chunks[f] /\ c = <<f, c[2]>>
    BY <2>2 DEF Of
  <2>4. QED
    BY <2>1, <2>2, <2>3
<1>2. \A c \in Of(f) : c[2] < n => block[c] = "gone" /\ c \in acked
  BY <1>1 DEF OrderInv, Ordered, Moving, IInv, GoneIsAnswered
<1>3. \A c \in Of(f) : n < c[2] => block[c] \in {"none", "left"} /\ c \notin acked
  <2>1. ASSUME NEW c \in Of(f), n < c[2] PROVE block[c] \in {"none", "left"}
    <3>1. block[c] \notin Moving
      BY <1>1, <2>1 DEF OrderInv, Ordered
    <3>2. block[c] \in States
      BY <1>1 DEF OrderInv, IInv, TypeOK
    <3>3. QED
      BY <3>1, <3>2 DEF Moving, States
  <2>2. QED
    BY <1>1, <2>1 DEF OrderInv, Unanswered, Early
<1>4. b \notin acked
  BY DEF OrderInv, Unanswered, Early
<1>5. Of(f) \cap acked = {f} \X (0 .. n - 1)
  <2>1. \A c \in Of(f) : c \in acked <=> c[2] < n
    BY <1>1, <1>2, <1>3, <1>4
  <2>2. \A c \in Of(f) \cap acked : c \in {f} \X (0 .. n - 1)
    BY <1>1, <2>1 DEF Of
  <2>3. \A c \in {f} \X (0 .. n - 1) : c \in Of(f) /\ c[2] < n
    BY <1>1 DEF Of
  <2>4. QED
    BY <2>1, <2>2, <2>3
<1>6. Answered(f) = n
  <2>1. \A m \in Nat : Cardinality({f} \X (0 .. m - 1)) = m
    BY FirstOf
  <2>2. Cardinality({f} \X (0 .. n - 1)) = n
    BY <1>1, <2>1
  <2>3. QED
    BY <1>5, <2>2 DEF Answered
<1>7. \A c \in Of(f) : block[c] = "sent" => c = b
  BY <1>1, <1>2, <1>3
<1>8. Wire(f) = IF block[b] = "sent" THEN {n} ELSE {}
  BY <1>1, <1>7 DEF Wire
<1>9. QED
  BY <1>1, <1>6, <1>8

\* A step that neither sends nor answers a block of f, nor ends f.
LEMMA SenderStutters ==
  ASSUME NEW f \in Files, Of(f) \cap acked' = Of(f) \cap acked,
         \A b \in Of(f) : block'[b] = "sent" <=> block[b] = "sent",
         Result(f)' = Result(f)
  PROVE  UNCHANGED (Sender(f)!vars)
<1>1. Answered(f)' = Answered(f) /\ Wire(f)' = Wire(f)
  BY DEF Answered, Wire
<1>2. QED
  BY <1>1 DEF Sender!vars, Answered, Wire, Result, Outcome, Is

LEMMA OthersStutter ==
  ASSUME NEW f \in Files, status'[f] = status[f],
         Of(f) \cap acked' = Of(f) \cap acked,
         \A b \in Of(f) : block'[b] = block[b]
  PROVE  UNCHANGED (Sender(f)!vars)
<1>1. Result(f)' = Result(f)
  BY DEF Result
<1>2. QED
  BY <1>1, SenderStutters

LEMMA DoSendSends ==
  ASSUME OrderInv, threads = 1, NEW b \in Blocks, doSend(b)
  PROVE  \A f \in Files : [Sender(f)!Next]_(Sender(f)!vars)
<1> DEFINE f == b[1]
<1>1. /\ f \in Files /\ b \in Of(f) /\ block[b] = "hook" /\ status[f] = "progress"
      /\ Put(b, "sent") /\ UNCHANGED <<status, acked>>
  BY BlocksOfFiles DEF doSend, Is
<1>2. \A c \in Blocks : block'[c] = IF c = b THEN "sent" ELSE block[c]
  BY <1>1 DEF Put, OrderInv, IInv, TypeOK
<1>3. Answered(f) = b[2] /\ b[2] < Chunks[f] /\ Wire(f) = {}
  BY <1>1, NextBlock
<1>4. Wire(f)' = {b[2]}
  <2>1. \A c \in Of(f) : block[c] # "sent"
    BY <1>3 DEF Wire
  <2>2. \A c \in Of(f) : block'[c] = "sent" <=> c = b
    BY <1>2, <2>1, BlocksOfFiles
  <2>3. {c \in Of(f) : block'[c] = "sent"} = {b}
    BY <1>1, <2>2
  <2>4. QED
    BY <2>3 DEF Wire
<1>5. Answered(f)' = Answered(f) /\ Result(f)' = Result(f) /\ Result(f) = "none"
  BY <1>1, Outcomes DEF Answered, Result
<1>6. Sender(f)!Send
  BY <1>3, <1>4, <1>5 DEF Sender!Send, Answered, Wire, Result, Outcome, Is
<1>7. \A g \in Files : g # f => UNCHANGED (Sender(g)!vars)
  BY <1>1, <1>2, BlocksOfFiles, OthersStutter
<1>8. QED
  BY <1>6, <1>7 DEF Sender!Next

LEMMA LoadSends ==
  ASSUME OrderInv, threads = 1, NEW b \in Blocks, load(b)
  PROVE  \A f \in Files : [Sender(f)!Next]_(Sender(f)!vars)
<1> DEFINE f == b[1]
<1>1. /\ f \in Files /\ b \in Of(f) /\ block[b] = "sent" /\ status[f] = "progress"
      /\ acked' = acked \cup {b} /\ UNCHANGED status
      /\ Put(b, "closing") \/ Put(b, "gone")
  BY BlocksOfFiles DEF load, popBlock, OrderInv, IInv, EndedIsIdle, Is
<1>2. PICK st \in {"closing", "gone"} : Put(b, st)
  BY <1>1
<1>3. \A c \in Blocks : block'[c] = IF c = b THEN st ELSE block[c]
  BY <1>2 DEF Put, OrderInv, IInv, TypeOK
<1>4. Answered(f) = b[2] /\ Wire(f) = {b[2]}
  BY <1>1, NextBlock
<1>5. Wire(f)' = {}
  <2>1. \A c \in Of(f) : block[c] = "sent" => c[2] = b[2] /\ c = <<f, c[2]>> /\ b = <<f, b[2]>>
    BY <1>1, <1>4 DEF Wire, Of
  <2>2. \A c \in Of(f) : block'[c] # "sent"
    BY <1>3, <2>1, BlocksOfFiles
  <2>3. QED
    BY <2>2 DEF Wire
<1>6. Answered(f)' = Answered(f) + 1
  <2>1. IsFiniteSet(Of(f) \cap acked)
    BY <1>1, FinitelyMany, FS_Subset
  <2>2. b \notin Of(f) \cap acked
    BY <1>1 DEF OrderInv, Unanswered, Early
  <2>3. Of(f) \cap acked' = (Of(f) \cap acked) \cup {b}
    BY <1>1
  <2>4. Cardinality((Of(f) \cap acked) \cup {b}) = Cardinality(Of(f) \cap acked) + 1
    BY <2>1, <2>2, FS_AddElement
  <2>5. QED
    BY <2>3, <2>4 DEF Answered
<1>7. Result(f)' = Result(f) /\ Result(f) = "none"
  BY <1>1, Outcomes DEF Result
<1>8. Sender(f)!Answer
  BY <1>4, <1>5, <1>6, <1>7 DEF Sender!Answer, Answered, Wire, Result, Outcome, Is
<1>9. ASSUME NEW g \in Files, g # f PROVE UNCHANGED (Sender(g)!vars)
  <2>1. Of(g) \cap acked' = Of(g) \cap acked
    BY <1>1, <1>9, BlocksOfFiles
  <2>2. QED
    BY <1>1, <1>3, <1>9, <2>1, BlocksOfFiles, OthersStutter
<1>10. QED
  BY <1>8, <1>9 DEF Sender!Next

LEMMA EndSends ==
  ASSUME OrderInv, NEW b \in Blocks, error(b) \/ finishFile(b)
  PROVE  \A f \in Files : [Sender(f)!Next]_(Sender(f)!vars)
<1> DEFINE f == b[1]
<1>1. /\ f \in Files /\ b \in Of(f) /\ block[b] \in {"sent", "closing"} /\ status[f] = "progress"
      /\ \A c \in Of(f) : c \in Blocks
      /\ UNCHANGED acked /\ uploadComplete(f)
      /\ \A g \in Files : g # f => status'[g] = status[g]
      /\ status'[f] = IF finishFile(b) THEN "complete" ELSE "error"
  <2>1. f \in Files /\ b \in Of(f) /\ \A c \in Of(f) : c \in Blocks
    BY BlocksOfFiles
  <2>2. block[b] \in {"sent", "closing"} /\ status[f] = "progress"
    BY DEF error, finishFile, OrderInv, IInv, EndedIsIdle, Is
  <2>3. status \in [Files -> {"none", "inited", "queued", "progress", "interrupt", "complete", "error"}]
    BY DEF OrderInv, IInv, TypeOK
  <2>4. CASE finishFile(b)
    BY <2>1, <2>2, <2>3, <2>4 DEF finishFile, SetStatus
  <2>5. CASE ~finishFile(b)
    BY <2>1, <2>2, <2>3, <2>5 DEF error, SetStatus
  <2>6. QED
    BY <2>4, <2>5
<1>2. \A c \in Blocks : block'[c] = IF c \in Aborted(f) \cup Left(f) THEN "gone" ELSE block[c]
  BY <1>1 DEF uploadComplete
<1>3. Wire(f)' = {}
  <2>1. \A c \in Of(f) : block'[c] # "sent"
    BY <1>1, <1>2 DEF Aborted
  <2>2. QED
    BY <2>1 DEF Wire
<1>4. Answered(f)' = Answered(f) /\ Result(f) = "none"
  BY <1>1, Outcomes DEF Answered, Result
<1>5. ASSUME finishFile(b) PROVE Sender(f)!Next
  <2>1. block[b] = "closing" /\ \A c \in Of(f) : c # b => block[c] = "gone"
    BY <1>1, <1>5 DEF finishFile, OrderInv, IInv, ClosingIsLast
  <2>2. Of(f) \subseteq acked
    BY <1>1, <2>1, BlocksOfFiles DEF OrderInv, IInv, ClosingIsLast, GoneIsAnswered
  <2>3. Answered(f) = Chunks[f]
    <3>1. Of(f) \cap acked = Of(f)
      BY <2>2
    <3>2. QED
      BY <1>1, <3>1, FinitelyMany DEF Answered
  <2>4. Wire(f) = {}
    BY <2>1 DEF Wire
  <2>5. Result(f)' = "done"
    BY <1>1, <1>5, Outcomes DEF Result
  <2>6. Sender(f)!Succeed
    BY <1>3, <1>4, <2>3, <2>4, <2>5 DEF Sender!Succeed, Answered, Wire, Result, Outcome, Is
  <2>7. QED
    BY <2>6 DEF Sender!Next
<1>6. ASSUME ~finishFile(b) PROVE Sender(f)!Next
  <2>1. Result(f)' = "failed"
    BY <1>1, <1>6, Outcomes DEF Result
  <2>2. Sender(f)!GiveUp
    BY <1>3, <1>4, <2>1 DEF Sender!GiveUp, Answered, Wire, Result, Outcome, Is
  <2>3. QED
    BY <2>2 DEF Sender!Next
<1>7. ASSUME NEW g \in Files, g # f PROVE UNCHANGED (Sender(g)!vars)
  <2>1. \A c \in Of(g) : block'[c] = block[c]
    BY <1>1, <1>2, <1>7, BlocksOfFiles DEF Aborted, Left
  <2>2. QED
    BY <1>1, <1>7, <2>1, OthersStutter
<1>8. QED
  BY <1>5, <1>6, <1>7

LEMMA SentOrStutters ==
  ASSUME OrderInv, [Next]_vars, threads = 1
  PROVE  \A f \in Files : [Sender(f)!Next]_(Sender(f)!vars)
<1>1. CASE \/ UNCHANGED vars \/ TickFinish \/ TickIdle \/ uploadFinished
           \/ \E b \in Blocks : Retry(b)
  <2>1. UNCHANGED <<status, block, acked>>
    BY <1>1 DEF vars, blocks, TickFinish, TickIdle, uploadFinished, Retry
  <2>2. QED
    BY <2>1, OthersStutter
<1>2. CASE User \/ \E f \in Files : TickPrepare(f)
  <2>1. UNCHANGED <<block, acked>>
    BY <1>2 DEF blocks, User, addFile, startUpload, startQueues, stopUpload, stopRefused, TickPrepare
  <2>2. ASSUME NEW f \in Files PROVE Result(f)' = Result(f)
    <3> DEFINE Open == {"none", "inited", "queued", "progress", "interrupt"}
    <3>1. status'[f] = status[f] \/ (status[f] \in Open /\ status'[f] \in Open)
      <4> USE DEF OrderInv, IInv, TypeOK, Is, SetStatus
      <4>1. CASE \E g \in Files : addFile(g) \/ TickPrepare(g)
        BY <4>1 DEF addFile, TickPrepare
      <4>2. CASE startUpload \/ startQueues \/ stopRefused
        BY <4>2 DEF startUpload, startQueues, stopRefused
      <4>3. CASE stopUpload
        BY <4>3 DEF stopUpload, PreparedOne
      <4>4. QED
        BY <1>2, <4>1, <4>2, <4>3 DEF User
    <3>2. \A st \in Open : st # "complete" /\ st # "error"
      OBVIOUS
    <3>3. \A st \in Open : Outcome(st) = "none"
      BY <3>2 DEF Outcome
    <3>4. QED
      BY <3>1, <3>3 DEF Result
  <2>3. QED
    BY <2>1, <2>2, SenderStutters
<1>3. CASE \E f \in Files : TickSend(f) \/ CuteFile(f)
  <2>1. UNCHANGED <<status, acked>>
    BY <1>3 DEF TickSend, CuteFile
  <2>2. \A b \in Blocks : block'[b] = "sent" <=> block[b] = "sent"
    <3>1. ASSUME NEW f \in Files, TickSend(f), NEW b \in Blocks
          PROVE  block'[b] = "sent" <=> block[b] = "sent"
      <4>1. block[shift(f)] = "left" /\ shift(f) \in Blocks /\ Put(shift(f), "hook")
        BY <3>1, FirstLeft, BlocksOfFiles DEF TickSend, Sendable, Left
      <4>2. QED
        BY <4>1 DEF Put, OrderInv, IInv, TypeOK
    <3>2. ASSUME NEW f \in Files, CuteFile(f), NEW b \in Blocks
          PROVE  block'[b] = "sent" <=> block[b] = "sent"
      <4>1. b[1] = f => block[b] = "none"
        BY <3>2 DEF CuteFile, OrderInv, IInv, CutBlocks
      <4>2. QED
        BY <3>2, <4>1 DEF CuteFile
    <3>3. QED
      BY <1>3, <3>1, <3>2
  <2>3. QED
    BY <2>1, <2>2, BlocksOfFiles, SenderStutters DEF Result
<1>4. CASE \E b \in Blocks : dontSend(b)
  <2>1. UNCHANGED <<status, acked>>
    BY <1>4 DEF dontSend, popBlock
  <2>2. \A b \in Blocks : block'[b] = "sent" <=> block[b] = "sent"
    BY <1>4 DEF dontSend, popBlock, Put, OrderInv, IInv, TypeOK
  <2>3. QED
    BY <2>1, <2>2, BlocksOfFiles, SenderStutters DEF Result
<1>5. CASE \E b \in Blocks : doSend(b) \/ load(b) \/ error(b) \/ finishFile(b)
  BY <1>5, DoSendSends, LoadSends, EndSends
<1>6. QED
  BY <1>1, <1>2, <1>3, <1>4, <1>5 DEF Next, tick, Callback, Answer

\* With threads: 1, as the page has it, the uploader sends each file the way the view
\* uploadfile expects it, whatever the user, the timers and the network do: the chunks in
\* order, one at a time, and no success before the last is answered
\* (webuploader.js:3453-3510, 3866-3872; ChunkSender is the client of Upload).
THEOREM SentInOrder == Spec => SendsInOrder
<1>1. Init => OrderInv
  <2>1. Init => IInv
    BY Initially
  <2>2. Init => Unanswered /\ Ordered
    BY DEF Init, Unanswered, Ordered, Moving
  <2>3. QED
    BY <2>1, <2>2 DEF OrderInv
<1>2. OrderInv /\ [Next]_vars => OrderInv'
  <2>1. OrderInv => IInv
    BY DEF OrderInv
  <2>2. QED
    BY <2>1, StepKeeps, OrderKept DEF OrderInv
<1>3. OrderInv /\ [Next]_vars =>
        (threads = 1 => \A f \in Files : [Sender(f)!Next]_(Sender(f)!vars))
  BY SentOrStutters
<1>4. Init => \A f \in Files : Sender(f)!Init
  <2>1. ASSUME Init, NEW f \in Files
        PROVE  Answered(f) = 0 /\ Wire(f) = {} /\ Result(f) = "none"
    <3>1. Of(f) \cap acked = {} /\ \A b \in Of(f) : block[b] # "sent"
      BY <2>1, BlocksOfFiles DEF Init
    <3>2. status[f] = "none" /\ "none" # "complete" /\ "none" # "error"
      BY <2>1 DEF Init
    <3>3. Answered(f) = 0 /\ Wire(f) = {}
      BY <3>1, FS_EmptySet DEF Answered, Wire
    <3>4. QED
      BY <3>2, <3>3 DEF Result, Outcome
  <2>2. QED
    BY <2>1 DEF Sender!Init, Answered, Wire, Result, Outcome, Is
<1>5. QED
  BY <1>1, <1>2, <1>3, <1>4, PTL DEF Spec, SendsInOrder

=============================================================================
