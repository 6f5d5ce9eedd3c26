---------------------------- MODULE WebUploader ----------------------------
(***************************************************************************)
(* The upload page UploadFileForIE.html and what it uses of the library it *)
(* loads, webuploader.js: the widgets queue and upload, the transport.     *)
(*                                                                         *)
(* Everything runs in the event loop of the browser, one event at a time:  *)
(* clicks, the timers of Base.nextTick, the callbacks of request(), which  *)
(* always come in a later event, and what the network does to the requests *)
(* under way.  Order between pending events is left open.                  *)
(*                                                                         *)
(* The page stops with stop(), which interrupts only the file that is      *)
(* being prepared, and never cancels, skips or retries a file.             *)
(***************************************************************************)
EXTENDS Naturals, FiniteSets

CONSTANTS
  Files,         \* files a user may add
  NoFile,
  Chunks,        \* Chunks[f]: into how many blocks CuteFile cuts f
  chunkRetry,    \* option: how often a block is sent again
  Threads,       \* values of the option threads; 1 in the page
  MaxClicks      \* bound: clicks of the button

ASSUME SenderAssumption ==
  /\ NoFile \notin Files /\ IsFiniteSet(Files)
  /\ Chunks \in [Files -> Nat \ {0}]
  /\ chunkRetry \in Nat /\ MaxClicks \in Nat
  /\ Threads \subseteq Nat \ {0}

VARIABLES
  (* the page *)
  page,       \* state of the button
  clicks,     \* bound
  threads,    \* the option: requests at a time
  (* widgets/queue *)
  status,     \* of a file; "none" before it is added
  (* widgets/upload *)
  runing,     \* sic
  promise,    \* _promise.file: the file being prepared, or NoFile
  trigged,    \* _trigged: uploadFinished was announced
  block,      \* state of a block, see States
  retried,    \* block.retried
  remaning,   \* file.remaning, sic: blocks not finished; 0 when it is deleted
  sending,    \* this.remaning: blocks in the pool
  (* the event loop *)
  ticks,      \* timers that will run _tick
  finished,   \* a timer that will trigger uploadFinished
  (* the server *)
  acked       \* blocks it answered with success

button  == <<page, clicks, threads>>
engine  == <<runing, promise, trigged>>
blocks  == <<block, retried, remaning, sending>>
vars    == <<button, status, engine, blocks, ticks, finished, acked>>

Of(f)  == {f} \X (0 .. Chunks[f] - 1)
Blocks == UNION {Of(f) : f \in Files}

\* "left": in the list of CuteFile.  In the pool: "hook", until the callback of the
\* request before-send; "sent"; "closing", until that of after-send-file.
States == {"none", "left", "hook", "sent", "closing", "gone"}

Pool      == {b \in Blocks : block[b] \in {"hook", "sent", "closing"}}
Left(f) == {b \in Of(f) : block[b] = "left"}
shift_last(f) == CHOOSE b \in Left(f) : \A c \in Left(f) : c[2] <= b[2]
shift(f) == CHOOSE b \in Left(f) : \A c \in Left(f) : b[2] <= c[2]
Sendable  == {f \in Files : Left(f) # {} /\ status[f] = "progress"}
Is(f, st) == status[f] = st

Init ==
  /\ page = "pending" /\ clicks = 0 /\ threads \in Threads
  /\ status = [f \in Files |-> "none"]
  /\ runing = FALSE /\ promise = NoFile /\ trigged = FALSE
  /\ block = [b \in Blocks |-> "none"] /\ retried = [b \in Blocks |-> 0]
  /\ remaning = [f \in Files |-> 0] /\ sending = 0
  /\ ticks = 0 /\ finished = FALSE
  /\ acked = {}

-----------------------------------------------------------------------------
(* Pieces of the handlers, each mutant before what it is a mutant of *)

SetStatus(f, st) == status' = [status EXCEPT ![f] = st]

\* _trigged = false: the next end is announced.
Rearm_forgotten == UNCHANGED trigged
Rearm == trigged' = FALSE

\* Base.nextTick(me.__tick), n times.
nextTick(n) == ticks' = ticks + n

\* file.remaning of a file CuteFile has cut.
Count_late(f) == Chunks[f] - 1
Count(f) == Chunks[f]

Put(b, st) == block' = [block EXCEPT ![b] = st]

\* The blocks of f whose transport the handler of uploadComplete aborts and destroys.
Aborted_none(f) == {}
Aborted_all(f) == Of(f)
Aborted(f) == {b \in Of(f) : block[b] \in {"sent", "closing"}}

\* _popBlock, for all blocks of S, and the tick that follows each.
Popped_silent(f, S) ==
  /\ sending' = sending - Cardinality(S)
  /\ UNCHANGED ticks
Popped(f, S) ==
  /\ sending' = sending - Cardinality(S)
  /\ nextTick(Cardinality(S))

\* One block leaves the pool.
popBlock(b) ==
  LET f == b[1] IN
  /\ Put(b, "gone")
  /\ remaning' = [remaning EXCEPT ![f] = IF @ = 0 THEN 0 ELSE @ - 1]
  /\ Popped(f, {b})

\* The handler of uploadComplete; file.blocks and file.remaning are deleted.  What is
\* left of the file is never sent: _getStack drops it.
uploadComplete(f) ==
  /\ block' = [b \in Blocks |-> IF b \in Aborted(f) \cup Left(f) THEN "gone" ELSE block[b]]
  /\ remaning' = [remaning EXCEPT ![f] = 0]
  /\ Popped(f, Aborted(f))

\* The last block of the file to be answered.
IsLast_unsent(f) == Left(f) = {}
IsLast(f) == remaning[f] = 1

-----------------------------------------------------------------------------
(* The user *)

addFile(f) ==
  /\ Is(f, "none") /\ SetStatus(f, "inited")
  /\ UNCHANGED <<button, engine, blocks, ticks, finished, acked>>

Click(wanted) ==
  /\ clicks < MaxClicks /\ clicks' = clicks + 1 /\ UNCHANGED threads
  /\ (page = "uploading") = (wanted = "stop")

\* upload(): files that wait are queued, and one that was interrupted goes on.
startUpload ==
  /\ Click("start") /\ ~runing
  /\ status' = [f \in Files |-> IF Is(f, "inited") THEN "queued"
                              ELSE IF Is(f, "interrupt") THEN "progress" ELSE status[f]]
  /\ runing' = TRUE /\ Rearm /\ page' = "uploading"
  /\ nextTick(1)
  /\ UNCHANGED <<promise, blocks, finished, acked>>

\* It only queues when the upload is under way.
startQueues ==
  /\ Click("start") /\ runing
  /\ status' = [f \in Files |-> IF Is(f, "inited") THEN "queued" ELSE status[f]]
  /\ UNCHANGED <<page, engine, blocks, ticks, finished, acked>>

\* stop(): the file that is being prepared is interrupted, others are sent to their
\* end.  ~finished: this click and the one before are more than the millisecond of the
\* timer apart.
stopUpload ==
  /\ Click("stop") /\ runing /\ ~finished
  /\ runing' = FALSE /\ page' = "paused"
  /\ status' = [f \in Files |-> IF f = promise THEN "interrupt" ELSE status[f]]
  /\ UNCHANGED <<promise, trigged, blocks, ticks, finished, acked>>

stopRefused ==
  /\ Click("stop") /\ ~runing
  /\ UNCHANGED <<page, status, engine, blocks, ticks, finished, acked>>

-----------------------------------------------------------------------------
(* _tick *)

Room == Cardinality(Pool) < threads

\* A tick waits while a file is being prepared.
Tick == ticks > 0 /\ promise = NoFile

\* The next block of the current file goes to the pool; the next tick follows.
TickSend(f) ==
  /\ Tick /\ Room /\ f \in Sendable
  /\ Put(shift(f), "hook")
  /\ sending' = sending + 1
  /\ Rearm
  /\ UNCHANGED <<button, status, runing, promise, retried, remaning, ticks, finished, acked>>

\* _prepareNextFile
TickPrepare(f) ==
  /\ Tick /\ Room /\ Sendable = {} /\ runing /\ Is(f, "queued")
  /\ promise' = f /\ SetStatus(f, "progress")
  /\ Rearm /\ ticks' = ticks - 1
  /\ UNCHANGED <<button, runing, blocks, finished, acked>>

NothingToSend ==
  Room => Sendable = {} /\ (runing => \A f \in Files : ~Is(f, "queued"))

AllOver ==
  sending = 0 /\ \A f \in Files : ~Is(f, "queued") /\ ~Is(f, "interrupt")

TickFinish ==
  /\ Tick /\ NothingToSend /\ AllOver
  /\ runing' = FALSE
  /\ finished' = (finished \/ ~trigged)
  /\ trigged' = TRUE /\ ticks' = ticks - 1
  /\ UNCHANGED <<button, status, promise, blocks, acked>>

TickIdle ==
  /\ Tick /\ NothingToSend /\ ~AllOver
  /\ ticks' = ticks - 1
  /\ UNCHANGED <<button, status, engine, blocks, finished, acked>>

-----------------------------------------------------------------------------
(* Callbacks and answers *)

\* The file is prepared: it is cut, and its first block goes to the pool unless the
\* user has interrupted it.
CuteFile(f) ==
  /\ promise = f /\ promise' = NoFile
  /\ remaning' = [remaning EXCEPT ![f] = Count(f)]
  /\ block' = [b \in Blocks |-> IF b[1] # f THEN block[b]
                              ELSE IF b[2] = 0 /\ Is(f, "progress") THEN "hook" ELSE "left"]
  /\ sending' = IF Is(f, "progress") THEN sending + 1 ELSE sending
  /\ nextTick(1)
  /\ UNCHANGED <<button, status, runing, trigged, retried, finished, acked>>

\* The callback of before-send.
doSend(b) ==
  /\ block[b] = "hook" /\ Is(b[1], "progress")
  /\ Put(b, "sent")
  /\ UNCHANGED <<button, status, engine, retried, remaning, sending, ticks, finished, acked>>

\* The file has failed in the meantime.
dontSend(b) ==
  /\ block[b] = "hook" /\ ~Is(b[1], "progress")
  /\ popBlock(b)
  /\ UNCHANGED <<button, status, engine, retried, finished, acked>>

load(b) ==
  /\ block[b] = "sent"
  /\ acked' = acked \cup {b}
  /\ IF IsLast(b[1]) THEN Put(b, "closing") /\ UNCHANGED <<remaning, sending, ticks>>
                     ELSE popBlock(b)
  /\ UNCHANGED <<button, status, engine, retried, finished>>

\* The connection broke, or the server answered 4xx: the block is sent again.
Retry(b) ==
  /\ block[b] = "sent" /\ Chunks[b[1]] > 1 /\ retried[b] < chunkRetry
  /\ retried' = [retried EXCEPT ![b] = @ + 1]
  /\ UNCHANGED <<button, status, engine, block, remaning, sending, ticks, finished, acked>>

\* So often enough, or 5xx, or two minutes without progress: the file has failed.
error(b) ==
  /\ block[b] = "sent"
  /\ SetStatus(b[1], "error")
  /\ uploadComplete(b[1])
  /\ UNCHANGED <<button, engine, retried, finished, acked>>

\* The callback of after-send-file.
finishFile(b) ==
  /\ block[b] = "closing"
  /\ SetStatus(b[1], "complete")
  /\ uploadComplete(b[1])
  /\ UNCHANGED <<button, engine, retried, finished, acked>>

uploadFinished ==
  /\ finished /\ finished' = FALSE
  /\ page' = "done"
  /\ UNCHANGED <<clicks, threads, status, engine, blocks, ticks, acked>>

User ==
  \/ \E f \in Files : addFile(f)
  \/ startUpload \/ startQueues \/ stopUpload \/ stopRefused

tick == (\E f \in Files : TickSend(f) \/ TickPrepare(f)) \/ TickFinish \/ TickIdle

Callback(b) == doSend(b) \/ dontSend(b) \/ finishFile(b)

Answer(b) == load(b) \/ Retry(b) \/ error(b)

Next ==
  \/ User \/ tick \/ uploadFinished
  \/ \E f \in Files : CuteFile(f)
  \/ \E b \in Blocks : Callback(b) \/ Answer(b)

Spec == Init /\ [][Next]_vars

\* The event loop runs every timer and callback; a request ends with an answer, or
\* with the timeout of the transport.  Users need not do anything.
Fairness ==
  /\ WF_vars(tick) /\ WF_vars(uploadFinished)
  /\ \A f \in Files : WF_vars(CuteFile(f))
  /\ \A b \in Blocks : WF_vars(Callback(b)) /\ WF_vars(Answer(b))

FairSpec == Spec /\ Fairness

-----------------------------------------------------------------------------
(* Properties *)

TypeOK ==
  /\ page \in {"pending", "uploading", "paused", "done"} /\ clicks \in Nat
  /\ threads \in Threads
  /\ status \in [Files -> {"none", "inited", "queued", "progress", "interrupt",
                           "complete", "error"}]
  /\ runing \in BOOLEAN /\ trigged \in BOOLEAN /\ finished \in BOOLEAN
  /\ promise \in Files \cup {NoFile}
  /\ block \in [Blocks -> States] /\ retried \in [Blocks -> 0 .. chunkRetry]
  /\ remaning \in [Files -> Nat] /\ sending \in Nat /\ ticks \in Nat
  /\ acked \in SUBSET Blocks

\* The page shows "uploaded" of a file only when each of its blocks was answered with
\* success: IsLast counts, whatever order the answers come in.
ReportedIsAnswered == \A f \in Files : Is(f, "complete") => Of(f) \subseteq acked

Unfinished(f) == {b \in Of(f) : block[b] # "gone"}

\* The two counters that decide what is over agree with the blocks.
CountersAgree ==
  /\ sending = Cardinality(Pool)
  /\ \A f \in Files : Is(f, "progress") /\ promise # f =>
       remaning[f] = Cardinality(Unfinished(f))

\* No request of a file that has ended is under way, and no more than "threads" are.
EndedIsIdle ==
  /\ Cardinality(Pool) <= threads
  /\ \A b \in Blocks : block[b] \in {"sent", "closing"} => Is(b[1], "progress")

\* The upload never stands still without being over: as long as it runs, or a file is
\* in progress, a timer, a callback or an answer is due.
NeverStuck ==
  runing \/ (\E f \in Files : Is(f, "progress")) =>
    ticks > 0 \/ promise # NoFile \/ Pool # {}

\* The button of the page does not go on showing "uploading", whatever the user started.
ButtonComesBack == page = "uploading" ~> page # "uploading"

\* In the end every file that was started has ended, and a file waits only when the
\* user has paused.
NothingWaits ==
  <>[](\A f \in Files :
         Is(f, "progress") \/ Is(f, "queued") \/ Is(f, "interrupt") =>
           page = "paused" /\ ~Is(f, "progress"))

\* With threads: 1 each file is sent as module Upload expects it.
Sender(f) == INSTANCE ChunkSender WITH
  Chunks <- Chunks[f],
  next   <- Cardinality(Of(f) \cap acked),
  wire   <- {b[2] : b \in {c \in Of(f) : block[c] = "sent"}},
  result <- CASE Is(f, "complete") -> "done" [] Is(f, "error") -> "failed" [] OTHER -> "none"

SendsInOrder ==
  /\ \A f \in Files : Sender(f)!Init
  /\ [][threads = 1 => \A f \in Files : [Sender(f)!Next]_(Sender(f)!vars)]_vars

=============================================================================
