---------------------------- MODULE ChunkSender ----------------------------
(***************************************************************************)
(* What the view uploadfile expects of the page that sends it one file:    *)
(* the chunks in order, one at a time, a chunk again only while it is not  *)
(* answered, and no success before every chunk was answered.  This is the  *)
(* client of module Upload (Send, Retry, Reply).  WebUploader implements   *)
(* it.                                                                     *)
(***************************************************************************)
EXTENDS Naturals

CONSTANT Chunks            \* chunks of the file

VARIABLES
  next,      \* chunks answered
  wire,      \* {}, or the number of the chunk that is on its way
  result     \* "none", "done" or "failed"

vars == <<next, wire, result>>

Init == next = 0 /\ wire = {} /\ result = "none"

\* A chunk is sent, or sent again.
Send ==
  /\ result = "none" /\ next < Chunks
  /\ wire' = {next}
  /\ UNCHANGED <<next, result>>

Answer ==
  /\ result = "none" /\ wire = {next}
  /\ next' = next + 1 /\ wire' = {}
  /\ UNCHANGED result

Succeed ==
  /\ result = "none" /\ next = Chunks
  /\ result' = "done"
  /\ UNCHANGED <<next, wire>>

GiveUp ==
  /\ result = "none"
  /\ result' = "failed" /\ wire' = {}
  /\ UNCHANGED next

Next == Send \/ Answer \/ Succeed \/ GiveUp

Spec == Init /\ [][Next]_vars

=============================================================================
