--------------------------- MODULE MCWebUploader ---------------------------
(* A small instance of WebUploader for TLC: one file in three blocks, one in one. *)
EXTENDS WebUploader, TLC

CONSTANTS big, small

BlocksOf == big :> 3 @@ small :> 1

=============================================================================
