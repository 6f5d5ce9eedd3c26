----------------------------- MODULE MCAccounts -----------------------------
(* A small instance of Accounts for TLC: admin and one more user, two      *)
(* passwords, two threads of the server.                                   *)
EXTENDS Accounts, TLC

CONSTANTS user, secret, h1, h2

=============================================================================
