------------------------------ MODULE MCCredentials ------------------------------
(***************************************************************************)
(* Credentials for TLC: requests are interchangeable.                      *)
(***************************************************************************)
EXTENDS Credentials, TLC

Interchangeable == Permutations(Request)
=============================================================================
