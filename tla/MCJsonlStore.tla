---------------------------- MODULE MCJsonlStore ----------------------------
(* JsonlStore with a few records: which ones does not matter to the file.  *)
EXTENDS JsonlStore
=============================================================================
