----------------------------- MODULE MCLogStore -----------------------------
(* Small instances of the ingestion pipeline; the configurations differ in  *)
(* the failures, starts and purges they allow.                              *)
EXTENDS LogStore
=============================================================================
