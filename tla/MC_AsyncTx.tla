---------------------------- MODULE MC_AsyncTx ----------------------------
(* The bit source under the framings async_tests.c uses (8N1, 7E1, 8O1,    *)
(* 5N2) and the others of the same field ranges.                           *)
EXTENDS AsyncTx
====
