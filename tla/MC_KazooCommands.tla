-------------------------- MODULE MC_KazooCommands --------------------------
(***************************************************************************)
(* Model-checking instance of KazooCommands: two API threads, a plain      *)
(* variable "a" and one effective_* name "e", or a single thread.           *)
(***************************************************************************)
EXTENDS KazooCommands

CONSTANTS t1, t2

MC_Threads == {t1, t2}

MC_OneThread == {t1}
=============================================================================
