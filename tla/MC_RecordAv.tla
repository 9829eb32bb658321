---------------------------- MODULE MC_RecordAv ----------------------------
(* record_av with one lead frame, reads of one unit against an encoder     *)
(* frame of two (a packet every second read), a queue of three images.      *)
EXTENDS RecordAv
====
