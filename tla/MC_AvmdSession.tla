--------------------------- MODULE MC_AvmdSession ---------------------------
(* Instance of AvmdSession for TLC: avmd.conf as an outbound configuration *)
(* with fast_math, an inbound one, one whose sample_n_to_skip does not    *)
(* parse after it has set inbound_channel, or missing; avmd_start data    *)
(* that is empty, malformed, or switches the session to inbound.          *)
EXTENDS AvmdSession

CONSTANTS b1, b2, nobug

MC_Bugs == {b1, b2}

Bad(f) == [f |-> f, v |-> 0, ok |-> FALSE]

MC_XmlFiles ==
    { [exists |-> TRUE,  params |-> <<P("fm", 1), P("out", 1), P("in", 0)>>],
      [exists |-> TRUE,  params |-> <<P("in", 1), P("out", 0)>>],
      [exists |-> TRUE,  params |-> <<P("in", 1), Bad("skip")>>],
      [exists |-> FALSE, params |-> <<>>] }

MC_AppArgs ==
    { NullArg,
      [ok |-> FALSE, w |-> <<>>],
      [ok |-> TRUE,  w |-> <<P("in", 1), P("out", 0)>>] }
====
