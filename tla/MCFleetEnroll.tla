---------------------------- MODULE MCFleetEnroll ----------------------------
(* Model-checking instance of FleetEnroll: one agent id, two Fleet URLs,  *)
(* two tokens, three API keys and ackFleet's three attempts.              *)
EXTENDS FleetEnroll

MCIds == {"a1"}
MCURLs == {"u1", "u2"}
MCTokens == {"t1", "t2"}

=============================================================================
