------------------------- MODULE MCRedisConnections -------------------------
(***************************************************************************)
(* RedisConnections: all its state is small but the number of dials.       *)
(***************************************************************************)
EXTENDS RedisConnections

=============================================================================
