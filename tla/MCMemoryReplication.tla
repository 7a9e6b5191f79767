------------------------- MODULE MCMemoryReplication ------------------------
(***************************************************************************)
(* MemoryReplication on a small instance.                                  *)
(***************************************************************************)
EXTENDS MemoryReplication

=============================================================================
