-------------------------- MODULE MCVirtualProver --------------------------
(* Every set of reads over two contracts with two keys each, with a limit   *)
(* of two keys for a request: up to four chunks.                            *)
EXTENDS VirtualProver
=============================================================================
