-------------------------- MODULE MCCoinFlipServer --------------------------
(* A small instance of CoinFlipServer: the requests of one or two sessions    *)
(* over a chain of a few blocks.                                             *)
EXTENDS CoinFlipServer, TLC

CONSTANTS owner

(* The parity alternates with the block that is the seed. *)
MCPedersen == [x \in Seeds \X (Players \cup {Owner}) |-> (x[1] + 1) % 2]

MCInitialBalance == [a \in Players \cup {Owner} |-> 2]

(* Requests are interchangeable. *)
Symmetry == Permutations(Requests)
=============================================================================
