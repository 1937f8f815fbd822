--------------------------- MODULE MCCoinFlipBank ---------------------------
(* A small instance of CoinFlipBank: two sessions, one or two players, a      *)
(* supply of tokens just below MaxU256.                                      *)
EXTENDS CoinFlipBank

CONSTANTS p1, owner

(* One seed of each parity for the player, the opposite for the owner. *)
MCPedersen ==
    [x \in Seeds \X Accounts |-> IF x[2] = owner THEN 1 - (x[1] % 2) ELSE x[1] % 2]

MCInitialBalance == [a \in Accounts |-> IF a = owner THEN 4 ELSE 3]
=============================================================================
