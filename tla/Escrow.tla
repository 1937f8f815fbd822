------------------------------- MODULE Escrow -------------------------------
(***************************************************************************)
(* What the coin-flip bank promises, without tokens, allowances, seeds or   *)
(* bets: each session has a pot.  A player puts a stake in it, the house    *)
(* covers it with the same amount, and the whole pot is paid out once, to   *)
(* the player who staked or to the house.  Money moves in no other way,     *)
(* except that the house may give some of its own away.                     *)
(***************************************************************************)
EXTENDS Integers

CONSTANTS Parties, House, Games

Open == 0
Staked == 1
Covered == 2
Closed == 3

VARIABLES
    wealth,  \* party -> money outside the pots
    pot,     \* game -> money in its pot
    staker,  \* game -> who staked
    stage    \* game -> Open, Staked, Covered or Closed

vars == <<wealth, pot, staker, stage>>

Init ==
    /\ wealth \in [Parties -> Nat]
    /\ pot = [g \in Games |-> 0]
    /\ stage = [g \in Games |-> Open]     \* staker is arbitrary until Stake

Stake(p, g) ==
    /\ stage[g] = Open
    /\ pot'[g] > 0
    /\ pot' = [pot EXCEPT ![g] = pot'[g]]
    /\ wealth' = [wealth EXCEPT ![p] = @ - pot'[g]]
    /\ staker' = [staker EXCEPT ![g] = p]
    /\ stage' = [stage EXCEPT ![g] = Staked]

Cover(g) ==
    /\ stage[g] = Staked
    /\ pot' = [pot EXCEPT ![g] = 2 * @]
    /\ wealth' = [wealth EXCEPT ![House] = @ - pot[g]]
    /\ stage' = [stage EXCEPT ![g] = Covered]
    /\ UNCHANGED staker

PayOut(g) ==
    /\ stage[g] = Covered
    /\ \E w \in {staker[g], House} :
           wealth' = [wealth EXCEPT ![w] = @ + pot[g]]
    /\ pot' = [pot EXCEPT ![g] = 0]
    /\ stage' = [stage EXCEPT ![g] = Closed]
    /\ UNCHANGED staker

Give ==
    /\ wealth' = [wealth EXCEPT ![House] = wealth'[House]]
    /\ wealth'[House] <= wealth[House]
    /\ UNCHANGED <<pot, staker, stage>>

Next ==
    \/ \E g \in Games : Cover(g) \/ PayOut(g)
    \/ \E p \in Parties, g \in Games : Stake(p, g)
    \/ Give

Spec == Init /\ [][Next]_vars
=============================================================================
