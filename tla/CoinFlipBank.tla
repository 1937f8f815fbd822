---------------------------- MODULE CoinFlipBank ----------------------------
(***************************************************************************)
(* The CoinFlipBank contract (tests/contracts/src/lib.cairo): it holds the  *)
(* STRK stakes of coin-flip games.  A player deposits, the owner (the       *)
(* server's master account) matches the stake, and the owner settles,       *)
(* which pays both stakes to the player or to the owner.                    *)
(*                                                                         *)
(* The STRK token is outside the repository: it is modelled from the way    *)
(* the contract and the server use it, as a table of balances and a table   *)
(* of the allowances granted to the bank.  A call whose assertion fails     *)
(* reverts: it changes nothing, so it is a disabled action.                 *)
(***************************************************************************)
EXTENDS Integers

CONSTANTS
    Players,        \* accounts that deposit
    Owner,          \* the account passed to the constructor
    Bank,           \* the address of the contract itself
    NoPlayer,       \* the zero address, default of an unwritten game_player
    NumSessions,    \* session ids are felts; a behaviour uses 1..NumSessions
    Seeds,          \* felts passed as seed
    Bets,           \* felts passed as bet; the contract does not check them
    MaxU256,        \* largest u256
    Amounts,        \* u256 values passed as an amount
    Pedersen,       \* parity of the low half of pedersen(seed, player)
    InitialBalance  \* STRK held by each account when the bank is deployed

Sessions == 1..NumSessions
Accounts == Players \cup {Owner}
Holders == Accounts \cup {Bank}
U256 == 0..MaxU256

ASSUME BankAssumption ==
    /\ NumSessions \in Nat
    /\ MaxU256 \in Nat
    /\ Bank \notin Accounts
    /\ NoPlayer \notin Accounts
    /\ Amounts \subseteq U256
    /\ Pedersen \in [Seeds \X Accounts -> {0, 1}]
    /\ InitialBalance \in [Accounts -> U256]

(* Game states: lib.cairo STATE_* *)
EMPTY == 0
DEPOSITED == 1
MATCHED == 2
SETTLED == 3

VARIABLES
    game_player,    \* session -> account that deposited
    game_amount,    \* session -> stake of the player
    game_seed,      \* session -> seed passed to deposit (never read again)
    game_bet,       \* session -> bet passed to deposit
    game_state,     \* session -> EMPTY, DEPOSITED, MATCHED or SETTLED
    player_balance, \* account -> withdrawable winnings
    balance,        \* STRK: holder -> tokens
    allowance       \* STRK: account -> tokens the bank may still pull

gameVars == <<game_player, game_amount, game_seed, game_bet, game_state>>
tokenVars == <<balance, allowance>>
vars == <<game_player, game_amount, game_seed, game_bet, game_state,
          player_balance, balance, allowance>>

(* The constructor leaves every map at its default. *)
Deployed ==
    /\ game_player = [s \in Sessions |-> NoPlayer]
    /\ game_amount = [s \in Sessions |-> 0]
    /\ game_seed = [s \in Sessions |-> 0]
    /\ game_bet = [s \in Sessions |-> 0]
    /\ game_state = [s \in Sessions |-> EMPTY]
    /\ player_balance = [a \in Accounts |-> 0]
    /\ balance = [h \in Holders |-> IF h = Bank THEN 0 ELSE InitialBalance[h]]

Init ==
    /\ Deployed
    /\ allowance = [a \in Accounts |-> 0]

-----------------------------------------------------------------------------
(* STRK.  Balances are u256: a credit that overflows reverts. *)
CanMove(from, to, n) ==
    /\ n <= balance[from]
    /\ from # to => balance[to] + n <= MaxU256

Move(from, to, n) == [balance EXCEPT ![from] = @ - n, ![to] = @ + n]

transfer(to, n) ==
    /\ CanMove(Bank, to, n)
    /\ balance' = Move(Bank, to, n)
    /\ UNCHANGED allowance

transfer_from(from, n) ==
    /\ n <= allowance[from]
    /\ CanMove(from, Bank, n)
    /\ balance' = Move(from, Bank, n)
    /\ allowance' = [allowance EXCEPT ![from] = @ - n]

(* An account grants the bank an allowance: the player in the multicall of
   deposit-info, the server in deploy_bank. *)
Approve(account, n) ==
    /\ allowance' = [allowance EXCEPT ![account] = n]
    /\ UNCHANGED <<gameVars, player_balance, balance>>

(* deploy_bank pre-funds the contract with a plain token transfer. *)
Fund(n) ==
    /\ CanMove(Owner, Bank, n)
    /\ balance' = Move(Owner, Bank, n)
    /\ UNCHANGED <<gameVars, player_balance, allowance>>

-----------------------------------------------------------------------------
(* The contract's entry points. *)

DepositUnchecked(caller, session_id, bet_amount, seed, bet) ==
    /\ bet_amount > 0
    /\ transfer_from(caller, bet_amount)
    /\ game_player' = [game_player EXCEPT ![session_id] = caller]
    /\ game_amount' = [game_amount EXCEPT ![session_id] = bet_amount]
    /\ game_seed' = [game_seed EXCEPT ![session_id] = seed]
    /\ game_bet' = [game_bet EXCEPT ![session_id] = bet]
    /\ game_state' = [game_state EXCEPT ![session_id] = DEPOSITED]
    /\ UNCHANGED player_balance

DepositAnonymous(caller, session_id, bet_amount, seed, bet) ==
    /\ bet_amount > 0
    /\ game_state[session_id] = EMPTY
    /\ transfer_from(caller, bet_amount)
    /\ game_amount' = [game_amount EXCEPT ![session_id] = bet_amount]
    /\ game_seed' = [game_seed EXCEPT ![session_id] = seed]
    /\ game_bet' = [game_bet EXCEPT ![session_id] = bet]
    /\ game_state' = [game_state EXCEPT ![session_id] = DEPOSITED]
    /\ UNCHANGED <<game_player, player_balance>>

Deposit(caller, session_id, bet_amount, seed, bet) ==
    /\ bet_amount > 0
    /\ game_state[session_id] = EMPTY
    /\ transfer_from(caller, bet_amount)
    /\ game_player' = [game_player EXCEPT ![session_id] = caller]
    /\ game_amount' = [game_amount EXCEPT ![session_id] = bet_amount]
    /\ game_seed' = [game_seed EXCEPT ![session_id] = seed]
    /\ game_bet' = [game_bet EXCEPT ![session_id] = bet]
    /\ game_state' = [game_state EXCEPT ![session_id] = DEPOSITED]
    /\ UNCHANGED player_balance

MatchDepositFree(caller, session_id) ==
    /\ caller = Owner
    /\ game_state[session_id] = DEPOSITED
    /\ game_state' = [game_state EXCEPT ![session_id] = MATCHED]
    /\ UNCHANGED <<game_player, game_amount, game_seed, game_bet, player_balance,
                   tokenVars>>

MatchDeposit(caller, session_id) ==
    /\ caller = Owner
    /\ game_state[session_id] = DEPOSITED
    /\ transfer_from(caller, game_amount[session_id])
    /\ game_state' = [game_state EXCEPT ![session_id] = MATCHED]
    /\ UNCHANGED <<game_player, game_amount, game_seed, game_bet, player_balance>>

Outcome(seed, player) == Pedersen[<<seed, player>>]

(* settle takes the seed as an argument and does not read game_seed. *)
PlayerWins(session_id, seed) ==
    Outcome(seed, game_player[session_id]) = game_bet[session_id]

Winner(session_id, seed) ==
    IF PlayerWins(session_id, seed) THEN game_player[session_id] ELSE Owner

SettleAgain(caller, session_id, seed) ==
    /\ caller = Owner
    /\ game_state[session_id] = MATCHED
    /\ 2 * game_amount[session_id] <= MaxU256
    /\ transfer(Winner(session_id, seed), 2 * game_amount[session_id])
    /\ UNCHANGED <<gameVars, player_balance>>

Settle(caller, session_id, seed) ==
    /\ caller = Owner
    /\ game_state[session_id] = MATCHED
    /\ 2 * game_amount[session_id] <= MaxU256       \* u256 multiplication
    /\ transfer(Winner(session_id, seed), 2 * game_amount[session_id])
    /\ game_state' = [game_state EXCEPT ![session_id] = SETTLED]
    /\ UNCHANGED <<game_player, game_amount, game_seed, game_bet, player_balance>>

(* withdraw asserts a positive balance; nothing ever credits one, so the call
   that can happen is the one that reverts. *)
Withdraw(caller) ==
    IF player_balance[caller] > 0
    THEN /\ transfer(caller, player_balance[caller])
         /\ player_balance' = [player_balance EXCEPT ![caller] = 0]
         /\ UNCHANGED gameVars
    ELSE UNCHANGED vars

Next ==
    \/ \E a \in Accounts, n \in Amounts : Approve(a, n)
    \/ \E n \in Amounts : Fund(n)
    \/ \E c \in Accounts, s \in Sessions, n \in Amounts, d \in Seeds, b \in Bets :
           Deposit(c, s, n, d, b)
    \/ \E c \in Accounts, s \in Sessions : MatchDeposit(c, s)
    \/ \E c \in Accounts, s \in Sessions, d \in Seeds : Settle(c, s, d)
    \/ \E c \in Accounts : Withdraw(c)

Spec == Init /\ [][Next]_vars

-----------------------------------------------------------------------------
(* Properties. *)

(* The storage of the contract and the STRK tables keep their types, and a
   game has a player exactly from its deposit on (lib.cairo Storage). *)
TypeOK ==
    /\ game_player \in [Sessions -> Accounts \cup {NoPlayer}]
    /\ game_amount \in [Sessions -> U256]
    /\ game_seed \in [Sessions -> Seeds \cup {0}]
    /\ game_bet \in [Sessions -> Bets \cup {0}]
    /\ game_state \in [Sessions -> {EMPTY, DEPOSITED, MATCHED, SETTLED}]
    /\ \A s \in Sessions : game_player[s] = NoPlayer <=> game_state[s] = EMPTY
    /\ player_balance \in [Accounts -> U256]
    /\ balance \in [Holders -> U256]
    /\ allowance \in [Accounts -> U256]

(* What the contract owes on a session. *)
Held(s) ==
    IF game_state[s] = DEPOSITED THEN game_amount[s]
    ELSE IF game_state[s] = MATCHED THEN 2 * game_amount[s]
    ELSE 0

HeldBy == [s \in Sessions |-> Held(s)]

(* PrefixSum(h)[i] is h[1] + ... + h[i]. *)
PrefixSum(h) ==
    LET sum[i \in 0..NumSessions] == IF i = 0 THEN 0 ELSE sum[i - 1] + h[i]
    IN  sum

Escrowed == PrefixSum(HeldBy)[NumSessions]

(* The tokens the contract holds always cover every open game at once: no
   order of deposits, matches and settlements lets one session be paid with
   another session's stake (lib.cairo deposit, match_deposit, settle). *)
Solvency == Escrowed <= balance[Bank]

(* A matched game can be settled whatever the seed: the doubling in settle
   does not overflow and the transfer does not revert, so the state machine
   has no funds-stuck state that only settle's own arithmetic causes. *)
SettleNeverReverts ==
    \A s \in Sessions, d \in Seeds :
        game_state[s] = MATCHED =>
            /\ 2 * game_amount[s] <= MaxU256
            /\ CanMove(Bank, Winner(s, d), 2 * game_amount[s])

(* A session id is never reused and a game never goes back: once deposited,
   its player, amount and bet are fixed, and its state only moves
   DEPOSITED, MATCHED, SETTLED (the assertions on game_state). *)
GameTermsFixed ==
    [][\A s \in Sessions :
          game_state[s] # EMPTY =>
              /\ game_player'[s] = game_player[s]
              /\ game_amount'[s] = game_amount[s]
              /\ game_bet'[s] = game_bet[s]
              /\ game_state'[s] \in {game_state[s], game_state[s] + 1}]_vars

(* The bank implements the abstract escrow: a pot holds what the contract
   owes on the session, and every entry point is a move of the escrow or
   changes none of its money. *)
Ledger == INSTANCE Escrow WITH
    Parties <- Accounts,
    House <- Owner,
    Games <- Sessions,
    wealth <- [a \in Accounts |-> balance[a]],
    pot <- HeldBy,
    staker <- game_player,
    stage <- game_state

ImplementsEscrow == Ledger!Spec
=============================================================================
