--------------------------- MODULE CoinFlipServer ---------------------------
(***************************************************************************)
(* The game endpoints of the coin-flip server (apps/coinflip/src/routes.rs) *)
(* over the CoinFlipBank contract: deploy, commit, confirm-deposit and play. *)
(*                                                                         *)
(* Each HTTP request is a task that runs to its next await in one step.     *)
(* confirm-deposit and the last phase of play go through sncast_invoke,     *)
(* which holds the FIFO mutex sncast_lock while a child process submits a   *)
(* transaction of the master account and while it polls for the receipt.    *)
(* The proof transaction of play is submitted without that mutex.  deploy   *)
(* is here because confirm-deposit and play read the deployment it stores;  *)
(* Deployments models how it is saved and read back.                        *)
(*                                                                         *)
(* The sequencer and sncast are outside the repository.  The account's      *)
(* transactions are included in nonce order, one per block; a pending one   *)
(* may be included late, revert or be dropped.  A client may disconnect     *)
(* from confirm-deposit, which cancels its handler but not the child        *)
(* process, and the server may crash, which loses every commitment.  A call *)
(* to the node, to sncast or to the prover may never return: none of them   *)
(* has a time-out.                                                          *)
(***************************************************************************)
EXTENDS Integers, Sequences, FiniteSets, FifoLock

CONSTANTS
    Players, Owner, Bank, NoPlayer, NumSessions, Seeds, Bets, MaxU256, Amounts,
    Pedersen, InitialBalance,
    Requests,       \* HTTP requests, each used once
    NoCommitment,   \* the session has no entry in the commitments map
    DeployBlock,    \* block of an earlier CoinFlip deployment
    MaxBlock,       \* bound: blocks of the chain
    MaxAttempts,    \* submissions of a proof (20 in the code)
    MaxCrashes,     \* bound: crashes of the server
    MaxStalls,      \* bound: requests with a call that never returns
    Estimates       \* sncast simulates the call and refuses one that fails

VARIABLES
    game_player, game_amount, game_seed, game_bet, game_state, player_balance,
    balance, allowance,
    commitments,    \* session -> BetCommitment or NoCommitment
    issued,         \* sessions 1..issued have been created
    task,           \* request -> what its handler knows and where it is
    lockQueue,      \* tasks queued on sncast_lock, its holder first
    invoke_tx,      \* request -> the transaction of its sncast_invoke
    proof_tx,       \* request -> the proof transaction of play
    nonces,         \* block -> nonce of the master account after it
    crashes,
    coinflip,       \* state.coinflip: deploy_block of the contract, 0 for None
    bank,           \* state.bank is Some
    seeded,         \* history: session -> coinflip when its seed was stored
    stalled         \* requests whose call to the outside never returns

Contract == INSTANCE CoinFlipBank

bankVars == <<game_player, game_amount, game_seed, game_bet, game_state,
              player_balance, balance, allowance>>
chainVars == <<bankVars, nonces>>
slots == <<coinflip, bank, seeded>>
faults == <<crashes, stalled>>
vars == <<chainVars, commitments, issued, task, lockQueue, invoke_tx, proof_tx, faults,
          slots>>

Sessions == 1..NumSessions
Coins == {0, 1}                      \* bet: u8, min(1)
Block == Len(nonces)                 \* block_number
Nonce == nonces[Block]               \* get_nonce
Max(a, b) == IF a > b THEN a ELSE b

BetCommitment == [player : Players, bet : Coins, seed_block : 0..MaxBlock]

(* A seed is a block number, which is a felt. *)
ASSUME ServerAssumption ==
    /\ NumSessions \in Nat /\ MaxU256 \in Nat /\ MaxBlock \in Nat
    /\ MaxCrashes \in Nat /\ MaxStalls \in Nat /\ MaxAttempts \in Nat \ {0}
    /\ DeployBlock \in 1..MaxBlock
    /\ 0..MaxBlock \subseteq Seeds
    /\ Bank \notin Players \cup {Owner} /\ NoPlayer \notin Players \cup {Owner}
    /\ Amounts \subseteq 0..MaxU256
    /\ InitialBalance \in [Players \cup {Owner} -> 0..MaxU256]
    /\ NoCommitment \notin BetCommitment

(* The stages of a handler.  deploy: lock, sncast, confirm, store.
   confirm-deposit: deposit, lock, sncast, confirm, block, store.
   play: nonce, prove, submit, include, lock, sncast, confirm. *)
Replies == {"deployed", "matched", "result", "error", "cancelled"}
Outside == {"deposit", "sncast", "confirm", "block", "nonce", "prove", "submit",
            "include"}       \* waiting for the node or for a child process
Stages == {"idle", "lock", "store"} \cup Outside \cup Replies

(* seed: the block a deploy or a match was confirmed in, or the seed of a play;
   contract: the deployment a play uses; outcome, won: what its result says
   ("empty" is the empty string). *)
Task == [op : {"none", "deploy", "confirm", "play"}, pc : Stages,
         session : 0..NumSessions, player : Players \cup {NoPlayer}, bet : Coins,
         seed : 0..MaxBlock, contract : 0..MaxBlock, nonce : 0..MaxBlock,
         outcome : {"empty", "heads", "tails"}, won : BOOLEAN, attempt : 1..MaxAttempts,
         settle_tx_hash : BOOLEAN]

Idle == [op |-> "none", pc |-> "idle", session |-> 0, player |-> NoPlayer, bet |-> 0,
         seed |-> 0, contract |-> 0, nonce |-> 0, outcome |-> "empty", won |-> FALSE,
         attempt |-> 1, settle_tx_hash |-> FALSE]

TxStatus == {"none", "running", "failed", "pending", "ok", "reverted", "dropped"}
Tx == [status : TxStatus, seed : 0..MaxBlock, nonce : 0..MaxBlock, block : 0..MaxBlock]
NoTx == [status |-> "none", seed |-> 0, nonce |-> 0, block |-> 0]

(* deploy and bank/deploy have run before: the contracts exist and the master
   account has approved the bank without limit, as the players do before a
   deposit.  A server that starts knows of each contract only if it finds it in
   deployments.json. *)
Init ==
    /\ Contract!Deployed
    /\ allowance = [a \in Players \cup {Owner} |-> MaxU256]
    /\ commitments = [s \in Sessions |-> NoCommitment]
    /\ issued = 0
    /\ task = [r \in Requests |-> Idle]
    /\ lockQueue = <<>>
    /\ invoke_tx = [r \in Requests |-> NoTx]
    /\ proof_tx = [r \in Requests |-> NoTx]
    /\ nonces = [b \in 1..DeployBlock |-> 1]
    /\ crashes = 0
    /\ coinflip \in {0, DeployBlock}
    /\ bank \in BOOLEAN
    /\ seeded = [s \in Sessions |-> 0]
    /\ stalled = {}

Goto(r, stage) == task' = [task EXCEPT ![r].pc = stage]

(* sncast_lock is released, or no longer waited for. *)
Leave(r) == lockQueue' = Leaving(lockQueue, r)

-----------------------------------------------------------------------------
(* POST deploy, when no deployment is stored (otherwise it is returned and
   nothing changes).  The class is declared already: the child that counts is
   the one that deploys. *)
DeployCoinFlip(r) ==
    /\ task[r].pc = "idle"
    /\ coinflip = 0
    /\ task' = [task EXCEPT ![r] = [Idle EXCEPT !.op = "deploy", !.pc = "lock"]]
    /\ lockQueue' = Append(lockQueue, r)
    /\ UNCHANGED <<chainVars, commitments, issued, invoke_tx, proof_tx, faults, slots>>

(* The deployment is stored whatever another request has stored meanwhile. *)
StoreDeployment(r) ==
    /\ task[r].op = "deploy"
    /\ task[r].pc = "store"
    /\ coinflip' = task[r].seed
    /\ Goto(r, "deployed")
    /\ UNCHANGED <<chainVars, commitments, issued, lockQueue, invoke_tx, proof_tx,
                   faults, bank, seeded>>

-----------------------------------------------------------------------------
(* POST commit: a new session; the bet stands for pedersen(bet, nonce). *)
CommitBet(p, b) ==
    /\ issued < NumSessions
    /\ issued' = issued + 1
    /\ commitments' = [commitments EXCEPT ![issued + 1] =
                          [player |-> p, bet |-> b, seed_block |-> 0]]
    /\ UNCHANGED <<chainVars, task, lockQueue, invoke_tx, proof_tx, faults, slots>>

(* deposit-info returns the seed of the commitment; its bet is a placeholder
   that the client overrides. *)
DepositInfoSeed(s) == IF commitments[s] = NoCommitment THEN 0 ELSE commitments[s].seed_block

(* The player's wallet sends the approve + deposit of deposit-info.  Nothing
   ties the player, the amount or the bet of the deposit to the commitment. *)
PlayerDeposit(p, s, n, b) ==
    /\ s <= issued
    /\ Contract!Deposit(p, s, n, DepositInfoSeed(s), b)
    /\ UNCHANGED <<nonces, commitments, issued, task, lockQueue, invoke_tx, proof_tx,
                   faults, slots>>

-----------------------------------------------------------------------------
(* POST confirm-deposit: it waits for the player's deposit first. *)
ConfirmDeposit(r, s) ==
    /\ task[r].pc = "idle"
    /\ task' = [task EXCEPT ![r] = [Idle EXCEPT !.op = "confirm", !.pc = "deposit",
                                                !.session = s]]
    /\ UNCHANGED <<chainVars, commitments, issued, lockQueue, invoke_tx, proof_tx,
                   faults, slots>>

(* Any confirmed transaction hash passes the wait. *)
DepositConfirmed(r) ==
    /\ task[r].pc = "deposit"
    /\ bank
    /\ commitments[task[r].session] # NoCommitment
    /\ Goto(r, "lock")
    /\ lockQueue' = Append(lockQueue, r)
    /\ UNCHANGED <<chainVars, commitments, issued, invoke_tx, proof_tx, faults, slots>>

(* Deposit not confirmed in time, bank not deployed, or no commitment for the
   session. *)
ConfirmRefused(r) ==
    /\ task[r].pc = "deposit"
    /\ Goto(r, "error")
    /\ UNCHANGED <<chainVars, commitments, issued, lockQueue, invoke_tx, proof_tx,
                   faults, slots>>

(* The match has no receipt: block_number().unwrap_or(0). *)
ReadBlockNumber(r) ==
    /\ task[r].pc = "block"
    /\ \E b \in {Block, 0} : task' = [task EXCEPT ![r].pc = "store", ![r].seed = b]
    /\ UNCHANGED <<chainVars, commitments, issued, lockQueue, invoke_tx, proof_tx,
                   faults, slots>>

SeedBlockRaw(confirmed_block) == confirmed_block

SeedBlockNext(confirmed_block) == Max(confirmed_block, coinflip) + 1

(* Nothing requires a CoinFlip contract here: deploy_block.unwrap_or(0). *)
SeedBlock(confirmed_block) == Max(confirmed_block, coinflip)

StoreSeedRevives(r) ==
    LET s == task[r].session IN
    /\ task[r].op = "confirm"
    /\ task[r].pc = "store"
    /\ commitments' = [commitments EXCEPT ![s] =
           IF @ = NoCommitment
           THEN [player |-> CHOOSE p \in Players : TRUE, bet |-> 0,
                 seed_block |-> SeedBlock(task[r].seed)]
           ELSE [@ EXCEPT !.seed_block = SeedBlock(task[r].seed)]]
    /\ seeded' = [seeded EXCEPT ![s] = coinflip]
    /\ Goto(r, "matched")
    /\ UNCHANGED <<chainVars, issued, lockQueue, invoke_tx, proof_tx, faults, coinflip,
                   bank>>

(* get_mut: a commitment that play has consumed meanwhile stays consumed. *)
StoreSeed(r) ==
    LET s == task[r].session
        committed == commitments[s] # NoCommitment
    IN
    /\ task[r].op = "confirm"
    /\ task[r].pc = "store"
    /\ commitments' = [commitments EXCEPT ![s] =
           IF committed THEN [@ EXCEPT !.seed_block = SeedBlock(task[r].seed)] ELSE @]
    /\ seeded' = [seeded EXCEPT ![s] = IF committed THEN coinflip ELSE @]
    /\ Goto(r, "matched")
    /\ UNCHANGED <<chainVars, issued, lockQueue, invoke_tx, proof_tx, faults, coinflip,
                   bank>>

(* The client goes away: the handler's future is dropped at its await.  The
   task of play goes on without its client. *)
ClientDisconnect(r) ==
    /\ task[r].op \in {"deploy", "confirm"}
    /\ task[r].pc \notin Replies
    /\ Goto(r, "cancelled")
    /\ Leave(r)
    /\ UNCHANGED <<chainVars, commitments, issued, invoke_tx, proof_tx, faults, slots>>

-----------------------------------------------------------------------------
(* sncast under its lock: sncast_invoke, called by confirm-deposit
   (match_deposit) and play (settle), and the body of deploy. *)

AcquireLockUnqueued(r) ==
    /\ task[r].pc = "lock"
    /\ Goto(r, "sncast")
    /\ invoke_tx' = [invoke_tx EXCEPT ![r].status = "running", ![r].seed = task[r].seed]
    /\ UNCHANGED <<chainVars, commitments, issued, lockQueue, proof_tx, faults, slots>>

AcquireLockHeadSeed(r) ==
    /\ task[r].pc = "lock"
    /\ Head(lockQueue) = r
    /\ Goto(r, "sncast")
    /\ invoke_tx' = [invoke_tx EXCEPT ![r].status = "running", ![r].seed = Block]
    /\ UNCHANGED <<chainVars, commitments, issued, lockQueue, proof_tx, faults, slots>>

AcquireLock(r) ==
    /\ task[r].pc = "lock"
    /\ Head(lockQueue) = r
    /\ Goto(r, "sncast")
    /\ invoke_tx' = [invoke_tx EXCEPT ![r].status = "running", ![r].seed = task[r].seed]
    /\ UNCHANGED <<chainVars, commitments, issued, lockQueue, proof_tx, faults, slots>>

(* Where the handler goes once the lock is released without a receipt. *)
AfterInvoke(r, pc_confirm, hash) ==
    task' = [task EXCEPT
        ![r].pc = IF task[r].op = "confirm" THEN pc_confirm
                  ELSE IF task[r].op = "play" THEN "result" ELSE "error",
        ![r].settle_tx_hash = hash /\ task[r].op = "play"]

(* The child ended without a transaction hash in its output. *)
SncastNoHash(r) ==
    /\ task[r].pc = "sncast"
    /\ invoke_tx[r].status # "running"
    /\ AfterInvoke(r, "error", FALSE)
    /\ Leave(r)
    /\ UNCHANGED <<chainVars, commitments, issued, invoke_tx, proof_tx, faults, slots>>

SncastHash(r) ==
    /\ task[r].pc = "sncast"
    /\ invoke_tx[r].status \notin {"running", "failed"}
    /\ Goto(r, "confirm")
    /\ UNCHANGED <<chainVars, commitments, issued, lockQueue, invoke_tx, proof_tx,
                   faults, slots>>

(* wait_for_tx returned the receipt of a successful transaction. *)
TxConfirmed(r) ==
    /\ task[r].pc = "confirm"
    /\ invoke_tx[r].status = "ok"
    /\ task' = [task EXCEPT
           ![r].pc = IF task[r].op = "play" THEN "result" ELSE "store",
           ![r].seed = IF task[r].op = "play" THEN @ ELSE invoke_tx[r].block,
           ![r].settle_tx_hash = task[r].op = "play"]
    /\ Leave(r)
    /\ UNCHANGED <<chainVars, commitments, issued, invoke_tx, proof_tx, faults, slots>>

TxUnconfirmedForever(r) ==
    /\ task[r].pc = "confirm"
    /\ invoke_tx[r].status = "reverted"
    /\ AfterInvoke(r, "block", TRUE)
    /\ Leave(r)
    /\ UNCHANGED <<chainVars, commitments, issued, invoke_tx, proof_tx, faults, slots>>

(* wait_for_tx failed: reverted, or 120 s had passed when it looked.  deploy
   returns the error; sncast_invoke logs it and returns Ok with the hash. *)
TxUnconfirmed(r) ==
    /\ task[r].pc = "confirm"
    /\ AfterInvoke(r, "block", TRUE)
    /\ Leave(r)
    /\ UNCHANGED <<chainVars, commitments, issued, invoke_tx, proof_tx, faults, slots>>

-----------------------------------------------------------------------------
(* GET play: with a CoinFlip contract stored, the commitment is consumed before
   anything is validated. *)

PlayKeeps(r, s, p, b) ==
    LET c == commitments[s] IN
    /\ task[r].pc = "idle"
    /\ coinflip # 0
    /\ c # NoCommitment
    /\ p = c.player
    /\ b = c.bet
    /\ task' = [task EXCEPT ![r] =
           [Idle EXCEPT !.op = "play", !.pc = "nonce", !.session = s, !.player = p,
                        !.bet = b, !.seed = c.seed_block, !.contract = coinflip]]
    /\ UNCHANGED <<chainVars, commitments, issued, lockQueue, invoke_tx, proof_tx,
                   faults, slots>>

PlayAccepted(r, s, p, b) ==
    LET c == commitments[s] IN
    /\ task[r].pc = "idle"
    /\ coinflip # 0
    /\ c # NoCommitment
    /\ p = c.player
    /\ b = c.bet
    /\ commitments' = [commitments EXCEPT ![s] = NoCommitment]
    /\ task' = [task EXCEPT ![r] =
           [Idle EXCEPT !.op = "play", !.pc = "nonce", !.session = s, !.player = p,
                        !.bet = b, !.seed = c.seed_block, !.contract = coinflip]]
    /\ UNCHANGED <<chainVars, issued, lockQueue, invoke_tx, proof_tx, faults, slots>>

(* Wrong player, wrong bet or an unparsable nonce: the commitment is gone. *)
PlayRejected(r, s) ==
    /\ task[r].pc = "idle"
    /\ coinflip # 0
    /\ commitments[s] # NoCommitment
    /\ commitments' = [commitments EXCEPT ![s] = NoCommitment]
    /\ task' = [task EXCEPT ![r] = [Idle EXCEPT !.pc = "error", !.session = s]]
    /\ UNCHANGED <<chainVars, issued, lockQueue, invoke_tx, proof_tx, faults, slots>>

(* No CoinFlip contract, or no commitment. *)
PlayRefused(r, s) ==
    /\ task[r].pc = "idle"
    /\ coinflip = 0 \/ commitments[s] = NoCommitment
    /\ task' = [task EXCEPT ![r] = [Idle EXCEPT !.pc = "error", !.session = s]]
    /\ UNCHANGED <<chainVars, commitments, issued, lockQueue, invoke_tx, proof_tx,
                   faults, slots>>

FetchNonceLatest(r) ==
    /\ task[r].pc = "nonce"
    /\ task' = [task EXCEPT ![r].pc = "prove", ![r].nonce = Nonce]
    /\ UNCHANGED <<chainVars, commitments, issued, lockQueue, invoke_tx, proof_tx,
                   faults, slots>>

(* get_nonce_at_block(reference_block); an account that did not exist then
   has nonce 0 on a devnet and is an error elsewhere (PlayFails). *)
FetchNonce(r) ==
    /\ task[r].pc = "nonce"
    /\ task' = [task EXCEPT ![r].pc = "prove",
                            ![r].nonce = IF task[r].seed = 0 THEN 0
                                         ELSE nonces[task[r].seed]]
    /\ UNCHANGED <<chainVars, commitments, issued, lockQueue, invoke_tx, proof_tx,
                   faults, slots>>

(* The outcome in the message of CoinFlip.play, run at the reference block. *)
Flip(r) == Contract!Outcome(task[r].seed, task[r].player)
Side(coin) == IF coin = 0 THEN "heads" ELSE "tails"

(* The proof exists.  The server reads outcome and won from the messages file;
   when that is missing or unreadable it goes on with "" and false.  The
   program can only be executed at a block where the contract is deployed. *)
Prove(r) ==
    /\ task[r].pc = "prove"
    /\ task[r].seed >= task[r].contract
    /\ \E readable \in BOOLEAN :
           task' = [task EXCEPT
               ![r].pc = "submit",
               ![r].outcome = IF ~readable THEN "empty" ELSE Side(Flip(r)),
               ![r].won = readable /\ Flip(r) = task[r].bet]
    /\ UNCHANGED <<chainVars, commitments, issued, lockQueue, invoke_tx, proof_tx,
                   faults, slots>>

(* The gateway takes a transaction whose nonce is the account's current one
   and which no pending transaction already uses. *)
Pending == {t \in {invoke_tx[r] : r \in Requests} \cup {proof_tx[r] : r \in Requests} :
               t.status = "pending"}

NonceFree(n) == n = Nonce /\ \A t \in Pending : t.nonce # n

(* TRANSACTION_RECEIVED, or accepted with the response lost. *)
SubmitProof(r) ==
    /\ task[r].pc = "submit"
    /\ NonceFree(task[r].nonce)
    /\ proof_tx' = [proof_tx EXCEPT ![r].status = "pending", ![r].seed = task[r].seed,
                                    ![r].nonce = task[r].nonce]
    /\ \E stage \in {"include", "error"} : Goto(r, stage)
    /\ UNCHANGED <<chainVars, commitments, issued, lockQueue, invoke_tx, faults, slots>>

(* "too recent" or "stored block hash: 0": sleep and submit again. *)
SubmitNotReady(r) ==
    /\ task[r].pc = "submit"
    /\ task[r].attempt < MaxAttempts
    /\ task' = [task EXCEPT ![r].attempt = @ + 1]
    /\ UNCHANGED <<chainVars, commitments, issued, lockQueue, invoke_tx, proof_tx,
                   faults, slots>>

ProofAssumedIncluded(r) ==
    /\ task[r].pc = "include"
    /\ Goto(r, "lock")
    /\ lockQueue' = Append(lockQueue, r)
    /\ UNCHANGED <<chainVars, commitments, issued, invoke_tx, proof_tx, faults, slots>>

(* wait_for_tx succeeded: go on to sncast_invoke settle(session, seed), unless
   no bank is stored. *)
ProofIncluded(r) ==
    /\ task[r].pc = "include"
    /\ proof_tx[r].status = "ok"
    /\ IF bank THEN Goto(r, "lock") /\ lockQueue' = Append(lockQueue, r)
               ELSE Goto(r, "result") /\ UNCHANGED lockQueue
    /\ UNCHANGED <<chainVars, commitments, issued, invoke_tx, proof_tx, faults, slots>>

(* Every early return of the streaming task: no nonce, prover failed, proof
   files unreadable, rejected, gateway unreachable, retries used up, proof
   transaction reverted or not confirmed within 180 s. *)
PlayFails(r) ==
    /\ task[r].pc \in {"nonce", "prove", "submit", "include"}
    /\ Goto(r, "error")
    /\ UNCHANGED <<chainVars, commitments, issued, lockQueue, invoke_tx, proof_tx,
                   faults, slots>>

-----------------------------------------------------------------------------
(* The environment: sncast's child process, the sequencer, crashes. *)

CanMatch(s) ==
    /\ game_state[s] = Contract!DEPOSITED
    /\ game_amount[s] <= allowance[Owner]
    /\ Contract!CanMove(Owner, Bank, game_amount[s])

CanSettle(s) == game_state[s] = Contract!MATCHED

CallSucceeds(r) ==
    CASE task[r].op = "confirm" -> CanMatch(task[r].session)
      [] task[r].op = "play" -> CanSettle(task[r].session)
      [] OTHER -> TRUE

(* The child outlives a cancelled handler and a crashed server. *)
SncastSubmit(r) ==
    /\ invoke_tx[r].status = "running"
    /\ Estimates => CallSucceeds(r)
    /\ NonceFree(Nonce)
    /\ invoke_tx' = [invoke_tx EXCEPT ![r].status = "pending", ![r].nonce = Nonce]
    /\ UNCHANGED <<chainVars, commitments, issued, task, lockQueue, proof_tx, faults,
                   slots>>

SncastFail(r) ==
    /\ invoke_tx[r].status = "running"
    /\ invoke_tx' = [invoke_tx EXCEPT ![r].status = "failed"]
    /\ UNCHANGED <<chainVars, commitments, issued, task, lockQueue, proof_tx, faults,
                   slots>>

(* A block with a transaction of the master account. *)
Include(t) ==
    /\ t.status = "pending"
    /\ t.nonce = Nonce
    /\ Block < MaxBlock
    /\ nonces' = Append(nonces, Nonce + 1)

IncludeInvoke(r) ==
    LET s == task[r].session
        status == IF CallSucceeds(r) THEN "ok" ELSE "reverted"
    IN
    /\ Include(invoke_tx[r])
    /\ invoke_tx' = [invoke_tx EXCEPT ![r].status = status, ![r].block = Block + 1]
    /\ \/ task[r].op = "confirm" /\ CallSucceeds(r) /\ Contract!MatchDeposit(Owner, s)
       \/ task[r].op = "play" /\ CallSucceeds(r)
             /\ Contract!Settle(Owner, s, invoke_tx[r].seed)
       \/ task[r].op = "deploy" /\ UNCHANGED bankVars
       \/ ~CallSucceeds(r) /\ UNCHANGED bankVars
    /\ UNCHANGED <<commitments, issued, task, lockQueue, proof_tx, faults, slots>>

IncludeProof(r) ==
    /\ Include(proof_tx[r])
    /\ \E status \in {"ok", "reverted"} :
           proof_tx' = [proof_tx EXCEPT ![r].status = status, ![r].block = Block + 1]
    /\ UNCHANGED <<bankVars, commitments, issued, task, lockQueue, invoke_tx, faults,
                   slots>>

(* The mempool evicts a transaction, or its nonce was used by another. *)
DropInvoke(r) ==
    /\ invoke_tx[r].status = "pending"
    /\ invoke_tx' = [invoke_tx EXCEPT ![r].status = "dropped"]
    /\ UNCHANGED <<chainVars, commitments, issued, task, lockQueue, proof_tx, faults,
                   slots>>

DropProof(r) ==
    /\ proof_tx[r].status = "pending"
    /\ proof_tx' = [proof_tx EXCEPT ![r].status = "dropped"]
    /\ UNCHANGED <<chainVars, commitments, issued, task, lockQueue, invoke_tx, faults,
                   slots>>

(* A block with other accounts' transactions only. *)
OtherBlock ==
    /\ Block < MaxBlock
    /\ nonces' = Append(nonces, Nonce)
    /\ UNCHANGED <<bankVars, commitments, issued, task, lockQueue, invoke_tx, proof_tx,
                   faults, slots>>

(* The blocks of the CoinFlip contracts that exist. *)
DeployBlocks ==
    {DeployBlock} \cup {invoke_tx[r].block : r \in
        {q \in Requests : task[q].op = "deploy" /\ invoke_tx[q].status = "ok"}}

(* CoinFlipAppState::new starts with an empty commitments map and reads the
   deployments back: a contract saved earlier, or none when the file is missing,
   torn or older than the contract. *)
Crash ==
    /\ crashes < MaxCrashes
    /\ crashes' = crashes + 1
    /\ commitments' = [s \in Sessions |-> NoCommitment]
    /\ task' = [r \in Requests |->
           IF task[r].pc \in Replies \cup {"idle"} THEN task[r]
           ELSE [task[r] EXCEPT !.pc = "cancelled"]]
    /\ lockQueue' = <<>>
    /\ coinflip' \in {0} \cup DeployBlocks
    /\ bank' \in {FALSE, bank}
    /\ UNCHANGED <<chainVars, issued, invoke_tx, proof_tx, seeded, stalled>>

(* A call to the node or a child process never returns: reqwest::Client::new()
   has no time-out, wait_for_tx looks at its deadline only between two calls,
   and output().await and child.wait() have none. *)
Stall(r) ==
    /\ Cardinality(stalled) < MaxStalls
    /\ task[r].pc \in Outside
    /\ stalled' = stalled \cup {r}
    /\ UNCHANGED <<chainVars, commitments, issued, task, lockQueue, invoke_tx, proof_tx,
                   crashes, slots>>

-----------------------------------------------------------------------------
(* Steps that a running handler takes by itself. *)
Handler(r) ==
    /\ r \notin stalled
    /\ \/ AcquireLock(r) \/ SncastNoHash(r) \/ SncastHash(r)
       \/ TxConfirmed(r) \/ TxUnconfirmed(r) \/ StoreDeployment(r)
       \/ DepositConfirmed(r) \/ ConfirmRefused(r) \/ ReadBlockNumber(r) \/ StoreSeed(r)
       \/ FetchNonce(r) \/ Prove(r) \/ SubmitProof(r) \/ SubmitNotReady(r)
       \/ ProofIncluded(r) \/ PlayFails(r)

Sncast(r) == r \notin stalled /\ (SncastSubmit(r) \/ SncastFail(r))

Chain(r) == IncludeInvoke(r) \/ IncludeProof(r) \/ DropInvoke(r) \/ DropProof(r)

Next ==
    \/ \E p \in Players, b \in Coins : CommitBet(p, b)
    \/ \E p \in Players, s \in Sessions, n \in Amounts, b \in Bets :
           PlayerDeposit(p, s, n, b)
    \/ \E r \in Requests, s \in Sessions :
           ConfirmDeposit(r, s) \/ PlayRejected(r, s) \/ PlayRefused(r, s)
    \/ \E r \in Requests, s \in Sessions, p \in Players, b \in Coins :
           PlayAccepted(r, s, p, b)
    \/ \E r \in Requests : DeployCoinFlip(r) \/ Handler(r) \/ ClientDisconnect(r)
                              \/ Sncast(r) \/ Chain(r) \/ Stall(r)
    \/ OtherBlock
    \/ Crash

Spec == Init /\ [][Next]_vars

(* The runtime polls a handler whose call has returned, and a child process
   that is not hung ends.  A call that never returns is a Stall, and nothing is
   promised after it. *)
FairSpec == Spec /\ \A r \in Requests : WF_vars(Handler(r)) /\ WF_vars(Sncast(r))

-----------------------------------------------------------------------------
(* Properties. *)

(* The server's maps, its tasks and its transactions keep their types
   (BetCommitment, InvokeResult). *)
TypeOK ==
    /\ Contract!TypeOK
    /\ commitments \in [Sessions -> BetCommitment \cup {NoCommitment}]
    /\ issued \in 0..NumSessions
    /\ task \in [Requests -> Task]
    /\ lockQueue \in Seq(Requests)
    /\ invoke_tx \in [Requests -> Tx]
    /\ proof_tx \in [Requests -> Tx]
    /\ nonces \in Seq(1..MaxBlock)
    /\ crashes \in 0..MaxCrashes
    /\ coinflip \in 0..MaxBlock
    /\ bank \in BOOLEAN
    /\ seeded \in [Sessions -> 0..MaxBlock]
    /\ stalled \subseteq Requests

(* sncast_lock excludes: a handler that runs sncast or waits for its receipt is
   the head of the lock's queue, and whoever is in the queue still wants the
   lock, so that neither an error path, a disconnected client nor a crash
   leaves the mutex held by nobody (sncast_invoke). *)
LockDiscipline ==
    /\ \A r \in Requests : task[r].pc \in {"sncast", "confirm"} =>
           lockQueue # <<>> /\ Head(lockQueue) = r
    /\ \A i \in 1..Len(lockQueue) : task[lockQueue[i]].pc \in {"lock", "sncast", "confirm"}

(* A commitment is played at most once, whatever the order of confirm-deposit,
   play, disconnects and crashes (play_coinflip removes it first). *)
OnePlay ==
    \A q, r \in Requests :
        /\ task[q].op = "play"
        /\ task[r].op = "play"
        /\ task[q].session = task[r].session
        => q = r

(* Money leaves the bank only after the proof of the same game with the same
   seed was included successfully in an earlier block (play_coinflip, phases
   4 and 5). *)
SettledAfterProof ==
    \A s \in Sessions : game_state[s] = Contract!SETTLED =>
        \E r \in Requests :
            /\ task[r].op = "play"
            /\ task[r].session = s
            /\ proof_tx[r].status = "ok"
            /\ invoke_tx[r].status = "ok"
            /\ proof_tx[r].seed = invoke_tx[r].seed
            /\ proof_tx[r].block < invoke_tx[r].block

(* The virtual run that is proved and the settlement on the chain agree: when
   the player deposited with the committed bet, the player whose result shows
   an outcome is told "won" exactly when settle paid the player, and a result
   without an outcome never says "won" (CoinFlip.play and CoinFlipBank.settle
   derive the outcome separately, from a seed the server passes to each). *)
HonestReport ==
    \A r \in Requests :
        LET t == task[r] IN
        /\ t.op = "play"
        /\ invoke_tx[r].status = "ok"
        /\ game_player[t.session] = t.player
        /\ game_bet[t.session] = t.bet
        => (t.won <=> /\ t.outcome # "empty"
                      /\ Contract!PlayerWins(t.session, invoke_tx[r].seed))

(* A proof gets into a block only while the master account is as it was at the
   seed block: no match or settlement of any request lies between the two,
   although the proof is submitted outside sncast_lock and a match may be
   included after its wait gave up (get_nonce_at_block, routes.rs:428). *)
ProofFollowsSeed ==
    \A q, r \in Requests :
        proof_tx[r].block # 0 =>
            invoke_tx[q].block \notin (proof_tx[r].seed + 1)..proof_tx[r].block

(* A play can be proved unless its contract is not the one that confirm-deposit
   saw when it locked the seed: the seed is a block that exists and in which
   that contract is deployed, also when block_number failed (confirm_deposit's
   max with deploy_block).  confirm-deposit may have seen none, or another one:
   then the seed may lie before the contract and Prove is never enabled. *)
SeedProvable ==
    \A r \in Requests :
        LET t == task[r] IN
        t.op = "play" /\ t.contract = seeded[t.session] => t.seed \in t.contract..Block

(* A commitment consumed by play, or lost in a crash, never comes back, even
   when a confirm-deposit that started earlier stores its seed afterwards. *)
CommitmentNeverRevived ==
    [][\A s \in 1..issued : commitments[s] = NoCommitment =>
                                commitments'[s] = NoCommitment]_vars

(* A request waits for ever only for a call that never returns: its own, or that
   of the request that holds sncast_lock.  No order of lock acquisitions,
   time-outs, lost transactions and disconnects does it otherwise. *)
Answered ==
    \A r \in Requests :
        task[r].pc # "idle" ~>
            \/ task[r].pc \in Replies
            \/ r \in stalled
            \/ task[r].pc = "lock" /\ Head(lockQueue) \in stalled

-----------------------------------------------------------------------------
(* What a comment and a log line say of the program. *)

(* "match_deposit has already been confirmed BEFORE seed_block was locked"
   (routes.rs:416): a seed is set only once a match of the session is in a
   block up to it. *)
SeedAfterMatch ==
    \A s \in Sessions :
        commitments[s] # NoCommitment /\ commitments[s].seed_block # 0 =>
            \E r \in Requests :
                /\ task[r].op = "confirm"
                /\ task[r].session = s
                /\ invoke_tx[r].status = "ok"
                /\ invoke_tx[r].block <= commitments[s].seed_block

(* The log line "Settlement confirmed" (routes.rs:795), sent with every
   settle_tx_hash: the settlement is in a block and succeeded. *)
SettlementConfirmed ==
    \A r \in Requests : task[r].settle_tx_hash => invoke_tx[r].status = "ok"
=============================================================================
