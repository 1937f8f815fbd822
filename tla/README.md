# Verification of the SNIP-36 web prover

TLA+ models of the parts of this repository that keep state and run
concurrently, the TLC runs that check them on small instances, and proofs that
TLAPS checks for every value of the constants. `PROJECT.json` lists components,
runs, mutants, the map from definitions to source lines, findings, hazards and
theorems; this file explains them.

Run a model with `tlc -workers 2 -config <cfg> <module>` and the proofs of a
component with `tlapm <component>Proofs.tla`.

## 1. Inventory

| Component | State | Operations | Interacts with |
|---|---|---|---|
| `CoinFlipBank` contract (`tests/contracts/src/lib.cairo`) | `game_*` maps, `player_balance`, tokens held | `deposit`, `match_deposit`, `settle`, `withdraw`, views | STRK token, master account (owner), player wallets |
| `CoinFlip` contract (same file) | none | `play` emits the outcome as a message | run off-chain at the seed block and proved |
| Coin-flip game endpoints (`apps/coinflip/src/routes.rs`, `state.rs`) | `commitments` map in memory, `sncast_lock`, one task per request | `commit`, `deposit-info`, `confirm-deposit`, `play`, `sncast_invoke` | sncast child processes, prover child process, gateway, RPC node, bank contract |
| Coin-flip deployments (same files) | `coinflip` and `bank` slots, `deployments.json` | `deploy`, `bank/deploy`, `save_deployments`, `load_deployments` | sncast, file system, restarts |
| Storage-proof provider (`crates/starknet-transaction-prover-wasm/src/running/storage_proofs.rs`) | none between calls | build, split, fetch and merge a proof query; build commitment infos | RPC node, committer |
| Virtual block prover (rest of that crate) | execution data, caches | validate, execute, fetch proofs and classes, run the OS, prove | storage-proof provider, state reader |
| Re-execution state reader (`crates/blockifier-reexecution-wasm`) | contract-class cache | reads at a fixed block | RPC node |
| RPC client (`crates/snip36-core/src/rpc.rs`) | none | calls, `wait_for_tx`, `wait_for_block_after` | node |
| Hashing and signing (`crates/snip36-core/src/signing.rs`, `types.rs`) | none | transaction hash v3, payload | all submitters |
| Counter endpoints (`apps/counter/src/routes.rs`) | sessions of the server, proof files | `deploy-counter`, `invoke`, `prove-block`, `submit-proof` | sncast, prover, node |
| End-to-end drivers (`apps/*/src/e2e*.rs`, `health.rs`) | none | scripted flows with retries | node, gateway |
| Web clients (`web/coinflip`, `web/frontend`) | view state | call the endpoints in order | server |

Hard behaviours, by component:

* bank: sessions share one token balance; there is no refund, so a revert in
  `settle` would lock both stakes;
* game endpoints: handlers interleave at every await; a transaction may be late,
  reverted or lost; `wait_for_tx` may give up before it lands; a call without a
  time-out may never return and keep the lock; a client may disconnect and leave
  a child process behind; a crash loses the commitments but not the
  transactions; the proof transaction and the sncast calls share one account
  nonce; a server may not know one of its contracts;
* deployments: a check before an await and an action after it; two saves of one
  file; a crash in a write; a read lock kept across a request to the node;
* storage proofs: a chunk boundary inside a contract's keys;
* virtual block prover: the header, the simulation, the classes and each chunk
  of the proof are separate requests to a node that may reorganise in between;
* counter endpoints: sessions share one account, the requests of a session
  share files and a reference block, a submission is repeated after an error
  that may hide an acceptance, a product may overflow a u64;
* drivers: each step has its own idea of what a failure means, from stopping to
  ignoring it.

What makes each correct: the bank is solvent, never stuck by its own
arithmetic, and is an escrow; a commitment is played once, money moves only
after the proof, and the player is told the truth; what is stored exists on the
chain and survives a restart; a chunked proof is the whole proof; a proof is
about one state of the chain; an increment lands once, in the state it was
proved in; a green test run is true.

## 2. Modules

* **`Escrow`**: the abstract promise of the bank. A pot for each game: the player
  stakes, the house covers, the pot is paid once to one of the two.
* **`CoinFlipBank`**: the contract and the STRK tables. Every assertion of an
  entry point is a guard (a failing call reverts and changes nothing). Amounts
  are u256 values `0..MaxU256`; `Pedersen` is a constant function that gives the
  parity the contracts derive from a seed and a player. `ImplementsEscrow`
  maps `wealth` to wallet balances, `pot` to what the contract owes on a session
  (`HeldBy`), `staker` to `game_player` and `stage` to `game_state`.
* **`FifoLock`**: `sncast_lock` of the two servers, a tokio mutex: the queue of the
  tasks that asked for it, its head the holder, and what dropping a guard or a
  waiting future does to it.
* **`CoinFlipServer`**: the game endpoints over an instance of `CoinFlipBank`. A
  request is a task with a stage (`pc`); a step runs it to its next await.
  `lockQueue` is the queue of the mutex. `invoke_tx[r]` is the
  child process and then the transaction of `sncast_invoke`; `proof_tx[r]` the
  transaction with the proof. A session id (a fresh UUID) is a number counted by
  `issued`; `pedersen(bet, nonce)` is abstracted to the bet it binds. A
  commitment's `bet_amount` is written by deposit-info and never read, and is
  left out. `bank` and `coinflip` say what the server knows of its contracts: each
  may be missing from the file it starts with, and a deploy sets `coinflip`, also when
  another has set it meanwhile. `commit` and `confirm-deposit` need the bank only, so a
  seed can be locked without a CoinFlip contract (`deploy_block.unwrap_or(0)`);
  `seeded` remembers the deployment that confirm-deposit saw and `contract` the
  one that a play runs. A messages file that is missing or unreadable leaves
  `won` false and the outcome empty, and the game is settled all the same. `Stall`
  is a call that never returns.
* **`Deployments`**: the two deploy endpoints, bank/status, the file and restarts.
  A request deploys at most one contract, so the request names it. `fs::write` is
  two steps, truncate and write. bank/status keeps the bank's read lock while it
  asks the node (`routes.rs:840-851`); tokio's lock is fair, so a store that waits
  for it blocks the readers that come after. A handler may be dropped at every
  await, those of a store and of a save included.
* **`StorageProofs`**: operators named after the functions of
  `storage_proofs.rs`, and the actions of the fetch loop. It is a component: the
  variable `stage` belongs to the prover that extends it.
* **`VirtualProver`** (extends `StorageProofs`): one transaction from
  `prove_block` of the web prover, or from `prove_transaction` with any
  arguments and configuration, to a proof or an error. `stage` is the step of
  the pipeline. A state of the chain is a fork, 1 or 2, on which the tries in
  `moved` differ (those of contracts, and the trie of classes, `CLASSES_TRIE`), or
  3, a block that "latest" has become. `header`, `simulated`
  and the answers in `proofs` each remember the fork they came from. The
  facts database of `committer_utils.rs` is abstracted to which paths it has
  below which root (`HasPath`, `Committed`), after the checks of the lengths of the
  lists that are zipped with the query (`ProofFits`); because children without a preimage
  get dummy nodes, the committer may notice a missing path or not. Without
  `prefetch_state` every execution fails, as it does on wasm. The OS is external
  (`OsAccepts`): it recomputes the base block's hash and checks every read.
* **`CounterServer`**: the counter endpoints. A request is a task with a stage;
  prove-block is a spawned task that no disconnect ends. `tx_file` and
  `proof_file` name the request whose transaction the session's files are about,
  `proof_facts` that of the facts, written and read one after the other. The
  declaration of the class is part of the sncast step. `landings` and `rivals` are
  history variables. "latest" may lag a block behind the receipts (`Latest`), and
  `get_nonce` may answer from the pre-confirmed block. The counter that a cycle reads
  at its end is only reported, so `Verify` goes on whatever it says.
* **`E2eDrivers`**: the four end-to-end programs, the settlement program and the
  health check. Every program is a sequence of steps, given by definitions named
  after the sections of its `run`, and a step says what its failure leads to:
  `stop` (`fail()` and an error), `bail` (an error), `fail` (counted, go on),
  `ignore` or `skip` (to the summary). One set of actions runs them all, with the
  polling loops of `rpc.rs` and the submission loop. A node's "latest" may lag a
  block behind the receipts it gives, and `get_nonce` may count transactions in
  flight. `tx` is the program's last transaction and `left` the earlier ones, still
  in flight because their receipts were ignored. A declaration may be passed
  without one (`DeclareSkipped`): the class may be known, of the application and of
  the bank, or sncast fails and any long hex in its output counts as the class
  hash. Timings, logging and the pass count are
  left out.
* **`CoinFlipBankProofs`**, **`CoinFlipServerProofs`**, **`DeploymentsProofs`**,
  **`CounterServerProofs`**, **`VirtualProverProofs`**, **`E2eDriversProofs`**: the
  theorems about the component each extends; **`StorageProofsProofs`**: what
  preparing, splitting, collecting and merging a query compute, the lemmas that
  `VirtualProverProofs` rests on; **`FifoLockProofs`**: the lemmas about the queue of
  the mutex that the two servers' proofs share.
* **`MC*`**: the instances for TLC.

Outside the repository, and modelled from how the code uses them: the STRK token,
sncast, the sequencer and mempool, the gateway's nonce check, the node's proofs,
and axum's dropping of a handler's future when its client is gone. The sequencer
includes the account's transactions in nonce order, one in a block, with blocks
of others in between. A transaction is acceptable when its nonce is the
account's current one and no pending transaction uses it. `Estimates` says
whether sncast simulates a call before it sends it. The runs have TRUE, the value
more favourable to the code, as every disagreement should; without it a call that
reverts also takes up a block, and the proofs cover both values.

## 3. Runs

| Run | Instance | What it shows |
|---|---|---|
| `bank` | 1 player and the owner, 2 sessions, amounts 0, 1, 3, supply = `MaxU256` = 7, a valid and an invalid bet | types, `Solvency`, `SettleNeverReverts`, `GameTermsFixed`, `ImplementsEscrow` |
| `server` | 1 session, 3 requests, 4 blocks, 2 submissions, contracts known or not | types, `LockDiscipline`, `OnePlay`, `SettledAfterProof`, `HonestReport`, `SeedProvable`, `ProofFollowsSeed`, `CommitmentNeverRevived` |
| `server_liveness` | 1 session, 2 requests, 1 crash, 1 stalled call, 1 submission | `Answered`; `SettledAfterProof`, `CommitmentNeverRevived` across a restart that loses each contract or not |
| `deployments` | 3 requests, 1 crash, 1 stalled call, failing disk | types, `StoredOnChain`, `LockDiscipline`, `SequentialSavesPersist`, and `Answered` with the bank's read lock |
| `prover` | all reads of 2 contracts with 2 keys, a Cairo 0 and a Cairo 1 class, limit 2, 2 reorganisations | `RequestsWithinLimit`, `MergedIsWhole`, `HonestRunAccepted`, `OnlyLegalProved`, `ReadsAskedOnce`, `MixedNeverProved` |
| `counter` | 2 sessions, 3 requests, 4 blocks, 2 submissions, a u64 of 4 values | types, `SessionContractExists`, `IncrementOnce`, `ProvedAccountState`, `NoLeftoverProof`, `ReferenceIsOwn`, `CompleteCounted` |
| `drivers` | the 6 programs, full and abridged, with and without a gateway, 2 rounds, 2 submissions, 1 poll, 1 block of others | types, `GreenMeansDone`, `OncePerRound` |
| `drivers_finish` | the same without blocks of others | `Finishes` |

What the less obvious ones say. `ProofFollowsSeed`: between the seed block of an
included proof and its own block, no transaction of `sncast_invoke` was included,
because the proof carries the nonce of the seed block. It does not say that the
match came first: a disconnected confirm-deposit's child may submit its match
after the proof. `ProvedAccountState` is the same idea for prove-block.
`HonestRunAccepted`: if the node keeps to one fork, nothing that the execution read
is missing from the query, the chunks or the merged proof. `MixedNeverProved`: a
chunk that has something about a contract that was read, or about classes, comes
from a state that agrees there with the base block; keeping only the first chunk's
roots is safe because the paths of the others must lie below them. It relies on
`ReadsAskedOnce`: a class, a contract or a storage cell is asked for in one chunk only,
wherever a chunk boundary falls. `NoLeftoverProof`: the
proof that prove-block submits is of its own transaction, of that of a cycle of
the session that overlapped it, or of that of a cycle that overlapped such a one.
The third case is real: a prover that read its input from an overlapping cycle
may write its result after that cycle has ended, into the file of a third; it
takes four requests, so the run does not meet it, and the proof attempt did.
`HonestReport`: a player whose result shows an outcome is told "won" exactly when
settle paid the player, and a result without an outcome never says "won"; that such a
result says "lost" to a player who was paid is so in the model as in the code.
`SeedProvable`: a play that runs the contract which confirm-deposit saw has a seed
block that exists and is not before it. When confirm-deposit saw none, or one that
was replaced since, the seed may lie before the contract, and then the play ends in
the prover's error. `CompleteCounted`: a cycle that ends with "complete" has its increments on the chain,
because the wait for the receipt, unlike that of the coin-flip server, is not ignored;
it says nothing of the counter value that the event shows.
`GreenMeansDone`: although receipts are ignored in places, later steps catch every
loss before the summary says passed; and of the virtual transaction's message it says
what each driver really insists on (`Tolerated`), the expected message in the coin-flip
driver only.

Bounds. Two sessions are enough for one to be paid with another's stake, and the
supply equals the largest u256 so that overflow is reachable. Four blocks hold a
whole game (deployment, match, proof, settlement), three requests a repeated
confirm-deposit racing a play. A crash or a stalled call multiplies the states, so
`server_liveness` has a request less; two are a game, or a holder of the lock and one
who waits. A stalled bank/status, a store behind it and a third request behind the store
take three. `MaxAttempts` is 20 in the code; two attempts show
a retry and its end. A limit of two keys for up to seven items cuts at every
position inside the keys of a contract, over up to four chunks; two
reorganisations let a fork be left and come back. More classes than the limit, so that
a boundary falls inside them, are left to the theorems, which have any number. Three counter requests are a
deployment and two overlapping cycles, or two deployments and a cycle; amounts 3
and calls 1 or 2 with `U64 = 4` give a product that fits and one that wraps.
Requests are used once, so the server runs end when all are answered, a prover
run ends with its result and a driver exits: deadlock is not checked there.
Symmetry of the requests is used in safety runs only.

Fairness and calls that never return. The HTTP client is `reqwest::Client::new()`
and has no time-out (`rpc.rs:33-48`), `wait_for_tx` looks at its deadline only
between two requests (`rpc.rs:197-203`), and the sncast and prover children are
awaited without one. So no property says that every request is answered. A call that
never returns is the action `Stall`, bounded by `MaxStalls` in the servers; nothing is
assumed of a stalled request. `FairSpec` is weak fairness of the steps of handlers and
children that are not stalled: the runtime polls a task whose call has returned. A
wait that has a deadline or an attempt count can then always end in its failing step.
`Answered` says that a request waits for ever only for such a call: its own, that of the
holder of `sncast_lock`, or, in `Deployments`, that of a bank/status that keeps the bank's
read lock. One stalled call does block every request behind it, and the property
names who; no order of locks, errors and disconnects does it otherwise. The mutex is
FIFO, so no strong fairness is needed. `Finishes` is the same for the drivers: a
program ends unless one of its calls never returns, as each loop of calls is bounded
(`MaxPolls`, `MaxAttempts`). Nothing is assumed of the sequencer.

Disagreements with what the repository says of itself, one run each (the
findings in `PROJECT.json` quote the lines):

* `seed_after_match`: a match that is not confirmed in time still locks a seed,
  before the match;
* `settlement_confirmed`: "Settlement confirmed" is sent for one that is not;
* `deploy_idempotent`: overlapping deploys make two contracts;
* `reference_usable`: a prove-block that ends after its session was redeployed
  moves the reference block back before the new contract.

Also known, and stated by no run of its own: without a readable messages file
`won` stays false, the game is settled all the same, and a player whom settle paid is
shown "YOU LOSE" (`web/coinflip/src/App.tsx:565`); overlapping saves may leave the
earlier snapshot, or a mixture, in the deployments file; the counter that ends a
prove-block cycle is read at a "latest" that may lag, is 0 when the call fails, and is
compared with nothing; the two messages drivers only log a message that differs from
the one sent (`messages/src/e2e.rs:494`); `withdraw` has nothing to pay, as no entry point
credits `player_balance` (a part of the proof's invariant says so); sncast's lock is
released with its transaction pending when the wait gives up; play without
confirm-deposit uses seed 0; a crash strands a matched game, as its commitment was
only in memory; a crash within a write of the deployments file loses both
deployments.

## 4. Proofs

All theorems hold for every value of the constants that satisfies the named
assumption of the module: `BankAssumption`, `ServerAssumption`,
`DeploymentsAssumption`, `CounterAssumption`, `DriversAssumption`,
`ProofsAssumption` with `ProverAssumption`. These give ranges of numbers, say that
the names of "nothing" (`NoPlayer`, `NoRequest`, `None`) name no request or account,
and that classes, contracts and keys are finite sets (they are field elements);
TLC evaluates them in every run. One theorem, `SettleAlwaysPossible`, has a further
hypothesis, given below.

Each argument has the same shape. Lemmas state what an assignment to one
request's record does, field by field; a footprint lemma (`Writes`) says which
variables only certain actions change; the invariant is split into what holds of
each request by itself and what relates requests, and a request that did not move
keeps its part because blocks are only appended (`ChainStep`, `ChainGrows`,
`Bystander`).

**`CoinFlipBankProofs`**

* `TypeCorrect`. `TypeOK` is inductive: every transfer is guarded by the balance
  it debits and the credit it could overflow.
* `Solvent`. `Solvency` speaks of the sum over all sessions of what is owed, a
  recursive function. The inductive invariant `SumInv` says instead that *some* table of partial sums of `HeldBy`
  ends at most at the bank's balance. A step that changes what is owed on one
  session changes the tail of the table by the difference (`SumUpdate`), and the
  transfer in the same step moves the balance by at least as much (`SumStep`). Two
  such tables agree (`SumUnique`, by their least difference), so the total is the
  one `Solvency` computes. `NoCredit`, that no balance is ever withdrawable, is
  needed for `withdraw`.
* `SettleAlwaysPossible`: `SettleNeverReverts`, under the hypothesis `SupplyFits`
  that STRK's total supply is a u256, which the token guarantees and each balance
  being a u256 does not imply. `SupplyInv` keeps a table of the partial sums of
  all balances in the same way; a payment of the doubled stake then fits, because
  the bank holds it and tokens only move.
* `TermsFixed`: the action property `GameTermsFixed`.
* `BankImplementsEscrow`: initial states map to initial states of `Escrow` and
  each step to a step or a stutter of it.

**`CoinFlipServerProofs`**: `Inv`, with these parts, is inductive.

* `Local(r)`: what the stage of a handler says of its request, the life of its
  proof transaction and of its sncast transaction. It carries the order that
  matters: a settlement is sent only when the proof is in a block, with the same
  seed, and a proof is included on a block whose nonce is that of its seed block.
  `SettledAfterProofHolds` and `HonestReportHolds` follow with the bank's step,
  which copies the seed of the settlement (`BankMove`, `SettledStep`).
* `PlayedInv`: a session in play has no commitment. `OnePlay` is not inductive
  without it. `NeverRevived` needs that a late confirm-deposit writes a seed only
  into a commitment that is still there (`CommitmentFate`).
* `CommittedInv` and `PlaySeedInv`: the seed of a commitment, and that of the play
  that consumed it, exist and are not before the deployment that confirm-deposit
  saw; these give `SeedProvableHolds`.
* `Distinct`: no block has two of the account's transactions.
  `ProofFollowsSeedHolds` needs it for the end of the interval, and that nonces
  never fall for the rest (`FollowsSeed`).
* `LockInv`: the queue holds exactly the requests whose stage waits for the lock
  or holds it, each once, and a holder is its head. From it `LockDisciplineHolds`,
  across errors, time-outs, disconnects and crashes.

**`DeploymentsProofs`**: `LockInv` as above, with a request that leaves and asks
again between the calls of one deployment (the read lock that bank/status keeps
is its stage and matters to `Answered` only); `ReceiptInv`, a request that is past its
receipt has a contract on the chain, and `StoredInv`, the slots, the file *and the
snapshots that saves are about to write* name such contracts of their kind (a
crash makes the file the next slots, so it has to be part of the invariant);
`SaveInv`, while nothing disturbs the saves one request saves at a time and has read
what the server still has. From these `LockDisciplineHolds`, `StoredOnChainHolds`
and `SequentialSavesPersistHolds`.

**`CounterServerProofs`**

* `Base` holds the types and `Local(r)`: an accepted transaction has the nonce its
  handler fetched, a landed one is past it, and a prove-block's nonce is the
  account's at its reference block. `IncrementOnceHolds` and
  `ProvedAccountStateHolds` follow.
* `OfSession(s)`: a session records a deployment that succeeded and a reference
  block with a transaction of its own; it gives `SessionContractExistsHolds` and
  `ReferenceIsOwnHolds`.
* `Counted(r)`: a transaction that succeeded is in its contract's counter, which never
  falls; with `Local(r)`, by which a cycle past its receipt has succeeded, it gives
  `CompleteCountedHolds`.
* `Overlaps(r)` and `Files(r)`: which cycles the session's files can come from
  at each stage, in terms of the overlaps; `NoLeftoverProofHolds`.

**`StorageProofsProofs`**: what the operators of the query compute, for every set of
reads and every limit.

* Induction is on sets of numbers and of sequences, not on an operator: a set of
  numbers that holds 0 and, with n, n + 1 holds them all (`Induction`, from the
  least element of its complement, `Least`), and the same for a set of sequences and
  `Append` (`SeqInduction`). A recursive function is replaced by its table of values;
  a table exists for every sequence and two of them agree, so `FlattenLaws` and
  `CollectLaws` give one equation for the empty sequence and one for `Append`.
* Preparing: the query has each class and each contract once, in ascending order,
  and its entries have exactly the cells that were read (`PrepareFacts`,
  `PreparedCells`); flattening repeats no item (`FlattenQueryInjective`).
* Splitting: the chunks are consecutive pieces, none empty or above the limit, that
  together are all items in their order (`ChunkBounds`, `ChunksOrdered`,
  `ChunksCover`); `SplitChunks` and `ChunkFacts` give the queries made of them.
* `Cover(cs, q)`: the requests `cs` together ask for exactly what the query `q` asks
  for, no two of them for the same item, each within the limit. `RequestsCover` shows
  it of what `fetch_proofs` sends.
* Merging: the leaves of the answers, one after the other, are those of the query
  (`LeavesOfParts`), and the node map at an entry's index has the paths of exactly its
  keys, also when they are spread over several chunks (`MergedStorage`). `MergedWhole`
  puts it together: merging answers from one fork gives the node's answer to the
  whole query.

**`VirtualProverProofs`**

* `OnlyLegalProvedHolds`: `LegalInv` says of each stage what the checks before it
  have established.
* `FetchInv` ties the fetch to the execution: the query is `prepare_query` of what was
  read, the requests are the ones `fetch_proofs` derives from it, and a result is the
  answer itself or the merger of one answer for each request.
  `RequestsWithinLimitHolds` and `ReadsAskedOnceHolds` follow with the lemmas on
  splitting: as no item is repeated and the pieces are disjoint, neither is a class, a
  contract or a cell.
* `MergedIsWholeHolds` is `FetchInv` with `MergedWhole`.
* `MixedNeverProvedHolds`. `AnswersInv` says that each answer is the node's for its
  chunk on one fork, and `ResultInv` how the result is made of the answers.
  `AcceptedUnmixed` is the heart: the OS compares the roots of the first chunk with the
  header; a path that it accepts lies below those roots; a node of a contract that
  another chunk asked for can only come from that chunk, as no other asked for it
  (`ReadsAskedOnce`); so that chunk's fork agrees with the header on the contract; and likewise for the
  classes and their trie.
* `HonestRunAcceptedHolds`. `OneState`, part of `HonestInv`, says that without a
  reorganisation the header, the simulation and every answer are of one fork; then the
  result is the whole answer, and each address and cell that was read has its
  path below the header's roots (`HonestAccepted`).

**`E2eDriversProofs`**: for any number of rounds, attempts, polls and blocks of
others. The static part is about the scripts, the dynamic one about running them.

* The scripts. `Quiet` and `Loud` say which steps a program may be made of: only
  the checks, receipts and messages may be tolerated when they fail, never a send,
  a proof or the nonce. From the parts of each script the lemmas `ShortScripts`,
  `SettlementSteps`, `HealthSteps` and `CounterSteps` derive where the nonce is
  fetched and which transactions are followed by a receipt that the program insists
  on (`HasPair`); `StepShape` collects what every step of every program has.
* Running them. Every step of a program is a `Moved`: it stays, passes its step
  having seen what the step is for (`Passed`), or, in the health check, goes to the
  summary with a failure counted. `Writes` is its footprint on the rest.
* `OnceInv`: the proof of a round can be accepted only with the nonce that the round
  fetched, while the account has not passed it, and then the counter is below the
  number of rounds begun; no transaction in flight (`InFlight`), the one last sent or
  one left behind, is a second proof that can still land. This is inductive and gives `OncePerRoundHolds`. It needs
  `RefInv`, that the counter program has a reference block before it asks for the
  nonce there.
* `RoundInv`: the number of rounds begun as a function of the program counter, for
  the bound on `round` in `TypeCorrect` and for the last check of the counter.
* `SeenInv`: with no failure counted, whatever the program counter has left behind
  was seen (`DoneInv`); a receipt is that of the step before it (`HashInv`).
  `NeedsInv`, that an effect had what it needs, adds the transactions whose receipts
  are ignored: a declaration by its deployment, the settlement program's deployments
  by the proof and the deposit, the approval by the deposit. That is
  `GreenMeansDoneHolds`; for the counter program the last read gives at least one
  increment for each round and `OnceInv` at most one.
* `MessageInv`: a program that is past its check of the messages without a failure has
  seen one that it tolerates. The static part (`Excused`, `HasMessages`) is that the
  check is there and goes on without a failure only in those cases.

Only model-checked: `Answered` and `Finishes`, as liveness under fairness is out of
the prover's reach.

## 5. Plan

Every safety property that a passing run checks is proved. What would come next are
the effects of the code that no property covers yet (the hazards in
`PROJECT.json` that have a note), and more of the state reader: its class cache and
its answers request by request, which are outcomes of the prover's actions now.

## 6. Not modelled

Cryptography (Pedersen, Poseidon, STARK proofs, signatures) beyond what it
binds; formatting, logging and event streams; the fees of transactions; the
interpretation of Cairo by the virtual OS and the blockifier; reorganisations of
the chain outside `VirtualProver`; crashes of the counter server, which keeps
sessions in memory only; the parsing and class conversion of the re-execution
state reader; in `CoinFlipServer`, deploying the bank and declaring the
CoinFlip class, which `Deployments` has; hashing and signing, pure arithmetic without control worth
exploring; the command-line parsing of the drivers; vendored OpenZeppelin
contracts, build scripts and page rendering.
