------------------------ MODULE CoinFlipServerProofs ------------------------
(***************************************************************************)
(* Proofs about CoinFlipServer for every number of players, sessions,       *)
(* requests, attempts and crashes and every length of the chain.            *)
(***************************************************************************)
EXTENDS CoinFlipServer, FifoLockProofs, TLAPS

-----------------------------------------------------------------------------
(* What the assignments to task, invoke_tx and proof_tx do, field by field. *)

TaskType == task \in [Requests -> Task]
InvokeType == invoke_tx \in [Requests -> Tx]
ProofType == proof_tx \in [Requests -> Tx]

OnlyTask(r) == \A q \in Requests : q # r => task'[q] = task[q]
OnlyInvoke(r) == \A q \in Requests : q # r => invoke_tx'[q] = invoke_tx[q]
OnlyProof(r) == \A q \in Requests : q # r => proof_tx'[q] = proof_tx[q]

(* r's request is what it was. *)
SameTerms(r) ==
    /\ task'[r].op = task[r].op
    /\ task'[r].session = task[r].session
    /\ task'[r].player = task[r].player
    /\ task'[r].bet = task[r].bet
    /\ task'[r].contract = task[r].contract

(* What r's handler has worked out is what it was. *)
SameWork(r) ==
    /\ task'[r].seed = task[r].seed
    /\ task'[r].nonce = task[r].nonce
    /\ task'[r].outcome = task[r].outcome
    /\ task'[r].won = task[r].won

(* The fields of a task have their types. *)
LEMMA TaskFields ==
    ASSUME TaskType, NEW r \in Requests
    PROVE  /\ task[r] \in Task
           /\ task[r].op \in {"none", "deploy", "confirm", "play"} /\ task[r].pc \in Stages
           /\ task[r].session \in 0..NumSessions
           /\ task[r].player \in Players \cup {NoPlayer} /\ task[r].bet \in Coins
           /\ task[r].seed \in 0..MaxBlock /\ task[r].nonce \in 0..MaxBlock
           /\ task[r].contract \in 0..MaxBlock
           /\ task[r].outcome \in {"empty", "heads", "tails"} /\ task[r].won \in BOOLEAN
           /\ task[r].attempt \in 1..MaxAttempts /\ task[r].settle_tx_hash \in BOOLEAN
<1>1. task[r] \in Task
  BY DEF TaskType
<1> QED
  BY <1>1 DEF Task

(* The numbers in a task. *)
LEMMA TaskNumbers ==
    ASSUME TaskType, NEW r \in Requests
    PROVE  /\ task[r].session \in Nat /\ task[r].seed \in Nat /\ task[r].nonce \in Nat
           /\ task[r].contract \in Nat
<1>1. /\ task[r].session \in 0..NumSessions /\ task[r].seed \in 0..MaxBlock
      /\ task[r].nonce \in 0..MaxBlock /\ task[r].contract \in 0..MaxBlock
  BY TaskFields, Zenon
<1> QED
  BY <1>1, ServerAssumption

(* Assigning a task of the right type to one request. *)
LEMMA SetTask ==
    ASSUME TaskType, NEW r \in Requests, NEW t \in Task, task' = [task EXCEPT ![r] = t]
    PROVE  TaskType' /\ task'[r] = t /\ OnlyTask(r)
BY DEF TaskType, OnlyTask

(* A handler goes on to another stage. *)
LEMMA GotoEffect ==
    ASSUME TaskType, NEW r \in Requests, NEW stage \in Stages, Goto(r, stage)
    PROVE  /\ TaskType' /\ OnlyTask(r)
           /\ task'[r].pc = stage /\ SameTerms(r) /\ SameWork(r)
<1> DEFINE t == [task[r] EXCEPT !.pc = stage]
<1>1. task[r] \in Task
  BY DEF TaskType
<1>2. t \in Task
  BY <1>1 DEF Task
<1>3. task' = [task EXCEPT ![r] = t]
  BY DEF Goto
<1>4. TaskType' /\ task'[r] = t /\ OnlyTask(r)
  BY <1>2, <1>3, SetTask
<1> QED
  BY <1>1, <1>4 DEF Task, SameTerms, SameWork

(* The stages are what they are called. *)
LEMMA StageNames ==
    /\ {"idle", "lock", "sncast", "confirm", "block", "store", "deposit"} \subseteq Stages
    /\ {"nonce", "prove", "submit", "include"} \subseteq Stages
    /\ {"deployed", "matched", "result", "error", "cancelled"} \subseteq Stages
BY DEF Stages, Outside, Replies

(* The request that has not come in is a task. *)
LEMMA IdleType == Idle \in Task
<1>1. /\ 0 \in 0..NumSessions /\ 0 \in 0..MaxBlock /\ 1 \in 1..MaxAttempts
      /\ 0 \in Coins /\ NoPlayer \in Players \cup {NoPlayer}
  BY ServerAssumption DEF Coins
<1>2. "idle" \in Stages
  BY StageNames
<1> QED
  BY <1>1, <1>2 DEF Idle, Task

(* A handler starts. *)
LEMMA ConfirmEffect ==
    ASSUME TaskType, NEW r \in Requests, NEW s \in Sessions, NEW stage \in Stages,
           task' = [task EXCEPT ![r] = [Idle EXCEPT !.op = "confirm", !.pc = stage,
                                                    !.session = s]]
    PROVE  /\ TaskType' /\ OnlyTask(r)
           /\ task'[r].op = "confirm" /\ task'[r].pc = stage /\ task'[r].session = s
           /\ task'[r].seed = 0 /\ task'[r].outcome = "empty" /\ ~task'[r].won
<1> DEFINE t == [Idle EXCEPT !.op = "confirm", !.pc = stage, !.session = s]
<1>1. s \in 0..NumSessions
  BY ServerAssumption DEF Sessions
<1>2. t \in Task
  BY <1>1, IdleType DEF Task
<1>3. TaskType' /\ task'[r] = t /\ OnlyTask(r)
  BY <1>2, SetTask
<1>4. /\ t.op = "confirm" /\ t.pc = stage /\ t.session = s
      /\ t.seed = 0 /\ t.outcome = "empty" /\ ~t.won
  BY DEF Idle
<1> HIDE DEF t
<1> QED
  BY <1>3, <1>4

(* deploy starts. *)
LEMMA DeployEffect ==
    ASSUME TaskType, NEW r \in Requests,
           task' = [task EXCEPT ![r] = [Idle EXCEPT !.op = "deploy", !.pc = "lock"]]
    PROVE  /\ TaskType' /\ OnlyTask(r)
           /\ task'[r].op = "deploy" /\ task'[r].pc = "lock"
           /\ task'[r].seed = 0 /\ task'[r].outcome = "empty" /\ ~task'[r].won
<1> DEFINE t == [Idle EXCEPT !.op = "deploy", !.pc = "lock"]
<1>1. t \in Task
  BY StageNames, IdleType DEF Task
<1>2. TaskType' /\ task'[r] = t /\ OnlyTask(r)
  BY <1>1, SetTask
<1>3. t.op = "deploy" /\ t.pc = "lock" /\ t.seed = 0 /\ t.outcome = "empty" /\ ~t.won
  BY DEF Idle
<1> HIDE DEF t
<1> QED
  BY <1>2, <1>3

(* A play that is refused or rejected is over at once. *)
LEMMA RefuseEffect ==
    ASSUME TaskType, NEW r \in Requests, NEW s \in Sessions,
           task' = [task EXCEPT ![r] = [Idle EXCEPT !.pc = "error", !.session = s]]
    PROVE  /\ TaskType' /\ OnlyTask(r)
           /\ task'[r].op = "none" /\ task'[r].pc = "error" /\ task'[r].session = s
           /\ task'[r].seed = 0 /\ task'[r].outcome = "empty" /\ ~task'[r].won
<1> DEFINE t == [Idle EXCEPT !.pc = "error", !.session = s]
<1>1. s \in 0..NumSessions /\ "error" \in Stages
  BY ServerAssumption, StageNames DEF Sessions
<1>2. t \in Task
  BY <1>1, IdleType DEF Task
<1>3. TaskType' /\ task'[r] = t /\ OnlyTask(r)
  BY <1>2, SetTask
<1>4. /\ t.op = "none" /\ t.pc = "error" /\ t.session = s
      /\ t.seed = 0 /\ t.outcome = "empty" /\ ~t.won
  BY DEF Idle
<1> HIDE DEF t
<1> QED
  BY <1>3, <1>4

CommitmentsType == commitments \in [Sessions -> BetCommitment \cup {NoCommitment}]

(* play takes player, bet and seed from the commitment it consumes. *)
LEMMA PlayEffect ==
    ASSUME TaskType, CommitmentsType, coinflip \in 0..MaxBlock,
           NEW r \in Requests, NEW s \in Sessions,
           NEW p \in Players, NEW b \in Coins, PlayAccepted(r, s, p, b)
    PROVE  /\ TaskType' /\ OnlyTask(r)
           /\ task'[r].op = "play" /\ task'[r].pc = "nonce" /\ task'[r].session = s
           /\ task'[r].player = p /\ task'[r].bet = b
           /\ task'[r].seed = commitments[s].seed_block
           /\ task'[r].contract = coinflip /\ task'[r].outcome = "empty" /\ ~task'[r].won
<1> DEFINE d == commitments[s].seed_block
           t == [Idle EXCEPT !.op = "play", !.pc = "nonce", !.session = s, !.player = p,
                             !.bet = b, !.seed = d, !.contract = coinflip]
<1>1. s \in 0..NumSessions /\ "nonce" \in Stages
  BY ServerAssumption, StageNames DEF Sessions
<1>2. d \in 0..MaxBlock
  <2>1. commitments[s] \in BetCommitment
    BY DEF CommitmentsType, PlayAccepted
  <2> QED
    BY <2>1 DEF BetCommitment
<1>3. task' = [task EXCEPT ![r] = t]
  BY DEF PlayAccepted
<1>4. t \in Task
  <2> HIDE DEF d
  <2> QED
    BY <1>1, <1>2, IdleType DEF Task
<1>5. TaskType' /\ task'[r] = t /\ OnlyTask(r)
  BY <1>3, <1>4, SetTask
<1> QED
  BY <1>5 DEF Idle

(* confirm-deposit learns a block number. *)
LEMMA SeedEffect ==
    ASSUME TaskType, NEW r \in Requests, NEW d \in 0..MaxBlock,
           task' = [task EXCEPT ![r].pc = "store", ![r].seed = d]
    PROVE  /\ TaskType' /\ OnlyTask(r) /\ SameTerms(r)
           /\ task'[r].pc = "store" /\ task'[r].seed = d
           /\ task'[r].nonce = task[r].nonce /\ task'[r].outcome = task[r].outcome
           /\ task'[r].won = task[r].won
<1> DEFINE t == [task[r] EXCEPT !.pc = "store", !.seed = d]
<1>1. task[r] \in Task /\ "store" \in Stages
  BY StageNames DEF TaskType
<1>2. t \in Task
  BY <1>1 DEF Task
<1>3. task' = [task EXCEPT ![r] = t]
  OBVIOUS
<1>4. TaskType' /\ task'[r] = t /\ OnlyTask(r)
  BY <1>2, <1>3, SetTask
<1>5. /\ t.pc = "store" /\ t.seed = d /\ t.op = task[r].op /\ t.session = task[r].session
      /\ t.player = task[r].player /\ t.bet = task[r].bet /\ t.contract = task[r].contract
      /\ t.nonce = task[r].nonce /\ t.outcome = task[r].outcome /\ t.won = task[r].won
  BY <1>1 DEF Task
<1> HIDE DEF t
<1> QED
  BY <1>4, <1>5 DEF SameTerms

(* sncast_invoke returns to its caller with the receipt: the block of a match or
   of a deployment is kept. *)
LEMMA ConfirmedEffect ==
    ASSUME TaskType, NEW r \in Requests, invoke_tx[r].block \in 0..MaxBlock,
           TxConfirmed(r)
    PROVE  /\ TaskType' /\ OnlyTask(r) /\ SameTerms(r)
           /\ task'[r].pc = IF task[r].op = "play" THEN "result" ELSE "store"
           /\ task'[r].seed = IF task[r].op = "play" THEN task[r].seed ELSE invoke_tx[r].block
           /\ task'[r].nonce = task[r].nonce /\ task'[r].outcome = task[r].outcome
           /\ task'[r].won = task[r].won
<1> DEFINE stage == IF task[r].op = "play" THEN "result" ELSE "store"
           seed == IF task[r].op = "play" THEN task[r].seed ELSE invoke_tx[r].block
           hash == task[r].op = "play"
           t == [task[r] EXCEPT !.pc = stage, !.seed = seed, !.settle_tx_hash = hash]
<1>1. task[r] \in Task /\ stage \in Stages
  BY StageNames DEF TaskType
<1>2. task' = [task EXCEPT ![r] = t]
  BY DEF TxConfirmed
<1>3. hash \in BOOLEAN
  OBVIOUS
<1>4. seed \in 0..MaxBlock
  BY TaskFields
<1> HIDE DEF stage, seed, hash
<1>5. t \in Task
  BY <1>1, <1>3, <1>4 DEF Task
<1>6. TaskType' /\ task'[r] = t /\ OnlyTask(r)
  BY <1>2, <1>5, SetTask
<1>7. /\ SameTerms(r) /\ task'[r].pc = stage /\ task'[r].seed = seed
      /\ task'[r].nonce = task[r].nonce /\ task'[r].outcome = task[r].outcome
      /\ task'[r].won = task[r].won
  BY <1>1, <1>6 DEF Task, SameTerms
<1> QED
  BY <1>6, <1>7 DEF stage, seed

(* sncast_invoke returns without one. *)
LEMMA AfterInvokeEffect ==
    ASSUME TaskType, NEW r \in Requests, NEW stage \in Stages, NEW hash \in BOOLEAN,
           AfterInvoke(r, stage, hash)
    PROVE  /\ TaskType' /\ OnlyTask(r) /\ SameTerms(r) /\ SameWork(r)
           /\ task'[r].pc = IF task[r].op = "confirm" THEN stage
                            ELSE IF task[r].op = "play" THEN "result" ELSE "error"
<1> DEFINE next == IF task[r].op = "confirm" THEN stage
                   ELSE IF task[r].op = "play" THEN "result" ELSE "error"
           flag == hash /\ task[r].op = "play"
           t == [task[r] EXCEPT !.pc = next, !.settle_tx_hash = flag]
<1>1. task[r] \in Task /\ next \in Stages
  BY StageNames DEF TaskType
<1>2. task' = [task EXCEPT ![r] = t]
  BY DEF AfterInvoke
<1>3. flag \in BOOLEAN
  OBVIOUS
<1> HIDE DEF next, flag
<1>4. t \in Task
  BY <1>1, <1>3 DEF Task
<1>5. TaskType' /\ task'[r] = t /\ OnlyTask(r)
  BY <1>2, <1>4, SetTask
<1>6. SameTerms(r) /\ SameWork(r) /\ task'[r].pc = next
  BY <1>1, <1>5 DEF Task, SameTerms, SameWork
<1> QED
  BY <1>5, <1>6 DEF next

(* play learns the account's nonce at the seed block. *)
LEMMA NonceEffect ==
    ASSUME TaskType, NEW r \in Requests, NEW n \in 0..MaxBlock,
           task' = [task EXCEPT ![r].pc = "prove", ![r].nonce = n]
    PROVE  /\ TaskType' /\ OnlyTask(r) /\ SameTerms(r)
           /\ task'[r].pc = "prove" /\ task'[r].nonce = n
           /\ task'[r].seed = task[r].seed /\ task'[r].outcome = task[r].outcome
           /\ task'[r].won = task[r].won
<1> DEFINE t == [task[r] EXCEPT !.pc = "prove", !.nonce = n]
<1>1. task[r] \in Task /\ "prove" \in Stages
  BY StageNames DEF TaskType
<1>2. t \in Task
  BY <1>1 DEF Task
<1>3. task' = [task EXCEPT ![r] = t]
  OBVIOUS
<1>4. TaskType' /\ task'[r] = t /\ OnlyTask(r)
  BY <1>2, <1>3, SetTask
<1>5. /\ t.pc = "prove" /\ t.nonce = n /\ t.op = task[r].op /\ t.session = task[r].session
      /\ t.player = task[r].player /\ t.bet = task[r].bet /\ t.contract = task[r].contract
      /\ t.seed = task[r].seed /\ t.outcome = task[r].outcome /\ t.won = task[r].won
  BY <1>1 DEF Task
<1> HIDE DEF t
<1> QED
  BY <1>4, <1>5 DEF SameTerms

(* play learns the message of the virtual run. *)
LEMMA ProveEffect ==
    ASSUME TaskType, NEW r \in Requests, NEW m \in {"empty", "heads", "tails"}, NEW w \in BOOLEAN,
           task' = [task EXCEPT ![r].pc = "submit", ![r].outcome = m, ![r].won = w]
    PROVE  /\ TaskType' /\ OnlyTask(r) /\ SameTerms(r)
           /\ task'[r].pc = "submit" /\ task'[r].outcome = m /\ task'[r].won = w
           /\ task'[r].seed = task[r].seed /\ task'[r].nonce = task[r].nonce
<1> DEFINE t == [task[r] EXCEPT !.pc = "submit", !.outcome = m, !.won = w]
<1>1. task[r] \in Task /\ "submit" \in Stages
  BY StageNames DEF TaskType
<1>2. t \in Task
  BY <1>1 DEF Task
<1>3. task' = [task EXCEPT ![r] = t]
  OBVIOUS
<1>4. TaskType' /\ task'[r] = t /\ OnlyTask(r)
  BY <1>2, <1>3, SetTask
<1>5. /\ t.pc = "submit" /\ t.outcome = m /\ t.won = w
      /\ t.op = task[r].op /\ t.session = task[r].session /\ t.player = task[r].player
      /\ t.bet = task[r].bet /\ t.contract = task[r].contract
      /\ t.seed = task[r].seed /\ t.nonce = task[r].nonce
  BY <1>1 DEF Task
<1> HIDE DEF t
<1> QED
  BY <1>4, <1>5 DEF SameTerms

(* play submits again. *)
LEMMA RetryEffect ==
    ASSUME TaskType, NEW r \in Requests, SubmitNotReady(r)
    PROVE  /\ TaskType' /\ OnlyTask(r) /\ SameTerms(r) /\ SameWork(r)
           /\ task'[r].pc = task[r].pc
<1> DEFINE t == [task[r] EXCEPT !.attempt = @ + 1]
<1>1. task[r] \in Task /\ task[r].attempt \in 1..MaxAttempts
  BY TaskFields
<1>2. task[r].attempt + 1 \in 1..MaxAttempts
  BY <1>1, ServerAssumption DEF SubmitNotReady
<1>3. t \in Task
  BY <1>1, <1>2 DEF Task
<1>4. task' = [task EXCEPT ![r] = t]
  BY DEF SubmitNotReady
<1>5. TaskType' /\ task'[r] = t /\ OnlyTask(r)
  BY <1>3, <1>4, SetTask
<1> QED
  BY <1>1, <1>5 DEF Task, SameTerms, SameWork

(* The statuses are what they are called. *)
LEMMA StatusNames ==
    {"none", "running", "failed", "pending", "ok", "reverted", "dropped"} \subseteq TxStatus
BY DEF TxStatus

(* The proof transaction is submitted. *)
LEMMA SubmitEffect ==
    ASSUME ProofType, NEW r \in Requests, task[r].seed \in 0..MaxBlock,
           task[r].nonce \in 0..MaxBlock, SubmitProof(r)
    PROVE  /\ ProofType' /\ OnlyProof(r)
           /\ proof_tx'[r].status = "pending" /\ proof_tx'[r].seed = task[r].seed
           /\ proof_tx'[r].nonce = task[r].nonce /\ proof_tx'[r].block = proof_tx[r].block
<1> DEFINE x == [proof_tx[r] EXCEPT !.status = "pending", !.seed = task[r].seed, !.nonce = task[r].nonce]
<1>1. proof_tx[r] \in Tx
  BY DEF ProofType
<1>2. x \in Tx
  BY <1>1, StatusNames DEF Tx
<1>3. proof_tx' = [proof_tx EXCEPT ![r] = x]
  BY DEF SubmitProof
<1>4. /\ x.status = "pending" /\ x.seed = task[r].seed
      /\ x.nonce = task[r].nonce /\ x.block = proof_tx[r].block
  BY <1>1 DEF Tx
<1> HIDE DEF x
<1>5. ProofType' /\ proof_tx'[r] = x /\ OnlyProof(r)
  BY <1>2, <1>3 DEF ProofType, OnlyProof
<1> QED
  BY <1>4, <1>5

(* The mempool drops the proof. *)
LEMMA DropEffect ==
    ASSUME ProofType, NEW r \in Requests, DropProof(r)
    PROVE  /\ ProofType' /\ OnlyProof(r)
           /\ proof_tx'[r].status = "dropped" /\ proof_tx'[r].seed = proof_tx[r].seed
           /\ proof_tx'[r].nonce = proof_tx[r].nonce /\ proof_tx'[r].block = proof_tx[r].block
<1> DEFINE x == [proof_tx[r] EXCEPT !.status = "dropped"]
<1>1. proof_tx[r] \in Tx
  BY DEF ProofType
<1>2. x \in Tx
  BY <1>1, StatusNames DEF Tx
<1>3. proof_tx' = [proof_tx EXCEPT ![r] = x]
  BY DEF DropProof
<1>4. /\ x.status = "dropped" /\ x.seed = proof_tx[r].seed
      /\ x.nonce = proof_tx[r].nonce /\ x.block = proof_tx[r].block
  BY <1>1 DEF Tx
<1> HIDE DEF x
<1>5. ProofType' /\ proof_tx'[r] = x /\ OnlyProof(r)
  BY <1>2, <1>3 DEF ProofType, OnlyProof
<1> QED
  BY <1>4, <1>5

(* The proof gets into a block. *)
LEMMA LandProofEffect ==
    ASSUME ProofType, NEW r \in Requests, NEW status \in TxStatus, NEW b \in 0..MaxBlock
    PROVE  proof_tx' = [proof_tx EXCEPT ![r].status = status, ![r].block = b] =>
               /\ ProofType' /\ OnlyProof(r)
               /\ proof_tx'[r].status = status /\ proof_tx'[r].seed = proof_tx[r].seed
               /\ proof_tx'[r].nonce = proof_tx[r].nonce /\ proof_tx'[r].block = b
<1>0. SUFFICES ASSUME proof_tx' = [proof_tx EXCEPT ![r].status = status, ![r].block = b]
      PROVE  /\ ProofType' /\ OnlyProof(r)
             /\ proof_tx'[r].status = status /\ proof_tx'[r].seed = proof_tx[r].seed
             /\ proof_tx'[r].nonce = proof_tx[r].nonce /\ proof_tx'[r].block = b
  OBVIOUS
<1> DEFINE x == [proof_tx[r] EXCEPT !.status = status, !.block = b]
<1>1. proof_tx[r] \in Tx
  BY DEF ProofType
<1>2. x \in Tx
  BY <1>1, StatusNames DEF Tx
<1>3. proof_tx' = [proof_tx EXCEPT ![r] = x]
  BY <1>0
<1>4. /\ x.status = status /\ x.seed = proof_tx[r].seed
      /\ x.nonce = proof_tx[r].nonce /\ x.block = b
  BY <1>1 DEF Tx
<1> HIDE DEF x
<1>5. ProofType' /\ proof_tx'[r] = x /\ OnlyProof(r)
  BY <1>2, <1>3 DEF ProofType, OnlyProof
<1> QED
  BY <1>4, <1>5

(* sncast starts with the seed of its call. *)
LEMMA RunEffect ==
    ASSUME InvokeType, NEW r \in Requests, task[r].seed \in 0..MaxBlock, AcquireLock(r)
    PROVE  /\ InvokeType' /\ OnlyInvoke(r)
           /\ invoke_tx'[r].status = "running" /\ invoke_tx'[r].seed = task[r].seed
           /\ invoke_tx'[r].nonce = invoke_tx[r].nonce /\ invoke_tx'[r].block = invoke_tx[r].block
<1> DEFINE x == [invoke_tx[r] EXCEPT !.status = "running", !.seed = task[r].seed]
<1>1. invoke_tx[r] \in Tx
  BY DEF InvokeType
<1>2. x \in Tx
  BY <1>1, StatusNames DEF Tx
<1>3. invoke_tx' = [invoke_tx EXCEPT ![r] = x]
  BY DEF AcquireLock
<1>4. /\ x.status = "running" /\ x.seed = task[r].seed
      /\ x.nonce = invoke_tx[r].nonce /\ x.block = invoke_tx[r].block
  BY <1>1 DEF Tx
<1> HIDE DEF x
<1>5. InvokeType' /\ invoke_tx'[r] = x /\ OnlyInvoke(r)
  BY <1>2, <1>3 DEF InvokeType, OnlyInvoke
<1> QED
  BY <1>4, <1>5

(* sncast submits with the current nonce. *)
LEMMA SendEffect ==
    ASSUME InvokeType, NEW r \in Requests, Nonce \in 0..MaxBlock, SncastSubmit(r)
    PROVE  /\ InvokeType' /\ OnlyInvoke(r)
           /\ invoke_tx'[r].status = "pending" /\ invoke_tx'[r].seed = invoke_tx[r].seed
           /\ invoke_tx'[r].nonce = Nonce /\ invoke_tx'[r].block = invoke_tx[r].block
<1> DEFINE x == [invoke_tx[r] EXCEPT !.status = "pending", !.nonce = Nonce]
<1>1. invoke_tx[r] \in Tx
  BY DEF InvokeType
<1>2. x \in Tx
  BY <1>1, StatusNames DEF Tx
<1>3. invoke_tx' = [invoke_tx EXCEPT ![r] = x]
  BY DEF SncastSubmit
<1>4. /\ x.status = "pending" /\ x.seed = invoke_tx[r].seed
      /\ x.nonce = Nonce /\ x.block = invoke_tx[r].block
  BY <1>1 DEF Tx
<1> HIDE DEF x
<1>5. InvokeType' /\ invoke_tx'[r] = x /\ OnlyInvoke(r)
  BY <1>2, <1>3 DEF InvokeType, OnlyInvoke
<1> QED
  BY <1>4, <1>5

(* The transaction of sncast_invoke only changes its status. *)
LEMMA StatusEffect ==
    ASSUME InvokeType, NEW r \in Requests, NEW status \in TxStatus
    PROVE  invoke_tx' = [invoke_tx EXCEPT ![r].status = status] =>
               /\ InvokeType' /\ OnlyInvoke(r)
               /\ invoke_tx'[r].status = status /\ invoke_tx'[r].seed = invoke_tx[r].seed
               /\ invoke_tx'[r].nonce = invoke_tx[r].nonce /\ invoke_tx'[r].block = invoke_tx[r].block
<1>0. SUFFICES ASSUME invoke_tx' = [invoke_tx EXCEPT ![r].status = status]
      PROVE  /\ InvokeType' /\ OnlyInvoke(r)
             /\ invoke_tx'[r].status = status /\ invoke_tx'[r].seed = invoke_tx[r].seed
             /\ invoke_tx'[r].nonce = invoke_tx[r].nonce /\ invoke_tx'[r].block = invoke_tx[r].block
  OBVIOUS
<1> DEFINE x == [invoke_tx[r] EXCEPT !.status = status]
<1>1. invoke_tx[r] \in Tx
  BY DEF InvokeType
<1>2. x \in Tx
  BY <1>1, StatusNames DEF Tx
<1>3. invoke_tx' = [invoke_tx EXCEPT ![r] = x]
  BY <1>0
<1>4. /\ x.status = status /\ x.seed = invoke_tx[r].seed
      /\ x.nonce = invoke_tx[r].nonce /\ x.block = invoke_tx[r].block
  BY <1>1 DEF Tx
<1> HIDE DEF x
<1>5. InvokeType' /\ invoke_tx'[r] = x /\ OnlyInvoke(r)
  BY <1>2, <1>3 DEF InvokeType, OnlyInvoke
<1> QED
  BY <1>4, <1>5

(* The transaction of sncast_invoke gets into a block. *)
LEMMA LandInvokeEffect ==
    ASSUME InvokeType, NEW r \in Requests, NEW status \in TxStatus, NEW b \in 0..MaxBlock
    PROVE  invoke_tx' = [invoke_tx EXCEPT ![r].status = status, ![r].block = b] =>
               /\ InvokeType' /\ OnlyInvoke(r)
               /\ invoke_tx'[r].status = status /\ invoke_tx'[r].seed = invoke_tx[r].seed
               /\ invoke_tx'[r].nonce = invoke_tx[r].nonce /\ invoke_tx'[r].block = b
<1>0. SUFFICES ASSUME invoke_tx' = [invoke_tx EXCEPT ![r].status = status, ![r].block = b]
      PROVE  /\ InvokeType' /\ OnlyInvoke(r)
             /\ invoke_tx'[r].status = status /\ invoke_tx'[r].seed = invoke_tx[r].seed
             /\ invoke_tx'[r].nonce = invoke_tx[r].nonce /\ invoke_tx'[r].block = b
  OBVIOUS
<1> DEFINE x == [invoke_tx[r] EXCEPT !.status = status, !.block = b]
<1>1. invoke_tx[r] \in Tx
  BY DEF InvokeType
<1>2. x \in Tx
  BY <1>1, StatusNames DEF Tx
<1>3. invoke_tx' = [invoke_tx EXCEPT ![r] = x]
  BY <1>0
<1>4. /\ x.status = status /\ x.seed = invoke_tx[r].seed
      /\ x.nonce = invoke_tx[r].nonce /\ x.block = b
  BY <1>1 DEF Tx
<1> HIDE DEF x
<1>5. InvokeType' /\ invoke_tx'[r] = x /\ OnlyInvoke(r)
  BY <1>2, <1>3 DEF InvokeType, OnlyInvoke
<1> QED
  BY <1>4, <1>5

-----------------------------------------------------------------------------
(* The chain.  A nonce is at most the number of its block, so that the bound on
   the blocks is one on the nonces, and nonces never decrease. *)
ChainType ==
    /\ nonces \in Seq(1..MaxBlock)
    /\ Block \in DeployBlock..MaxBlock
    /\ \A b \in 1..Block : nonces[b] \in 1..b
    /\ \A a, b \in 1..Block : a <= b => nonces[a] <= nonces[b]

(* Blocks are only added. *)
Grows ==
    /\ Block' \in Nat /\ Block <= Block'
    /\ \A b \in 1..Block : nonces'[b] = nonces[b]

(* The numbers a chain consists of. *)
LEMMA ChainFacts ==
    ASSUME ChainType
    PROVE  /\ Block \in Nat /\ Block >= 1 /\ Block \in 0..MaxBlock
           /\ Nonce \in Nat /\ Nonce \in 1..Block /\ Nonce \in 0..MaxBlock
           /\ \A b \in 1..Block : nonces[b] \in 0..MaxBlock /\ nonces[b] <= Nonce
<1>1. /\ Block \in DeployBlock..MaxBlock /\ \A b \in 1..Block : nonces[b] \in 1..b
      /\ \A a, b \in 1..Block : a <= b => nonces[a] <= nonces[b]
  BY DEF ChainType
<1> HIDE DEF Block
<1>2. Block \in Nat /\ Block >= 1 /\ Block <= MaxBlock /\ MaxBlock \in Nat
  BY <1>1, ServerAssumption
<1>3. Nonce \in 1..Block
  BY <1>1, <1>2 DEF Nonce
<1>4. ASSUME NEW b \in 1..Block PROVE nonces[b] \in 0..MaxBlock /\ nonces[b] <= Nonce
  BY <1>1, <1>2 DEF Nonce
<1> QED
  BY <1>2, <1>3, <1>4

(* A step that adds no block. *)
LEMMA ChainUnchanged ==
    ASSUME ChainType, UNCHANGED nonces
    PROVE  ChainType' /\ Grows /\ Block' = Block /\ Nonce' = Nonce
<1>1. Block' = Block /\ Nonce' = Nonce
  BY DEF Block, Nonce
<1>2. ChainType'
  BY <1>1 DEF ChainType
<1> QED
  BY <1>1, <1>2, ChainFacts DEF Grows

(* A step that adds a block, with or without a transaction of the account. *)
LEMMA ChainExtended ==
    ASSUME ChainType, Block < MaxBlock, NEW n \in {Nonce, Nonce + 1},
           nonces' = Append(nonces, n)
    PROVE  /\ ChainType' /\ Grows /\ Block' = Block + 1
           /\ nonces'[Block] = Nonce /\ nonces'[Block + 1] = n
<1>0. /\ nonces \in Seq(1..MaxBlock) /\ Block \in Nat /\ Block >= 1 /\ Nonce \in 1..Block
      /\ \A b \in 1..Block : nonces[b] \in 1..b /\ nonces[b] <= Nonce
      /\ \A a, b \in 1..Block : a <= b => nonces[a] <= nonces[b]
      /\ Block >= DeployBlock
  BY ChainFacts, ServerAssumption DEF ChainType
<1>1. n \in 1..MaxBlock /\ n \in 1..(Block + 1) /\ Nonce <= n
  BY <1>0, ServerAssumption
<1>2. /\ nonces' \in Seq(1..MaxBlock) /\ Block' = Block + 1
      /\ \A b \in 1..Block : nonces'[b] = nonces[b]
      /\ nonces'[Block + 1] = n
  BY <1>0, <1>1 DEF Block
<1>3. Block' \in DeployBlock..MaxBlock
  BY <1>0, <1>2, ServerAssumption
<1>4. \A b \in 1..Block' : b \in 1..Block \/ b = Block + 1
  BY <1>0, <1>2
<1>5. ASSUME NEW b \in 1..Block' PROVE nonces'[b] \in 1..b
  BY <1>0, <1>1, <1>2, <1>4
<1>6. ASSUME NEW a \in 1..Block', NEW b \in 1..Block', a <= b PROVE nonces'[a] <= nonces'[b]
  <2>1. CASE b \in 1..Block
    <3>1. a \in 1..Block
      BY <1>0, <1>6, <2>1
    <3> QED
      BY <1>0, <1>2, <1>6, <2>1, <3>1
  <2>2. CASE b = Block + 1
    <3>1. CASE a \in 1..Block
      <4>1. nonces'[a] = nonces[a] /\ nonces'[b] = n
        BY <1>2, <2>2, <3>1
      <4>2. nonces[a] <= Nonce /\ nonces[a] \in Nat
        BY <1>0, <3>1
      <4> QED
        BY <1>0, <1>1, <4>1, <4>2
    <3>2. CASE a = Block + 1
      <4>1. nonces'[a] = n /\ nonces'[b] = n
        BY <1>2, <2>2, <3>2
      <4> QED
        BY <1>1, <4>1
    <3> QED
      BY <1>4, <3>1, <3>2
  <2> QED
    BY <1>4, <2>1, <2>2
<1>7. ChainType'
  BY <1>2, <1>3, <1>5, <1>6 DEF ChainType
<1>8. nonces'[Block] = Nonce
  <2>1. Block \in 1..Block
    BY <1>0
  <2> QED
    BY <1>2, <2>1 DEF Nonce
<1>9. Block' \in Nat /\ Block <= Block'
  BY <1>0, <1>2
<1> QED
  BY <1>2, <1>7, <1>8, <1>9 DEF Grows

-----------------------------------------------------------------------------
(* The inductive invariant: what holds of each request by itself. *)

Landed == {"ok", "reverted"}

(* What the stage of a handler tells of its request. *)
Stage(r) ==
    /\ task[r].pc = "idle" => task[r].op = "none"
    /\ task[r].op = "none" => task[r].pc \in {"idle", "error"}
    /\ task[r].pc \in {"deposit", "block", "matched"} => task[r].op = "confirm"
    /\ task[r].pc = "store" => task[r].op \in {"confirm", "deploy"}
    /\ task[r].pc = "deployed" => task[r].op = "deploy"
    /\ task[r].pc \in {"nonce", "prove", "submit", "include", "result"} => task[r].op = "play"
    /\ task[r].op = "play" => task[r].session \in 1..issued /\ task[r].contract # 0
    /\ task[r].op \in {"confirm", "play"} => task[r].session \in Sessions
    /\ task[r].seed <= Block

(* The outcome is the virtual run's, and the nonce that of the seed block. *)
Work(r) ==
    /\ task[r].outcome # "empty" => task[r].op = "play"
    /\ task[r].won <=> task[r].outcome # "empty" /\ Flip(r) = task[r].bet
    /\ task[r].pc = "prove" /\ task[r].seed # 0 => task[r].nonce = nonces[task[r].seed]
    /\ task[r].pc = "submit" \/ proof_tx[r].status # "none" =>
           task[r].seed # 0 /\ task[r].nonce = nonces[task[r].seed]

(* The life of the proof transaction: it is included on top of a block after
   which the account's nonce is the one it was signed with. *)
ProofLife(r) ==
    /\ task[r].pc \in {"idle", "nonce", "prove", "submit"} => proof_tx[r].status = "none"
    /\ proof_tx[r].status # "none" => /\ task[r].op = "play"
                                      /\ proof_tx[r].seed = task[r].seed
                                      /\ proof_tx[r].nonce = task[r].nonce
    /\ proof_tx[r].block <= Block
    /\ proof_tx[r].block # 0 <=> proof_tx[r].status \in Landed
    /\ proof_tx[r].block # 0 => /\ proof_tx[r].block >= 2
                                /\ nonces[proof_tx[r].block - 1] = proof_tx[r].nonce

(* The life of the transaction of sncast_invoke: a settlement starts only after
   the proof is in a block, with the same seed. *)
InvokeLife(r) ==
    /\ task[r].pc \in {"idle", "deposit", "lock", "nonce", "prove", "submit", "include"} =>
           invoke_tx[r].status = "none"
    /\ task[r].op = "none" => invoke_tx[r].status = "none"
    /\ invoke_tx[r].block <= Block
    /\ invoke_tx[r].block # 0 <=> invoke_tx[r].status \in Landed
    /\ invoke_tx[r].block # 0 =>
           /\ invoke_tx[r].block >= 2
           /\ nonces[invoke_tx[r].block] = nonces[invoke_tx[r].block - 1] + 1
    /\ task[r].op = "play" /\ (task[r].pc = "lock" \/ invoke_tx[r].status # "none") =>
           proof_tx[r].status = "ok"
    /\ task[r].op = "play" /\ invoke_tx[r].status # "none" => invoke_tx[r].seed = task[r].seed
    /\ task[r].op = "play" /\ invoke_tx[r].block # 0 => proof_tx[r].block < invoke_tx[r].block

Local(r) == Stage(r) /\ Work(r) /\ ProofLife(r) /\ InvokeLife(r)

(* The deployments the server knows of exist. *)
SlotType ==
    /\ coinflip \in 0..MaxBlock /\ coinflip <= Block
    /\ bank \in BOOLEAN
    /\ stalled \subseteq Requests

Types == TaskType /\ InvokeType /\ ProofType /\ ChainType /\ SlotType /\ issued \in Nat

(* The numbers of a request. *)
LEMMA Numbers ==
    ASSUME Types, NEW r \in Requests
    PROVE  /\ task[r].seed \in Nat /\ task[r].nonce \in Nat /\ task[r].session \in Nat
           /\ invoke_tx[r] \in Tx /\ proof_tx[r] \in Tx
           /\ invoke_tx[r].block \in Nat /\ proof_tx[r].block \in Nat
           /\ invoke_tx[r].status \in TxStatus /\ proof_tx[r].status \in TxStatus
           /\ invoke_tx[r].block \in 0..MaxBlock
           /\ Block \in Nat /\ Block >= 1 /\ DeployBlock \in Nat /\ DeployBlock >= 1
           /\ DeployBlock <= Block
<1>1. task[r].seed \in Nat /\ task[r].nonce \in Nat /\ task[r].session \in Nat
  BY TaskNumbers, Zenon DEF Types
<1>2. invoke_tx[r] \in Tx /\ proof_tx[r] \in Tx
  BY DEF Types, InvokeType, ProofType
<1>3. /\ invoke_tx[r].block \in Nat /\ proof_tx[r].block \in Nat
      /\ invoke_tx[r].status \in TxStatus /\ proof_tx[r].status \in TxStatus
      /\ invoke_tx[r].block \in 0..MaxBlock
  BY <1>2, ServerAssumption DEF Tx
<1>4. Block \in Nat /\ Block >= 1 /\ DeployBlock \in Nat /\ DeployBlock >= 1 /\ DeployBlock <= Block
  BY ChainFacts, ServerAssumption DEF Types, ChainType
<1> QED
  BY <1>1, <1>2, <1>3, <1>4

(* Nothing of r changes but the chain and the sessions grow: r keeps what it has. *)
LEMMA Bystander ==
    ASSUME Types, NEW r \in Requests, Local(r), Grows, issued' \in Nat, issued <= issued',
           task'[r].pc = task[r].pc, SameTerms(r), SameWork(r),
           invoke_tx'[r] = invoke_tx[r], proof_tx'[r] = proof_tx[r]
    PROVE  Local(r)'
<1>0. Block \in Nat /\ Block' \in Nat /\ Block <= Block' /\ \A b \in 1..Block : nonces'[b] = nonces[b]
  BY Numbers DEF Grows
<1>1. Stage(r)'
  <2>1. /\ task'[r].op = task[r].op /\ task'[r].session = task[r].session
        /\ task'[r].seed = task[r].seed
    BY DEF SameTerms, SameWork
  <2>2. task[r].session \in 1..issued => task'[r].session \in 1..issued'
    BY <2>1 DEF Types
  <2>3. task[r].seed <= Block => task'[r].seed <= Block'
    BY <1>0, <2>1, Numbers
  <2>4. task'[r].contract = task[r].contract /\ task'[r].pc = task[r].pc
    BY DEF SameTerms
  <2> QED
    BY <2>1, <2>2, <2>3, <2>4 DEF Local, Stage
<1>2. Work(r)'
  <2>1. task[r].seed # 0 => nonces'[task[r].seed] = nonces[task[r].seed]
    <3>1. task[r].seed \in Nat /\ task[r].seed <= Block
      BY Numbers DEF Local, Stage
    <3> QED
      BY <1>0, <3>1
  <2> QED
    BY <2>1 DEF Local, Work, Flip, SameTerms, SameWork
<1>3. ProofLife(r)'
  <2>1. proof_tx[r].block # 0 /\ proof_tx[r].block >= 2 =>
            nonces'[proof_tx[r].block - 1] = nonces[proof_tx[r].block - 1]
    <3>1. proof_tx[r].block \in Nat /\ proof_tx[r].block <= Block
      BY Numbers DEF Local, ProofLife
    <3> QED
      BY <1>0, <3>1
  <2>2. proof_tx[r].block <= Block'
    BY <1>0, Numbers DEF Local, ProofLife
  <2> QED
    BY <2>1, <2>2 DEF Local, ProofLife, SameTerms, SameWork
<1>4. InvokeLife(r)'
  <2>1. invoke_tx[r].block # 0 /\ invoke_tx[r].block >= 2 =>
            /\ nonces'[invoke_tx[r].block - 1] = nonces[invoke_tx[r].block - 1]
            /\ nonces'[invoke_tx[r].block] = nonces[invoke_tx[r].block]
    <3>1. invoke_tx[r].block \in Nat /\ invoke_tx[r].block <= Block
      BY Numbers DEF Local, InvokeLife
    <3> QED
      BY <1>0, <3>1
  <2>2. invoke_tx[r].block <= Block'
    BY <1>0, Numbers DEF Local, InvokeLife
  <2> QED
    BY <2>1, <2>2 DEF Local, InvokeLife, SameTerms, SameWork
<1> QED
  BY <1>1, <1>2, <1>3, <1>4 DEF Local

(* A handler ends or waits for the receipt: it needs nothing new. *)
LEMMA GoesOn ==
    ASSUME Types, NEW r \in Requests, Local(r), UNCHANGED <<nonces, issued>>,
           SameTerms(r), SameWork(r),
           invoke_tx'[r] = invoke_tx[r], proof_tx'[r] = proof_tx[r],
           task[r].op # "none", task[r].pc # "error",
           task'[r].pc \in {"error", "cancelled", "result", "matched", "deployed", "confirm", "block"},
           task'[r].pc \in {"matched", "block"} => task[r].op = "confirm",
           task'[r].pc = "deployed" => task[r].op = "deploy",
           task'[r].pc = "result" => task[r].op = "play"
    PROVE  Local(r)'
<1>0. Block' = Block
  BY DEF Block
<1>1. Stage(r)'
  BY <1>0 DEF Local, Stage, SameTerms, SameWork
<1>2. Work(r)'
  BY DEF Local, Work, Flip, SameTerms, SameWork
<1>3. ProofLife(r)'
  BY <1>0 DEF Local, ProofLife, SameTerms, SameWork
<1>4. InvokeLife(r)'
  BY <1>0 DEF Local, InvokeLife, SameTerms, SameWork
<1> QED
  BY <1>1, <1>2, <1>3, <1>4 DEF Local

(* What a step can do to a request: once started it keeps its terms, it becomes
   a play by one action and keeps the seed it then has, and what is in a block
   stays as it is. *)
Fate(r) ==
    /\ task[r].pc = "idle" \/ SameTerms(r)
    /\ task'[r].op = "play" =>
           \/ task[r].op = "play"
           \/ \E s \in Sessions, p \in Players, b \in Coins : PlayAccepted(r, s, p, b)
    /\ task[r].op = "play" => task'[r].seed = task[r].seed
    /\ invoke_tx'[r] = invoke_tx[r] \/ invoke_tx[r].status \notin Landed
    /\ proof_tx'[r] = proof_tx[r] \/ proof_tx[r].status \notin Landed
    /\ invoke_tx'[r].block = invoke_tx[r].block \/ IncludeInvoke(r)
    /\ proof_tx'[r].block = proof_tx[r].block \/ IncludeProof(r)

(* What a step of request r leaves: every type, r's invariant, and the other
   requests. *)
Step(r) ==
    /\ TaskType' /\ InvokeType' /\ ProofType'
    /\ OnlyTask(r) /\ OnlyInvoke(r) /\ OnlyProof(r)
    /\ Local(r)' /\ Fate(r)

(* A step that sends nothing and includes nothing leaves all transactions as they
   were. *)
LEMMA TxsUnchanged ==
    ASSUME Types, NEW r \in Requests, UNCHANGED <<invoke_tx, proof_tx>>
    PROVE  InvokeType' /\ ProofType' /\ OnlyInvoke(r) /\ OnlyProof(r)
BY DEF Types, InvokeType, ProofType, OnlyInvoke, OnlyProof

(* A handler that has just started has no transaction. *)
LEMMA Starts ==
    ASSUME Types, NEW r \in Requests, Local(r), task[r].pc = "idle",
           UNCHANGED <<chainVars, issued, invoke_tx, proof_tx>>, TaskType', OnlyTask(r),
           \/ task'[r].op = "confirm" /\ task'[r].pc = "deposit" /\ task'[r].session \in Sessions
           \/ task'[r].op = "deploy" /\ task'[r].pc = "lock",
           task'[r].seed = 0, task'[r].outcome = "empty", ~task'[r].won
    PROVE  Step(r)
<1>0. Block \in Nat
  BY Numbers, Zenon
<1>1. Block' = Block /\ UNCHANGED nonces /\ 0 <= Block
  BY <1>0 DEF Block, chainVars
<1>2. Stage(r)'
  BY <1>1 DEF Stage
<1>3. invoke_tx'[r] = invoke_tx[r] /\ proof_tx'[r] = proof_tx[r]
      /\ invoke_tx[r].status = "none" /\ proof_tx[r].status = "none"
  BY DEF Local, ProofLife, InvokeLife
<1>4. Work(r)'
  BY <1>3 DEF Work
<1>5. ProofLife(r)'
  BY <1>1, <1>3 DEF Local, ProofLife
<1>6. InvokeLife(r)'
  BY <1>1, <1>3 DEF Local, InvokeLife
<1>7. Fate(r)
  BY <1>3 DEF Fate, Local, Stage
<1> QED
  BY <1>2, <1>4, <1>5, <1>6, <1>7, TxsUnchanged DEF Step, Local

(* confirm-deposit and deploy start. *)
LEMMA ConfirmStarts ==
    ASSUME Types, NEW r \in Requests, Local(r), NEW s \in Sessions, ConfirmDeposit(r, s)
    PROVE  Step(r)
<1>1. /\ task' = [task EXCEPT ![r] = [Idle EXCEPT !.op = "confirm", !.pc = "deposit", !.session = s]]
      /\ task[r].pc = "idle" /\ UNCHANGED <<chainVars, issued, invoke_tx, proof_tx>>
      /\ "deposit" \in Stages
  BY StageNames DEF ConfirmDeposit
<1>2. /\ TaskType' /\ OnlyTask(r)
      /\ task'[r].op = "confirm" /\ task'[r].pc = "deposit" /\ task'[r].session = s
      /\ task'[r].seed = 0 /\ task'[r].outcome = "empty" /\ ~task'[r].won
  BY <1>1, ConfirmEffect DEF Types
<1> QED
  BY <1>1, <1>2, Starts

(* A deploy request queues for the lock with nothing sent. *)
LEMMA DeployStarts ==
    ASSUME Types, NEW r \in Requests, Local(r), DeployCoinFlip(r)
    PROVE  Step(r)
<1>1. /\ task' = [task EXCEPT ![r] = [Idle EXCEPT !.op = "deploy", !.pc = "lock"]]
      /\ task[r].pc = "idle" /\ UNCHANGED <<chainVars, issued, invoke_tx, proof_tx>>
  BY DEF DeployCoinFlip
<1>2. /\ TaskType' /\ OnlyTask(r) /\ task'[r].op = "deploy" /\ task'[r].pc = "lock"
      /\ task'[r].seed = 0 /\ task'[r].outcome = "empty" /\ ~task'[r].won
  BY <1>1, DeployEffect DEF Types
<1> QED
  BY <1>1, <1>2, Starts

(* A play that is rejected or refused ends its own request and no other. *)
LEMMA PlayEnds ==
    ASSUME Types, NEW r \in Requests, Local(r), NEW s \in Sessions,
           PlayRejected(r, s) \/ PlayRefused(r, s)
    PROVE  Step(r)
<1>1. /\ task' = [task EXCEPT ![r] = [Idle EXCEPT !.pc = "error", !.session = s]]
      /\ task[r].pc = "idle" /\ UNCHANGED <<chainVars, issued, invoke_tx, proof_tx>>
  BY DEF PlayRejected, PlayRefused
<1>2. /\ TaskType' /\ OnlyTask(r)
      /\ task'[r].op = "none" /\ task'[r].pc = "error" /\ task'[r].session = s
      /\ task'[r].seed = 0 /\ task'[r].outcome = "empty" /\ ~task'[r].won
  BY <1>1, RefuseEffect DEF Types
<1>3. Block' = Block /\ UNCHANGED nonces
  BY <1>1 DEF Block, chainVars
<1>4. Stage(r)'
  <2>1. 0 <= Block'
    BY <1>3, Numbers
  <2> QED
    BY <1>2, <2>1 DEF Stage
<1>5. invoke_tx'[r] = invoke_tx[r] /\ proof_tx'[r] = proof_tx[r]
      /\ invoke_tx[r].status = "none" /\ proof_tx[r].status = "none"
  BY <1>1 DEF Local, ProofLife, InvokeLife
<1>6. Work(r)'
  BY <1>2, <1>5 DEF Work
<1>7. ProofLife(r)'
  BY <1>2, <1>3, <1>5 DEF Local, ProofLife
<1>8. InvokeLife(r)'
  BY <1>2, <1>3, <1>5 DEF Local, InvokeLife
<1>9. Fate(r)
  BY <1>1, <1>2, <1>5 DEF Fate, Local, Stage
<1> QED
  BY <1>9, <1>1, <1>2, <1>4, <1>6, <1>7, <1>8, TxsUnchanged DEF Step, Local

(* An accepted play starts on a commitment that was issued, with its seed block
   known. *)
LEMMA PlayStarts ==
    ASSUME Types, CommitmentsType, NEW r \in Requests, Local(r), NEW s \in Sessions,
           NEW p \in Players, NEW b \in Coins, PlayAccepted(r, s, p, b),
           s <= issued, commitments[s].seed_block <= Block
    PROVE  Step(r)
<1>1. task[r].pc = "idle" /\ UNCHANGED <<chainVars, issued, invoke_tx, proof_tx>>
  BY DEF PlayAccepted
<1>2. /\ TaskType' /\ OnlyTask(r)
      /\ task'[r].op = "play" /\ task'[r].pc = "nonce" /\ task'[r].session = s
      /\ task'[r].seed = commitments[s].seed_block
      /\ task'[r].contract = coinflip /\ task'[r].outcome = "empty" /\ ~task'[r].won
  BY PlayEffect DEF Types, SlotType
<1>3. Block' = Block /\ UNCHANGED nonces
  BY <1>1 DEF Block, chainVars
<1>4. Stage(r)'
  <2>1. s \in 1..issued' /\ commitments[s].seed_block <= Block' /\ coinflip # 0
    BY <1>1, <1>3 DEF Sessions, Types, PlayAccepted
  <2> QED
    BY <1>2, <2>1 DEF Stage
<1>5. invoke_tx'[r] = invoke_tx[r] /\ proof_tx'[r] = proof_tx[r]
      /\ invoke_tx[r].status = "none" /\ proof_tx[r].status = "none"
  BY <1>1 DEF Local, ProofLife, InvokeLife
<1>6. Work(r)'
  BY <1>2, <1>5 DEF Work
<1>7. ProofLife(r)'
  BY <1>2, <1>3, <1>5 DEF Local, ProofLife
<1>8. InvokeLife(r)'
  BY <1>2, <1>3, <1>5 DEF Local, InvokeLife, Landed
<1>9. Fate(r)
  BY <1>1, <1>2, <1>5 DEF Fate, Local, Stage
<1> QED
  BY <1>9, <1>1, <1>2, <1>4, <1>6, <1>7, <1>8, TxsUnchanged DEF Step, Local

(* Handlers that only go on to another stage. *)
LEMMA EndSteps ==
    ASSUME Types, NEW r \in Requests, Local(r),
           \/ SncastNoHash(r) \/ SncastHash(r) \/ TxUnconfirmed(r) \/ StoreSeed(r)
           \/ StoreDeployment(r) \/ ConfirmRefused(r) \/ PlayFails(r) \/ ClientDisconnect(r)
    PROVE  Step(r)
<1>0. UNCHANGED <<nonces, issued, invoke_tx, proof_tx>>
  BY DEF SncastNoHash, SncastHash, TxUnconfirmed, StoreSeed, StoreDeployment, ConfirmRefused,
         PlayFails, ClientDisconnect, chainVars
<1>1. /\ InvokeType' /\ ProofType' /\ OnlyInvoke(r) /\ OnlyProof(r)
      /\ invoke_tx'[r] = invoke_tx[r] /\ proof_tx'[r] = proof_tx[r]
  BY <1>0, TxsUnchanged
<1>2. /\ task[r].op # "none" /\ task[r].pc # "error"
      /\ TaskType' /\ OnlyTask(r) /\ SameTerms(r) /\ SameWork(r)
      /\ task'[r].pc \in {"error", "cancelled", "result", "matched", "deployed", "confirm", "block"}
      /\ task'[r].pc \in {"matched", "block"} => task[r].op = "confirm"
      /\ task'[r].pc = "deployed" => task[r].op = "deploy"
      /\ task'[r].pc = "result" => task[r].op = "play"
  <2>0. TaskType /\ task[r].op \in {"none", "deploy", "confirm", "play"}
    BY TaskFields DEF Types
  <2>1. CASE SncastNoHash(r)
    <3>1. AfterInvoke(r, "error", FALSE) /\ task[r].pc = "sncast"
      BY <2>1 DEF SncastNoHash
    <3>2. /\ TaskType' /\ OnlyTask(r) /\ SameTerms(r) /\ SameWork(r)
          /\ task'[r].pc = IF task[r].op = "confirm" THEN "error"
                           ELSE IF task[r].op = "play" THEN "result" ELSE "error"
      BY <2>0, <3>1, StageNames, AfterInvokeEffect
    <3> QED
      BY <2>0, <3>1, <3>2 DEF Local, Stage
  <2>2. CASE TxUnconfirmed(r)
    <3>1. AfterInvoke(r, "block", TRUE) /\ task[r].pc = "confirm"
      BY <2>2 DEF TxUnconfirmed
    <3>2. /\ TaskType' /\ OnlyTask(r) /\ SameTerms(r) /\ SameWork(r)
          /\ task'[r].pc = IF task[r].op = "confirm" THEN "block"
                           ELSE IF task[r].op = "play" THEN "result" ELSE "error"
      BY <2>0, <3>1, StageNames, AfterInvokeEffect
    <3> QED
      BY <2>0, <3>1, <3>2 DEF Local, Stage
  <2>3. CASE SncastHash(r)
    <3>1. Goto(r, "confirm") /\ task[r].pc = "sncast"
      BY <2>3 DEF SncastHash
    <3>2. TaskType' /\ OnlyTask(r) /\ task'[r].pc = "confirm" /\ SameTerms(r) /\ SameWork(r)
      BY <2>0, <3>1, StageNames, GotoEffect
    <3> QED
      BY <2>0, <3>1, <3>2 DEF Local, Stage
  <2>4. CASE StoreSeed(r)
    <3>1. Goto(r, "matched") /\ task[r].pc = "store" /\ task[r].op = "confirm"
      BY <2>4 DEF StoreSeed
    <3>2. TaskType' /\ OnlyTask(r) /\ task'[r].pc = "matched" /\ SameTerms(r) /\ SameWork(r)
      BY <2>0, <3>1, StageNames, GotoEffect
    <3> QED
      BY <2>0, <2>4, <3>1, <3>2 DEF Local, Stage
  <2>5. CASE PlayFails(r)
    <3>1. Goto(r, "error") /\ task[r].pc \in {"nonce", "prove", "submit", "include"}
      BY <2>5 DEF PlayFails
    <3>2. TaskType' /\ OnlyTask(r) /\ task'[r].pc = "error" /\ SameTerms(r) /\ SameWork(r)
      BY <2>0, <3>1, StageNames, GotoEffect
    <3> QED
      BY <2>0, <3>1, <3>2 DEF Local, Stage
  <2>6. CASE ClientDisconnect(r)
    <3>1. Goto(r, "cancelled") /\ task[r].op # "none" /\ task[r].pc # "error"
      BY <2>6 DEF ClientDisconnect, Replies
    <3>2. TaskType' /\ OnlyTask(r) /\ task'[r].pc = "cancelled" /\ SameTerms(r) /\ SameWork(r)
      BY <2>0, <3>1, StageNames, GotoEffect
    <3> QED
      BY <2>0, <3>1, <3>2
  <2>7. CASE StoreDeployment(r)
    <3>1. Goto(r, "deployed") /\ task[r].pc = "store" /\ task[r].op = "deploy"
      BY <2>7 DEF StoreDeployment
    <3>2. TaskType' /\ OnlyTask(r) /\ task'[r].pc = "deployed" /\ SameTerms(r) /\ SameWork(r)
      BY <2>0, <3>1, StageNames, GotoEffect
    <3> QED
      BY <2>0, <3>1, <3>2
  <2>8. CASE ConfirmRefused(r)
    <3>1. Goto(r, "error") /\ task[r].pc = "deposit"
      BY <2>8 DEF ConfirmRefused
    <3>2. TaskType' /\ OnlyTask(r) /\ task'[r].pc = "error" /\ SameTerms(r) /\ SameWork(r)
      BY <2>0, <3>1, StageNames, GotoEffect
    <3> QED
      BY <2>0, <3>1, <3>2 DEF Local, Stage
  <2> QED
    BY <2>1, <2>2, <2>3, <2>4, <2>5, <2>6, <2>7, <2>8
<1>3. Local(r)'
  BY <1>0, <1>1, <1>2, GoesOn
<1>4. Fate(r)
  BY <1>1, <1>2 DEF Fate, SameTerms, SameWork
<1> QED
  BY <1>4, <1>1, <1>2, <1>3 DEF Step

(* play submits its proof again. *)
LEMMA RetryStep ==
    ASSUME Types, NEW r \in Requests, Local(r), SubmitNotReady(r)
    PROVE  Step(r)
<1>0. UNCHANGED <<nonces, issued, invoke_tx, proof_tx>>
  BY DEF SubmitNotReady, chainVars
<1>1. /\ InvokeType' /\ ProofType' /\ OnlyInvoke(r) /\ OnlyProof(r)
      /\ invoke_tx'[r] = invoke_tx[r] /\ proof_tx'[r] = proof_tx[r]
  BY <1>0, TxsUnchanged
<1>2. TaskType' /\ OnlyTask(r) /\ SameTerms(r) /\ SameWork(r) /\ task'[r].pc = task[r].pc
  BY RetryEffect DEF Types
<1>3. Grows /\ issued' \in Nat /\ issued <= issued'
  BY <1>0, ChainUnchanged DEF Types
<1>4. Local(r)'
  BY <1>1, <1>2, <1>3, Bystander
<1>5. Fate(r)
  BY <1>1, <1>2 DEF Fate, SameTerms, SameWork
<1> QED
  BY <1>5, <1>1, <1>2, <1>4 DEF Step

(* The proof or the deposit is in a block: the handler queues for sncast_lock. *)
LEMMA QueuesUp ==
    ASSUME Types, NEW r \in Requests, Local(r), UNCHANGED <<nonces, issued, invoke_tx, proof_tx>>,
           Goto(r, "lock"),
           task[r].pc = "deposit" \/ (task[r].pc = "include" /\ proof_tx[r].status = "ok")
    PROVE  Step(r)
<1>1. /\ InvokeType' /\ ProofType' /\ OnlyInvoke(r) /\ OnlyProof(r)
      /\ invoke_tx'[r] = invoke_tx[r] /\ proof_tx'[r] = proof_tx[r]
  BY TxsUnchanged
<1>2. TaskType' /\ OnlyTask(r) /\ SameTerms(r) /\ SameWork(r) /\ task'[r].pc = "lock"
  BY StageNames, GotoEffect DEF Types
<1>3. Block' = Block
  BY DEF Block
<1>4. Stage(r)'
  BY <1>2, <1>3 DEF Local, Stage, SameTerms, SameWork
<1>5. Work(r)'
  BY <1>2 DEF Local, Work, Flip, SameTerms, SameWork
<1>6. ProofLife(r)'
  BY <1>2, <1>3 DEF Local, ProofLife, SameTerms, SameWork
<1>7. InvokeLife(r)'
  BY <1>2, <1>3 DEF Local, Stage, InvokeLife, SameTerms, SameWork
<1>8. Fate(r)
  BY <1>1, <1>2 DEF Fate, SameTerms, SameWork
<1> QED
  BY <1>8, <1>1, <1>2, <1>4, <1>5, <1>6, <1>7 DEF Step, Local

(* play goes on to the settlement, or ends without one. *)
LEMMA ProofIncludedStep ==
    ASSUME Types, NEW r \in Requests, Local(r), ProofIncluded(r)
    PROVE  Step(r)
<1>0. /\ UNCHANGED <<nonces, issued, invoke_tx, proof_tx>>
      /\ task[r].pc = "include" /\ proof_tx[r].status = "ok"
      /\ Goto(r, "lock") \/ Goto(r, "result")
  BY DEF ProofIncluded, chainVars
<1>1. CASE Goto(r, "lock")
  BY <1>0, <1>1, QueuesUp
<1>2. CASE Goto(r, "result")
  <2>1. /\ InvokeType' /\ ProofType' /\ OnlyInvoke(r) /\ OnlyProof(r)
        /\ invoke_tx'[r] = invoke_tx[r] /\ proof_tx'[r] = proof_tx[r]
    BY <1>0, TxsUnchanged
  <2>2. TaskType' /\ OnlyTask(r) /\ SameTerms(r) /\ SameWork(r) /\ task'[r].pc = "result"
    BY <1>2, StageNames, GotoEffect DEF Types
  <2>3. task[r].op = "play"
    BY <1>0 DEF Local, Stage
  <2>4. Local(r)'
    BY <1>0, <2>1, <2>2, <2>3, GoesOn
  <2>5. Fate(r)
    BY <2>1, <2>2 DEF Fate, SameTerms, SameWork
  <2> QED
    BY <2>1, <2>2, <2>4, <2>5 DEF Step
<1> QED
  BY <1>0, <1>1, <1>2

(* confirm-deposit has seen the player's deposit. *)
LEMMA DepositConfirmedStep ==
    ASSUME Types, NEW r \in Requests, Local(r), DepositConfirmed(r)
    PROVE  Step(r)
<1>1. /\ UNCHANGED <<nonces, issued, invoke_tx, proof_tx>>
      /\ task[r].pc = "deposit" /\ Goto(r, "lock")
  BY DEF DepositConfirmed, chainVars
<1> QED
  BY <1>1, QueuesUp

(* The block that becomes the seed exists and has the contract that is stored. *)
LEMMA SeedBlockRange ==
    ASSUME Types, NEW b \in Nat, b <= Block
    PROVE  /\ SeedBlock(b) \in 0..MaxBlock /\ SeedBlock(b) >= coinflip
           /\ SeedBlock(b) \in 0..Block
<1>1. /\ Block \in Nat /\ Block <= MaxBlock /\ MaxBlock \in Nat
      /\ coinflip \in Nat /\ coinflip <= Block
  BY ChainFacts, ServerAssumption DEF Types, ChainType, SlotType
<1> QED
  BY <1>1 DEF SeedBlock, Max

(* The block is known: from block_number or from the receipt. *)
LEMMA StoreKeeps ==
    ASSUME Types, NEW r \in Requests, Local(r), UNCHANGED <<nonces, issued>>,
           task[r].op \in {"confirm", "deploy"}, task[r].pc \in {"block", "confirm"},
           SameTerms(r), task'[r].pc = "store", task'[r].nonce = task[r].nonce,
           task'[r].outcome = task[r].outcome, task'[r].won = task[r].won,
           task'[r].seed <= Block,
           invoke_tx'[r] = invoke_tx[r], proof_tx'[r] = proof_tx[r]
    PROVE  Local(r)'
<1>0. Block' = Block
  BY DEF Block
<1>1. Stage(r)'
  BY <1>0 DEF Local, Stage, SameTerms
<1>2. proof_tx[r].status = "none" /\ task[r].outcome = "empty" /\ ~task[r].won
  BY DEF Local, ProofLife, Work
<1>3. Work(r)'
  BY <1>2 DEF Work
<1>4. ProofLife(r)'
  BY <1>0, <1>2 DEF Local, ProofLife, SameTerms
<1>5. InvokeLife(r)'
  BY <1>0 DEF Local, InvokeLife, SameTerms
<1> QED
  BY <1>1, <1>3, <1>4, <1>5 DEF Local

(* A block taken from the latest block number exists (confirm_deposit). *)
LEMMA ReadBlockNumberStep ==
    ASSUME Types, NEW r \in Requests, Local(r), ReadBlockNumber(r)
    PROVE  Step(r)
<1>0. UNCHANGED <<nonces, issued, invoke_tx, proof_tx>> /\ task[r].pc = "block"
  BY DEF ReadBlockNumber, chainVars
<1>1. /\ InvokeType' /\ ProofType' /\ OnlyInvoke(r) /\ OnlyProof(r)
      /\ invoke_tx'[r] = invoke_tx[r] /\ proof_tx'[r] = proof_tx[r]
  BY <1>0, TxsUnchanged
<1>2. PICK b \in {Block, 0} : task' = [task EXCEPT ![r].pc = "store", ![r].seed = b]
  BY DEF ReadBlockNumber
<1>3. b \in Nat /\ b <= Block
  BY Numbers
<1>4. b \in 0..MaxBlock
  BY <1>3, ChainFacts, ServerAssumption DEF Types
<1>5. /\ TaskType' /\ OnlyTask(r) /\ SameTerms(r)
      /\ task'[r].pc = "store" /\ task'[r].seed = b
      /\ task'[r].nonce = task[r].nonce /\ task'[r].outcome = task[r].outcome
      /\ task'[r].won = task[r].won
  BY <1>2, <1>4, SeedEffect DEF Types
<1>6. task[r].op = "confirm"
  BY <1>0 DEF Local, Stage
<1>7. Local(r)'
  BY <1>0, <1>1, <1>3, <1>5, <1>6, StoreKeeps
<1>8. Fate(r)
  BY <1>1, <1>5, <1>6 DEF Fate, SameTerms, SameWork
<1> QED
  BY <1>8, <1>1, <1>5, <1>7 DEF Step

(* A receipt moves the request on; a deposit's seed block is one that exists. *)
LEMMA TxConfirmedStep ==
    ASSUME Types, NEW r \in Requests, Local(r), TxConfirmed(r)
    PROVE  Step(r)
<1>0. UNCHANGED <<nonces, issued, invoke_tx, proof_tx>> /\ task[r].pc = "confirm"
  BY DEF TxConfirmed, chainVars
<1>1. /\ InvokeType' /\ ProofType' /\ OnlyInvoke(r) /\ OnlyProof(r)
      /\ invoke_tx'[r] = invoke_tx[r] /\ proof_tx'[r] = proof_tx[r]
  BY <1>0, TxsUnchanged
<1>4. invoke_tx[r].block \in 0..MaxBlock /\ invoke_tx[r].block <= Block
  BY Numbers DEF Local, InvokeLife
<1>7. /\ TaskType' /\ OnlyTask(r) /\ SameTerms(r)
      /\ task'[r].pc = IF task[r].op = "play" THEN "result" ELSE "store"
      /\ task'[r].seed = IF task[r].op = "play" THEN task[r].seed ELSE invoke_tx[r].block
      /\ task'[r].nonce = task[r].nonce /\ task'[r].outcome = task[r].outcome
      /\ task'[r].won = task[r].won
  BY <1>4, ConfirmedEffect DEF Types
<1>8. Local(r)'
  <2>1. CASE task[r].op \in {"confirm", "deploy"}
    <3>1. task'[r].pc = "store" /\ task'[r].seed = invoke_tx[r].block
      BY <1>7, <2>1
    <3> QED
      BY <1>0, <1>1, <1>4, <1>7, <2>1, <3>1, StoreKeeps
  <2>2. CASE task[r].op = "play"
    BY <1>0, <1>1, <1>7, <2>2, GoesOn DEF SameWork
  <2>3. task[r].op \in {"deploy", "confirm", "play"}
    BY <1>0, TaskFields DEF Local, Stage, Types
  <2> QED
    BY <2>1, <2>2, <2>3
<1>9. Fate(r)
  BY <1>1, <1>7 DEF Fate, SameTerms
<1> QED
  BY <1>9, <1>1, <1>7, <1>8 DEF Step

(* play reads the nonce of its seed block. *)
LEMMA FetchNonceStep ==
    ASSUME Types, NEW r \in Requests, Local(r), FetchNonce(r)
    PROVE  Step(r)
<1>0. UNCHANGED <<nonces, issued, invoke_tx, proof_tx>> /\ task[r].pc = "nonce"
  BY DEF FetchNonce, chainVars
<1>1. /\ InvokeType' /\ ProofType' /\ OnlyInvoke(r) /\ OnlyProof(r)
      /\ invoke_tx'[r] = invoke_tx[r] /\ proof_tx'[r] = proof_tx[r]
  BY <1>0, TxsUnchanged
<1> DEFINE n == IF task[r].seed = 0 THEN 0 ELSE nonces[task[r].seed]
<1>2. task' = [task EXCEPT ![r].pc = "prove", ![r].nonce = n]
  BY DEF FetchNonce
<1>3. n \in 0..MaxBlock
  <2>1. task[r].seed \in Nat /\ task[r].seed <= Block /\ Block \in Nat
    BY Numbers DEF Local, Stage
  <2>2. task[r].seed # 0 => task[r].seed \in 1..Block
    BY <2>1
  <2> QED
    BY <2>2, ChainFacts, ServerAssumption DEF Types
<1>4. /\ TaskType' /\ OnlyTask(r) /\ SameTerms(r) /\ task'[r].pc = "prove" /\ task'[r].nonce = n
      /\ task'[r].seed = task[r].seed /\ task'[r].outcome = task[r].outcome
      /\ task'[r].won = task[r].won
  <2> HIDE DEF n
  <2> QED
    BY <1>2, <1>3, NonceEffect DEF Types
<1>5. Block' = Block
  BY <1>0 DEF Block
<1>6. proof_tx'[r] = proof_tx[r] /\ proof_tx[r].status = "none"
  BY <1>0 DEF Local, ProofLife
<1>7. Stage(r)'
  BY <1>0, <1>4, <1>5 DEF Local, Stage, SameTerms
<1>8. Work(r)'
  BY <1>0, <1>4, <1>6 DEF Local, Work, Flip, SameTerms
<1>9. ProofLife(r)'
  BY <1>0, <1>4, <1>5, <1>6 DEF Local, ProofLife
<1>10. InvokeLife(r)'
  BY <1>0, <1>4, <1>5 DEF Local, InvokeLife, SameTerms
<1>11. Fate(r)
  BY <1>1, <1>4 DEF Fate, SameTerms, SameWork
<1> QED
  BY <1>11, <1>1, <1>4, <1>7, <1>8, <1>9, <1>10 DEF Step, Local

(* What the server reads of the message is nothing, or the outcome and whether it
   is the bet. *)
LEMMA ProveMessage ==
    ASSUME NEW r \in Requests, Prove(r)
    PROVE  \E m \in {"empty", "heads", "tails"}, w \in BOOLEAN :
               /\ task' = [task EXCEPT ![r].pc = "submit", ![r].outcome = m, ![r].won = w]
               /\ w <=> m # "empty" /\ Flip(r) = task[r].bet
<1>1. PICK readable \in BOOLEAN :
          task' = [task EXCEPT
              ![r].pc = "submit",
              ![r].outcome = IF ~readable THEN "empty" ELSE Side(Flip(r)),
              ![r].won = readable /\ Flip(r) = task[r].bet]
  BY DEF Prove
<1> DEFINE m == IF ~readable THEN "empty" ELSE Side(Flip(r))
           w == readable /\ Flip(r) = task[r].bet
<1>2. m \in {"empty", "heads", "tails"} /\ w \in BOOLEAN /\ (m # "empty" <=> readable)
  BY DEF Side
<1>3. w <=> m # "empty" /\ Flip(r) = task[r].bet
  BY <1>2
<1>4. task' = [task EXCEPT ![r].pc = "submit", ![r].outcome = m, ![r].won = w]
  BY <1>1
<1> HIDE DEF m, w
<1> QED
  BY <1>2, <1>3, <1>4

(* The virtual run ends. *)
LEMMA ProveStep ==
    ASSUME Types, NEW r \in Requests, Local(r), Prove(r)
    PROVE  Step(r)
<1>0. /\ UNCHANGED <<nonces, issued, invoke_tx, proof_tx>>
      /\ task[r].pc = "prove" /\ task[r].seed >= task[r].contract
  BY DEF Prove, chainVars
<1>1. /\ InvokeType' /\ ProofType' /\ OnlyInvoke(r) /\ OnlyProof(r)
      /\ invoke_tx'[r] = invoke_tx[r] /\ proof_tx'[r] = proof_tx[r]
  BY <1>0, TxsUnchanged
<1>2. PICK m \in {"empty", "heads", "tails"}, w \in BOOLEAN :
          /\ task' = [task EXCEPT ![r].pc = "submit", ![r].outcome = m, ![r].won = w]
          /\ w <=> m # "empty" /\ Flip(r) = task[r].bet
  BY ProveMessage
<1>4. /\ TaskType' /\ OnlyTask(r) /\ SameTerms(r) /\ task'[r].pc = "submit"
      /\ task'[r].outcome = m /\ task'[r].won = w
      /\ task'[r].seed = task[r].seed /\ task'[r].nonce = task[r].nonce
  <2>1. TaskType
    BY DEF Types
  <2>2. task' = [task EXCEPT ![r].pc = "submit", ![r].outcome = m, ![r].won = w]
    BY <1>2
  <2> QED
    BY <2>1, <2>2, ProveEffect
<1>5. Block' = Block
  BY <1>0 DEF Block
<1>6. Stage(r)'
  BY <1>0, <1>4, <1>5 DEF Local, Stage, SameTerms
<1>7. Work(r)'
  <2>0. task[r].op = "play" /\ task[r].contract # 0
    BY <1>0 DEF Local, Stage
  <2>1. task[r].seed # 0
    <3>1. task[r].contract \in Nat /\ task[r].seed \in Nat
      BY TaskNumbers, Zenon DEF Types
    <3> QED
      BY <1>0, <2>0, <3>1
  <2>2. task[r].nonce = nonces[task[r].seed]
    BY <1>0, <2>1 DEF Local, Work
  <2>3. Flip(r)' = Flip(r)
    BY <1>4 DEF Flip, SameTerms
  <2>4. task'[r].won <=> task'[r].outcome # "empty" /\ Flip(r)' = task'[r].bet
    BY <1>2, <1>4, <2>3 DEF SameTerms
  <2> QED
    BY <1>0, <1>4, <2>0, <2>1, <2>2, <2>4 DEF Work, SameTerms
<1>8. ProofLife(r)'
  BY <1>0, <1>4, <1>5 DEF Local, ProofLife, SameTerms
<1>9. InvokeLife(r)'
  BY <1>0, <1>4, <1>5 DEF Local, InvokeLife, SameTerms
<1>10. Fate(r)
  BY <1>1, <1>4 DEF Fate, SameTerms, SameWork
<1> QED
  BY <1>10, <1>1, <1>4, <1>6, <1>7, <1>8, <1>9 DEF Step, Local

(* The gateway takes the proof. *)
LEMMA SubmitProofStep ==
    ASSUME Types, NEW r \in Requests, Local(r), SubmitProof(r)
    PROVE  Step(r)
<1>0. UNCHANGED <<nonces, issued, invoke_tx>> /\ task[r].pc = "submit"
  BY DEF SubmitProof, chainVars
<1>1. PICK stage \in {"include", "error"} : Goto(r, stage)
  BY DEF SubmitProof
<1>2. TaskType' /\ OnlyTask(r) /\ SameTerms(r) /\ SameWork(r) /\ task'[r].pc = stage
  <2>1. stage \in Stages
    BY StageNames
  <2> QED
    BY <1>1, <2>1, GotoEffect DEF Types
<1>3. task[r].seed \in 0..MaxBlock /\ task[r].nonce \in 0..MaxBlock /\ "pending" \in TxStatus
  BY TaskFields, StatusNames DEF Types
<1>4. /\ ProofType' /\ OnlyProof(r) /\ proof_tx'[r].status = "pending"
      /\ proof_tx'[r].seed = task[r].seed /\ proof_tx'[r].nonce = task[r].nonce
      /\ proof_tx'[r].block = proof_tx[r].block
  BY <1>3, SubmitEffect DEF Types
<1>5. InvokeType' /\ OnlyInvoke(r) /\ invoke_tx'[r] = invoke_tx[r]
  BY <1>0 DEF Types, InvokeType, OnlyInvoke
<1>6. Block' = Block
  BY <1>0 DEF Block
<1>7. Stage(r)'
  BY <1>0, <1>2, <1>6 DEF Local, Stage, SameTerms, SameWork
<1>8. Work(r)'
  BY <1>0, <1>2 DEF Local, Work, Flip, SameTerms, SameWork
<1>9. ProofLife(r)'
  <2>1. proof_tx[r].block = 0 /\ 0 <= Block /\ task[r].op = "play"
    BY <1>0, Numbers DEF Local, ProofLife, Landed, Stage
  <2> QED
    BY <1>2, <1>4, <1>6, <2>1 DEF ProofLife, SameTerms, SameWork, Landed
<1>10. InvokeLife(r)'
  <2>1. invoke_tx[r].status = "none" /\ invoke_tx[r].block = 0 /\ 0 <= Block
    BY <1>0, Numbers DEF Local, InvokeLife, Landed
  <2> QED
    BY <1>2, <1>5, <1>6, <2>1 DEF InvokeLife, Landed
<1>11. proof_tx[r].status = "none"
  BY <1>0 DEF Local, ProofLife
<1>12. Fate(r)
  BY <1>0, <1>2, <1>4, <1>5, <1>11 DEF Fate, SameTerms, SameWork, Landed
<1> QED
  BY <1>12, <1>2, <1>4, <1>5, <1>7, <1>8, <1>9, <1>10 DEF Step, Local

(* sncast starts under the lock. *)
LEMMA AcquireLockStep ==
    ASSUME Types, NEW r \in Requests, Local(r), AcquireLock(r)
    PROVE  Step(r)
<1>0. UNCHANGED <<nonces, issued, proof_tx>> /\ task[r].pc = "lock" /\ Goto(r, "sncast")
  BY DEF AcquireLock, chainVars
<1>1. TaskType' /\ OnlyTask(r) /\ SameTerms(r) /\ SameWork(r) /\ task'[r].pc = "sncast"
  BY <1>0, StageNames, GotoEffect DEF Types
<1>2. task[r].seed \in 0..MaxBlock /\ "running" \in TxStatus
  BY TaskFields, StatusNames DEF Types
<1>3. /\ InvokeType' /\ OnlyInvoke(r) /\ invoke_tx'[r].status = "running"
      /\ invoke_tx'[r].seed = task[r].seed /\ invoke_tx'[r].block = invoke_tx[r].block
  BY <1>2, RunEffect DEF Types
<1>4. ProofType' /\ OnlyProof(r) /\ proof_tx'[r] = proof_tx[r]
  BY <1>0 DEF Types, ProofType, OnlyProof
<1>5. Block' = Block
  BY <1>0 DEF Block
<1>6. Stage(r)'
  BY <1>0, <1>1, <1>5 DEF Local, Stage, SameTerms, SameWork
<1>7. Work(r)'
  BY <1>0, <1>1 DEF Local, Work, Flip, SameTerms, SameWork
<1>8. ProofLife(r)'
  BY <1>0, <1>1, <1>5 DEF Local, ProofLife, SameTerms, SameWork
<1>9. InvokeLife(r)'
  <2>1. invoke_tx[r].block = 0 /\ 0 <= Block /\ task[r].op # "none"
    BY <1>0, Numbers DEF Local, InvokeLife, Landed, Stage
  <2>2. task[r].op = "play" => proof_tx[r].status = "ok"
    BY <1>0 DEF Local, InvokeLife
  <2> QED
    BY <1>1, <1>3, <1>4, <1>5, <2>1, <2>2 DEF InvokeLife, Landed, SameTerms, SameWork
<1>10. invoke_tx[r].status = "none"
  BY <1>0 DEF Local, InvokeLife
<1>11. Fate(r)
  BY <1>0, <1>1, <1>3, <1>4, <1>10 DEF Fate, SameTerms, SameWork, Landed
<1> QED
  BY <1>11, <1>1, <1>3, <1>4, <1>6, <1>7, <1>8, <1>9 DEF Step, Local

(* The transaction of sncast_invoke changes its status outside a block. *)
LEMMA InvokeMoves ==
    ASSUME Types, NEW r \in Requests, Local(r), UNCHANGED <<nonces, issued, task, proof_tx>>,
           InvokeType', OnlyInvoke(r), invoke_tx[r].status \in {"running", "pending"},
           invoke_tx'[r].status \in {"pending", "failed", "dropped"},
           invoke_tx'[r].seed = invoke_tx[r].seed, invoke_tx'[r].block = invoke_tx[r].block
    PROVE  Step(r)
<1>1. /\ TaskType' /\ OnlyTask(r) /\ ProofType' /\ OnlyProof(r)
      /\ task'[r] = task[r] /\ proof_tx'[r] = proof_tx[r]
  BY DEF Types, TaskType, ProofType, OnlyTask, OnlyProof
<1>2. Block' = Block
  BY DEF Block
<1>3. Stage(r)'
  BY <1>1, <1>2 DEF Local, Stage
<1>4. Work(r)'
  BY <1>1 DEF Local, Work, Flip
<1>5. ProofLife(r)'
  BY <1>1, <1>2 DEF Local, ProofLife
<1>6. InvokeLife(r)'
  <2>1. invoke_tx[r].block = 0 /\ 0 <= Block /\ task[r].op # "none"
    BY Numbers DEF Local, InvokeLife, Landed
  <2>2. task[r].pc \notin {"idle", "deposit", "lock", "nonce", "prove", "submit", "include"}
    BY DEF Local, InvokeLife
  <2>3. task[r].op = "play" => proof_tx[r].status = "ok" /\ invoke_tx[r].seed = task[r].seed
    BY DEF Local, InvokeLife
  <2> QED
    BY <1>1, <1>2, <2>1, <2>2, <2>3 DEF InvokeLife, Landed
<1>7. Fate(r)
  BY <1>1 DEF Fate, SameTerms, SameWork, Landed
<1> QED
  BY <1>7, <1>1, <1>3, <1>4, <1>5, <1>6 DEF Step, Local

(* sncast's submissions and failures, and a transaction the node drops. *)
LEMMA SncastSteps ==
    ASSUME Types, NEW r \in Requests, Local(r), SncastSubmit(r) \/ SncastFail(r) \/ DropInvoke(r)
    PROVE  Step(r)
<1>0. UNCHANGED <<nonces, issued, task, proof_tx>> /\ invoke_tx[r].status \in {"running", "pending"}
  BY DEF SncastSubmit, SncastFail, DropInvoke, chainVars
<1>1. /\ InvokeType' /\ OnlyInvoke(r) /\ invoke_tx'[r].status \in {"pending", "failed", "dropped"}
      /\ invoke_tx'[r].seed = invoke_tx[r].seed /\ invoke_tx'[r].block = invoke_tx[r].block
  <2>0. Nonce \in 0..MaxBlock /\ {"pending", "failed", "dropped"} \subseteq TxStatus
    BY ChainFacts, StatusNames DEF Types
  <2>1. CASE SncastSubmit(r)
    BY <2>0, <2>1, SendEffect DEF Types
  <2>2. CASE SncastFail(r)
    BY <2>0, <2>2, StatusEffect DEF SncastFail, Types
  <2>3. CASE DropInvoke(r)
    BY <2>0, <2>3, StatusEffect DEF DropInvoke, Types
  <2> QED
    BY <2>1, <2>2, <2>3
<1> QED
  BY <1>0, <1>1, InvokeMoves

(* The mempool evicts the proof. *)
LEMMA DropProofStep ==
    ASSUME Types, NEW r \in Requests, Local(r), DropProof(r)
    PROVE  Step(r)
<1>0. UNCHANGED <<nonces, issued, task, invoke_tx>> /\ proof_tx[r].status = "pending"
  BY DEF DropProof, chainVars
<1>1. /\ TaskType' /\ OnlyTask(r) /\ InvokeType' /\ OnlyInvoke(r)
      /\ task'[r] = task[r] /\ invoke_tx'[r] = invoke_tx[r]
  BY <1>0 DEF Types, TaskType, InvokeType, OnlyTask, OnlyInvoke
<1>2. /\ ProofType' /\ OnlyProof(r) /\ proof_tx'[r].status = "dropped"
      /\ proof_tx'[r].seed = proof_tx[r].seed /\ proof_tx'[r].nonce = proof_tx[r].nonce
      /\ proof_tx'[r].block = proof_tx[r].block
  BY DropEffect DEF Types
<1>3. Block' = Block
  BY <1>0 DEF Block
<1>4. Stage(r)'
  BY <1>0, <1>1, <1>3 DEF Local, Stage
<1>5. Work(r)'
  BY <1>0, <1>1, <1>2 DEF Local, Work, Flip
<1>6. ProofLife(r)'
  BY <1>0, <1>1, <1>2, <1>3 DEF Local, ProofLife, Landed
<1>7. InvokeLife(r)'
  BY <1>0, <1>1, <1>2, <1>3 DEF Local, InvokeLife, Landed
<1>8. Fate(r)
  BY <1>0, <1>1, <1>2 DEF Fate, SameTerms, SameWork, Landed
<1> QED
  BY <1>8, <1>1, <1>2, <1>4, <1>5, <1>6, <1>7 DEF Step, Local

(* A block with r's proof: the nonce of the block below is the proof's. *)
LEMMA IncludeProofStep ==
    ASSUME Types, NEW r \in Requests, Local(r), IncludeProof(r)
    PROVE  Step(r)
<1>0. /\ UNCHANGED <<issued, task, invoke_tx>> /\ proof_tx[r].status = "pending"
      /\ proof_tx[r].nonce = Nonce /\ Block < MaxBlock /\ nonces' = Append(nonces, Nonce + 1)
  BY DEF IncludeProof, Include
<1>1. /\ TaskType' /\ OnlyTask(r) /\ InvokeType' /\ OnlyInvoke(r)
      /\ task'[r] = task[r] /\ invoke_tx'[r] = invoke_tx[r]
  BY <1>0 DEF Types, TaskType, InvokeType, OnlyTask, OnlyInvoke
<1>2. /\ Block' = Block + 1 /\ nonces'[Block] = Nonce
      /\ \A b \in 1..Block : nonces'[b] = nonces[b]
  BY <1>0, ChainExtended DEF Types, Grows
<1>3. Block + 1 \in 0..MaxBlock
  BY <1>0, Numbers, ServerAssumption
<1>4. PICK status \in {"ok", "reverted"} :
          proof_tx' = [proof_tx EXCEPT ![r].status = status, ![r].block = Block + 1]
  BY DEF IncludeProof
<1>5. /\ ProofType' /\ OnlyProof(r) /\ proof_tx'[r].status = status
      /\ proof_tx'[r].seed = proof_tx[r].seed /\ proof_tx'[r].nonce = proof_tx[r].nonce
      /\ proof_tx'[r].block = Block + 1
  <2>1. status \in TxStatus
    BY StatusNames
  <2> QED
    BY <1>3, <1>4, <2>1, LandProofEffect DEF Types
<1>6. /\ Block \in Nat /\ Block >= 1 /\ Block + 1 >= 2 /\ Block + 1 # 0 /\ (Block + 1) - 1 = Block
      /\ task[r].seed \in Nat /\ DeployBlock >= 1 /\ DeployBlock \in Nat
      /\ invoke_tx[r].block \in Nat
  BY Numbers
<1>7. Stage(r)'
  <2>1. task[r].seed <= Block => task[r].seed <= Block + 1
    BY <1>6
  <2> QED
    BY <1>0, <1>1, <1>2, <2>1 DEF Local, Stage
<1>8. Work(r)'
  <2>1. /\ task[r].seed # 0 /\ task[r].nonce = nonces[task[r].seed]
        /\ task[r].seed <= Block /\ task[r].pc # "prove"
    BY <1>0 DEF Local, Work, Stage, ProofLife
  <2>2. task[r].seed \in 1..Block
    BY <1>6, <2>1
  <2>3. task'[r].nonce = nonces'[task'[r].seed]
    BY <1>1, <1>2, <2>1, <2>2
  <2> QED
    BY <1>1, <2>1, <2>3 DEF Local, Work, Flip
<1>9. ProofLife(r)'
  <2>1. proof_tx'[r].block <= Block' /\ proof_tx'[r].block # 0 /\ proof_tx'[r].block >= 2
    BY <1>2, <1>5, <1>6
  <2>2. nonces'[proof_tx'[r].block - 1] = proof_tx'[r].nonce
    BY <1>0, <1>2, <1>5, <1>6
  <2> QED
    BY <1>0, <1>1, <1>5, <2>1, <2>2 DEF Local, ProofLife, Landed
<1>10. InvokeLife(r)'
  <2>1. invoke_tx[r].status = "none" /\ invoke_tx[r].block = 0 /\ task[r].pc # "lock"
        /\ task[r].op = "play"
    BY <1>0 DEF Local, InvokeLife, ProofLife, Landed
  <2>2. 0 <= Block'
    BY <1>2, <1>6
  <2> QED
    BY <1>1, <2>1, <2>2 DEF InvokeLife, Landed
<1>11. Fate(r)
  BY <1>0, <1>1, <1>5 DEF Fate, SameTerms, SameWork, Landed
<1> QED
  BY <1>11, <1>1, <1>5, <1>7, <1>8, <1>9, <1>10 DEF Step, Local

(* A block with r's match or settlement: the account's nonce goes up in it. *)
LEMMA IncludeInvokeStep ==
    ASSUME Types, NEW r \in Requests, Local(r), IncludeInvoke(r)
    PROVE  Step(r)
<1>0. /\ UNCHANGED <<issued, task, proof_tx>> /\ invoke_tx[r].status = "pending"
      /\ Block < MaxBlock /\ nonces' = Append(nonces, Nonce + 1)
  BY DEF IncludeInvoke, Include
<1>1. /\ TaskType' /\ OnlyTask(r) /\ ProofType' /\ OnlyProof(r)
      /\ task'[r] = task[r] /\ proof_tx'[r] = proof_tx[r]
  BY <1>0 DEF Types, TaskType, ProofType, OnlyTask, OnlyProof
<1>2. /\ Block' = Block + 1 /\ nonces'[Block] = Nonce /\ nonces'[Block + 1] = Nonce + 1
      /\ \A b \in 1..Block : nonces'[b] = nonces[b]
  BY <1>0, ChainExtended DEF Types, Grows
<1>3. Block + 1 \in 0..MaxBlock
  BY <1>0, Numbers, ServerAssumption
<1>4. PICK status \in {"ok", "reverted"} :
          invoke_tx' = [invoke_tx EXCEPT ![r].status = status, ![r].block = Block + 1]
  BY DEF IncludeInvoke
<1>5. /\ InvokeType' /\ OnlyInvoke(r) /\ invoke_tx'[r].status = status
      /\ invoke_tx'[r].seed = invoke_tx[r].seed /\ invoke_tx'[r].block = Block + 1
  <2>1. status \in TxStatus
    BY StatusNames
  <2> QED
    BY <1>3, <1>4, <2>1, LandInvokeEffect DEF Types
<1>6. /\ Block \in Nat /\ Block >= 1 /\ Block + 1 >= 2 /\ Block + 1 # 0 /\ (Block + 1) - 1 = Block
      /\ task[r].seed \in Nat /\ DeployBlock >= 1 /\ DeployBlock \in Nat
      /\ proof_tx[r].block \in Nat
  BY Numbers
<1>7. Stage(r)'
  <2>1. task[r].seed <= Block => task[r].seed <= Block + 1
    BY <1>6
  <2> QED
    BY <1>0, <1>1, <1>2, <2>1 DEF Local, Stage
<1>8. Work(r)'
  <2>1. task[r].seed # 0 => nonces'[task[r].seed] = nonces[task[r].seed]
    <3>1. task[r].seed <= Block
      BY DEF Local, Stage
    <3> QED
      BY <1>2, <1>6, <3>1
  <2> QED
    BY <1>1, <2>1 DEF Local, Work, Flip
<1>9. ProofLife(r)'
  <2>1. proof_tx[r].block # 0 /\ proof_tx[r].block >= 2 =>
            nonces'[proof_tx[r].block - 1] = nonces[proof_tx[r].block - 1]
    <3>1. proof_tx[r].block <= Block
      BY DEF Local, ProofLife
    <3> QED
      BY <1>2, <1>6, <3>1
  <2>2. proof_tx[r].block <= Block'
    BY <1>2, <1>6 DEF Local, ProofLife
  <2> QED
    BY <1>1, <2>1, <2>2 DEF Local, ProofLife
<1>10. InvokeLife(r)'
  <2>1. /\ task[r].pc \notin {"idle", "deposit", "lock", "nonce", "prove", "submit", "include"}
        /\ task[r].op # "none"
        /\ task[r].op = "play" => proof_tx[r].status = "ok" /\ invoke_tx[r].seed = task[r].seed
    BY <1>0 DEF Local, InvokeLife
  <2>2. proof_tx[r].block < Block + 1
    BY <1>6 DEF Local, ProofLife
  <2>3. Block + 1 <= Block'
    BY <1>2, <1>6
  <2>4. nonces'[invoke_tx'[r].block] = nonces'[invoke_tx'[r].block - 1] + 1
    BY <1>2, <1>5, <1>6
  <2> QED
    BY <1>1, <1>5, <1>6, <2>1, <2>2, <2>3, <2>4 DEF InvokeLife, Landed
<1>11. Fate(r)
  BY <1>0, <1>1, <1>5 DEF Fate, SameTerms, SameWork, Landed
<1> QED
  BY <1>11, <1>1, <1>5, <1>7, <1>8, <1>9, <1>10 DEF Step, Local

-----------------------------------------------------------------------------
(* Every step. *)

(* Which steps write which variables. *)
Footprint ==
    /\ UNCHANGED nonces \/ OtherBlock \/ \E r \in Requests : IncludeInvoke(r) \/ IncludeProof(r)
    /\ UNCHANGED issued \/ \E p \in Players, b \in Coins : CommitBet(p, b)
    /\ \/ UNCHANGED commitments
       \/ \E p \in Players, b \in Coins : CommitBet(p, b)
       \/ \E r \in Requests : StoreSeed(r)
       \/ \E r \in Requests, s \in Sessions : PlayRejected(r, s)
       \/ \E r \in Requests, s \in Sessions, p \in Players, b \in Coins :
              PlayAccepted(r, s, p, b)
       \/ Crash
    /\ \/ UNCHANGED bankVars
       \/ \E p \in Players, s \in Sessions, n \in Amounts, b \in Bets : PlayerDeposit(p, s, n, b)
       \/ \E r \in Requests : IncludeInvoke(r)
    /\ UNCHANGED crashes \/ Crash
    /\ UNCHANGED coinflip \/ Crash \/ \E r \in Requests : StoreDeployment(r)
    /\ UNCHANGED bank \/ Crash
    /\ UNCHANGED seeded \/ \E r \in Requests : StoreSeed(r)
    /\ UNCHANGED stalled \/ \E r \in Requests : Stall(r)

(* Every step keeps to the variables Footprint names. *)
LEMMA Writes == [Next]_vars => Footprint
<1>0. SUFFICES ASSUME [Next]_vars PROVE Footprint
  OBVIOUS
<1>1. ASSUME NEW p \in Players, NEW b \in Coins, CommitBet(p, b) PROVE Footprint
  BY <1>1 DEF CommitBet, Footprint, chainVars, slots, faults
<1>2. ASSUME NEW p \in Players, NEW s \in Sessions, NEW n \in Amounts, NEW b \in Bets,
             PlayerDeposit(p, s, n, b)
      PROVE Footprint
  BY <1>2 DEF PlayerDeposit, Footprint, chainVars, slots, faults
<1>3. ASSUME NEW r \in Requests, NEW s \in Sessions, ConfirmDeposit(r, s) PROVE Footprint
  BY <1>3 DEF ConfirmDeposit, Footprint, chainVars, slots, faults
<1>4. ASSUME NEW r \in Requests, ConfirmRefused(r) PROVE Footprint
  BY <1>4 DEF ConfirmRefused, Footprint, chainVars, slots, faults
<1>5. ASSUME NEW r \in Requests, NEW s \in Sessions, PlayRejected(r, s) PROVE Footprint
  BY <1>5 DEF PlayRejected, Footprint, chainVars, slots, faults
<1>6. ASSUME NEW r \in Requests, NEW s \in Sessions, PlayRefused(r, s) PROVE Footprint
  BY <1>6 DEF PlayRefused, Footprint, chainVars, slots, faults
<1>7. ASSUME NEW r \in Requests, NEW s \in Sessions, NEW p \in Players, NEW b \in Coins,
             PlayAccepted(r, s, p, b)
      PROVE Footprint
  BY <1>7 DEF PlayAccepted, Footprint, chainVars, slots, faults
<1>8. ASSUME NEW r \in Requests, SncastNoHash(r) PROVE Footprint
  BY <1>8 DEF SncastNoHash, Footprint, chainVars, slots, faults
<1>9. ASSUME NEW r \in Requests, SncastHash(r) PROVE Footprint
  BY <1>9 DEF SncastHash, Footprint, chainVars, slots, faults
<1>10. ASSUME NEW r \in Requests, TxConfirmed(r) PROVE Footprint
  BY <1>10 DEF TxConfirmed, Footprint, chainVars, slots, faults
<1>11. ASSUME NEW r \in Requests, TxUnconfirmed(r) PROVE Footprint
  BY <1>11 DEF TxUnconfirmed, Footprint, chainVars, slots, faults
<1>12. ASSUME NEW r \in Requests, ReadBlockNumber(r) PROVE Footprint
  BY <1>12 DEF ReadBlockNumber, Footprint, chainVars, slots, faults
<1>13. ASSUME NEW r \in Requests, FetchNonce(r) PROVE Footprint
  BY <1>13 DEF FetchNonce, Footprint, chainVars, slots, faults
<1>14. ASSUME NEW r \in Requests, Prove(r) PROVE Footprint
  BY <1>14 DEF Prove, Footprint, chainVars, slots, faults
<1>15. ASSUME NEW r \in Requests, SubmitProof(r) PROVE Footprint
  BY <1>15 DEF SubmitProof, Footprint, chainVars, slots, faults
<1>16. ASSUME NEW r \in Requests, SubmitNotReady(r) PROVE Footprint
  BY <1>16 DEF SubmitNotReady, Footprint, chainVars, slots, faults
<1>17. ASSUME NEW r \in Requests, ProofIncluded(r) PROVE Footprint
  BY <1>17 DEF ProofIncluded, Footprint, chainVars, slots, faults
<1>18. ASSUME NEW r \in Requests, PlayFails(r) PROVE Footprint
  BY <1>18 DEF PlayFails, Footprint, chainVars, slots, faults
<1>19. ASSUME NEW r \in Requests, AcquireLock(r) PROVE Footprint
  BY <1>19 DEF AcquireLock, Footprint, chainVars, slots, faults
<1>20. ASSUME NEW r \in Requests, ClientDisconnect(r) PROVE Footprint
  BY <1>20 DEF ClientDisconnect, Footprint, chainVars, slots, faults
<1>21. ASSUME NEW r \in Requests, SncastSubmit(r) PROVE Footprint
  BY <1>21 DEF SncastSubmit, Footprint, chainVars, slots, faults
<1>22. ASSUME NEW r \in Requests, SncastFail(r) PROVE Footprint
  BY <1>22 DEF SncastFail, Footprint, chainVars, slots, faults
<1>23. ASSUME NEW r \in Requests, DropInvoke(r) PROVE Footprint
  BY <1>23 DEF DropInvoke, Footprint, chainVars, slots, faults
<1>24. ASSUME NEW r \in Requests, DropProof(r) PROVE Footprint
  BY <1>24 DEF DropProof, Footprint, chainVars, slots, faults
<1>25. ASSUME NEW r \in Requests, StoreSeed(r) PROVE Footprint
  BY <1>25 DEF StoreSeed, Footprint, chainVars, slots, faults
<1>26. ASSUME NEW r \in Requests, IncludeInvoke(r) PROVE Footprint
  BY <1>26 DEF IncludeInvoke, Footprint, chainVars, slots, faults
<1>27. ASSUME NEW r \in Requests, IncludeProof(r) PROVE Footprint
  BY <1>27 DEF IncludeProof, Footprint, chainVars, slots, faults
<1>28. ASSUME OtherBlock PROVE Footprint
  BY <1>28 DEF OtherBlock, Footprint, chainVars, slots, faults
<1>29. ASSUME Crash PROVE Footprint
  BY <1>29 DEF Crash, Footprint, chainVars, slots, faults
<1>30. CASE UNCHANGED vars
  BY <1>30 DEF vars, Footprint, chainVars, slots, faults
<1>31. ASSUME NEW r \in Requests, DeployCoinFlip(r) PROVE Footprint
  BY <1>31 DEF DeployCoinFlip, Footprint, chainVars, slots, faults
<1>32. ASSUME NEW r \in Requests, StoreDeployment(r) PROVE Footprint
  BY <1>32 DEF StoreDeployment, Footprint, chainVars, slots, faults
<1>33. ASSUME NEW r \in Requests, DepositConfirmed(r) PROVE Footprint
  BY <1>33 DEF DepositConfirmed, Footprint, chainVars, slots, faults
<1>34. ASSUME NEW r \in Requests, Stall(r) PROVE Footprint
  BY <1>34 DEF Stall, Footprint, chainVars, slots, faults
<1>35. ASSUME NEW r \in Requests, Handler(r) PROVE Footprint
  BY <1>4, <1>8, <1>9, <1>10, <1>11, <1>12, <1>13, <1>14, <1>15, <1>16, <1>17, <1>18, <1>19,
     <1>25, <1>32, <1>33, <1>35 DEF Handler
<1> QED
  BY <1>0, <1>1, <1>2, <1>3, <1>5, <1>6, <1>7, <1>20, <1>21, <1>22, <1>23, <1>24, <1>26,
     <1>27, <1>28, <1>29, <1>30, <1>31, <1>34, <1>35
     DEF Next, Sncast, Chain

(* The chain grows by at most a block. *)
LEMMA ChainStep ==
    ASSUME ChainType, [Next]_vars
    PROVE  ChainType' /\ Grows
<1>1. Footprint
  BY Writes
<1>2. CASE UNCHANGED nonces
  BY <1>2, ChainUnchanged
<1>3. CASE OtherBlock \/ \E r \in Requests : IncludeInvoke(r) \/ IncludeProof(r)
  <2>1. PICK n \in {Nonce, Nonce + 1} : nonces' = Append(nonces, n) /\ Block < MaxBlock
    BY <1>3 DEF OtherBlock, IncludeInvoke, IncludeProof, Include
  <2> QED
    BY <2>1, ChainExtended
<1> QED
  BY <1>1, <1>2, <1>3 DEF Footprint

IssuedType == issued \in 0..NumSessions

(* Sessions are numbered upwards. *)
LEMMA IssuedStep ==
    ASSUME IssuedType, [Next]_vars
    PROVE  IssuedType' /\ issued \in Nat /\ issued' \in Nat /\ issued <= issued'
<1>1. issued \in Nat /\ NumSessions \in Nat /\ issued <= NumSessions
  BY ServerAssumption DEF IssuedType
<1>2. CASE UNCHANGED issued
  BY <1>1, <1>2 DEF IssuedType
<1>3. ASSUME NEW p \in Players, NEW b \in Coins, CommitBet(p, b)
      PROVE  IssuedType' /\ issued' \in Nat /\ issued <= issued'
  BY <1>1, <1>3 DEF IssuedType, CommitBet
<1> QED
  BY <1>1, <1>2, <1>3, Writes DEF Footprint

(* Commitments are of sessions that exist, their seeds are blocks that exist, and
   none lies before the contract that confirm-deposit saw. *)
SeedRange(d) == d \in 0..Block

SeededType == seeded \in [Sessions -> 0..MaxBlock]

CommittedInv ==
    /\ CommitmentsType
    /\ SeededType
    /\ \A s \in Sessions : commitments[s] # NoCommitment =>
           s <= issued /\ SeedRange(commitments[s].seed_block)
    /\ \A s \in Sessions : commitments[s] # NoCommitment =>
           seeded[s] <= commitments[s].seed_block
    /\ \A s \in Sessions : s > issued => seeded[s] = 0

(* A request that does nothing meets no other fate. *)
LEMMA Resting ==
    ASSUME NEW r \in Requests, task'[r] = task[r], invoke_tx'[r] = invoke_tx[r],
           proof_tx'[r] = proof_tx[r]
    PROVE  Fate(r)
BY DEF Fate, SameTerms, SameWork

(* A crash cancels what runs, and changes nothing else of a request. *)
LEMMA CrashEffect ==
    ASSUME TaskType, NEW r \in Requests, Crash
    PROVE  /\ task'[r] \in Task /\ SameTerms(r) /\ SameWork(r)
           /\ task[r].pc \in Replies \cup {"idle"} => task'[r].pc = task[r].pc
           /\ task[r].pc \notin Replies \cup {"idle"} => task'[r].pc = "cancelled"
<1>1. task[r] \in Task /\ "cancelled" \in Stages
  BY StageNames DEF TaskType
<1>2. task'[r] = IF task[r].pc \in Replies \cup {"idle"} THEN task[r]
                 ELSE [task[r] EXCEPT !.pc = "cancelled"]
  BY DEF Crash
<1>3. CASE task[r].pc \in Replies \cup {"idle"}
  BY <1>1, <1>2, <1>3 DEF SameTerms, SameWork
<1>4. CASE task[r].pc \notin Replies \cup {"idle"}
  <2>1. task'[r] = [task[r] EXCEPT !.pc = "cancelled"]
    BY <1>2, <1>4
  <2>2. task'[r] \in Task
    BY <1>1, <2>1 DEF Task
  <2>3. SameTerms(r) /\ SameWork(r) /\ task'[r].pc = "cancelled"
    BY <1>1, <2>1 DEF Task, SameTerms, SameWork
  <2> QED
    BY <1>4, <2>2, <2>3
<1> QED
  BY <1>3, <1>4

(* A crash ends every task of the server; what was sent stays on the chain. *)
LEMMA CrashStep ==
    ASSUME Types, \A r \in Requests : Local(r), Crash
    PROVE  /\ TaskType' /\ InvokeType' /\ ProofType'
           /\ \A r \in Requests : Local(r)' /\ Fate(r)
<1>0. UNCHANGED <<nonces, issued, invoke_tx, proof_tx>>
  BY DEF Crash, chainVars
<1>1. TaskType'
  <2>1. \A r \in Requests : task'[r] \in Task
    BY CrashEffect DEF Types
  <2>2. task' = [r \in Requests |-> task'[r]]
    BY DEF Crash
  <2> QED
    BY <2>1, <2>2 DEF TaskType
<1>2. InvokeType' /\ ProofType'
  BY <1>0 DEF Types, InvokeType, ProofType
<1>3. ASSUME NEW r \in Requests PROVE Local(r)' /\ Fate(r)
  <2>0. invoke_tx'[r] = invoke_tx[r] /\ proof_tx'[r] = proof_tx[r]
    BY <1>0
  <2>1. /\ SameTerms(r) /\ SameWork(r)
        /\ task[r].pc \in Replies \cup {"idle"} => task'[r].pc = task[r].pc
        /\ task[r].pc \notin Replies \cup {"idle"} => task'[r].pc = "cancelled"
    BY CrashEffect DEF Types
  <2>2. CASE task[r].pc \in Replies \cup {"idle"}
    <3>1. Grows /\ issued' \in Nat /\ issued <= issued'
      BY <1>0, ChainUnchanged DEF Types
    <3>2. Local(r)'
      BY <2>0, <2>1, <2>2, <3>1, Bystander
    <3> QED
      BY <2>0, <2>1, <2>2, <3>2 DEF Fate, SameTerms, SameWork
  <2>3. CASE task[r].pc \notin Replies \cup {"idle"}
    <3>1. task[r].op # "none" /\ task[r].pc # "error"
      BY <2>3 DEF Local, Stage, Replies
    <3>2. Local(r)'
      BY <1>0, <2>0, <2>1, <2>3, <3>1, GoesOn
    <3> QED
      BY <2>0, <2>1, <2>3, <3>2 DEF Fate, SameTerms, SameWork
  <2> QED
    BY <2>2, <2>3
<1> QED
  BY <1>1, <1>2, <1>3

(* One request moves and the others look on. *)
LEMMA OneMoves ==
    ASSUME Types, \A q \in Requests : Local(q), Grows, issued' \in Nat, issued <= issued',
           NEW r \in Requests, Step(r)
    PROVE  /\ TaskType' /\ InvokeType' /\ ProofType'
           /\ \A q \in Requests : Local(q)' /\ Fate(q)
<1>1. ASSUME NEW q \in Requests, q # r PROVE Local(q)' /\ Fate(q)
  <2>1. task'[q] = task[q] /\ invoke_tx'[q] = invoke_tx[q] /\ proof_tx'[q] = proof_tx[q]
    BY <1>1 DEF Step, OnlyTask, OnlyInvoke, OnlyProof
  <2>2. task'[q].pc = task[q].pc /\ SameTerms(q) /\ SameWork(q)
    BY <2>1 DEF SameTerms, SameWork
  <2>3. Local(q)'
    BY <2>1, <2>2, Bystander
  <2> QED
    BY <2>1, <2>3, Resting
<1> QED
  BY <1>1 DEF Step

(* While no task and no transaction moves, a growing chain disturbs none of them. *)
LEMMA NoneMoves ==
    ASSUME Types, \A q \in Requests : Local(q), Grows, issued' \in Nat, issued <= issued',
           UNCHANGED <<task, invoke_tx, proof_tx>>
    PROVE  /\ TaskType' /\ InvokeType' /\ ProofType'
           /\ \A q \in Requests : Local(q)' /\ Fate(q)
<1>1. ASSUME NEW q \in Requests PROVE Local(q)' /\ Fate(q)
  <2>1. task'[q] = task[q] /\ invoke_tx'[q] = invoke_tx[q] /\ proof_tx'[q] = proof_tx[q]
    OBVIOUS
  <2>2. task'[q].pc = task[q].pc /\ SameTerms(q) /\ SameWork(q)
    BY <2>1 DEF SameTerms, SameWork
  <2>3. Local(q)'
    BY <2>1, <2>2, Bystander
  <2> QED
    BY <2>1, <2>3, Resting
<1> QED
  BY <1>1 DEF Types, TaskType, InvokeType, ProofType

(* Every step keeps what is known of each request by itself. *)
LEMMA LocalStep ==
    ASSUME Types, IssuedType, CommittedInv, \A q \in Requests : Local(q), [Next]_vars
    PROVE  /\ TaskType' /\ InvokeType' /\ ProofType'
           /\ \A q \in Requests : Local(q)' /\ Fate(q)
<1> DEFINE Goal == /\ TaskType' /\ InvokeType' /\ ProofType'
                   /\ \A q \in Requests : Local(q)' /\ Fate(q)
<1>0. Grows /\ issued' \in Nat /\ issued <= issued'
  BY ChainStep, IssuedStep DEF Types
<1>1. ASSUME NEW r \in Requests, Step(r) PROVE Goal
  BY <1>0, <1>1, OneMoves
<1>2. UNCHANGED <<task, invoke_tx, proof_tx>> => Goal
  BY <1>0, NoneMoves
<1>3. Crash => Goal
  BY CrashStep
<1>4. ASSUME NEW r \in Requests, NEW s \in Sessions,
             ConfirmDeposit(r, s) \/ PlayRejected(r, s) \/ PlayRefused(r, s)
      PROVE  Step(r)
  BY <1>4, ConfirmStarts, PlayEnds
<1>5. ASSUME NEW r \in Requests, NEW s \in Sessions, NEW p \in Players, NEW b \in Coins,
             PlayAccepted(r, s, p, b)
      PROVE  Step(r)
  <2>1. s <= issued /\ SeedRange(commitments[s].seed_block)
    BY <1>5 DEF PlayAccepted, CommittedInv
  <2>2. commitments[s].seed_block <= Block
    BY <2>1, ChainFacts, ServerAssumption DEF SeedRange, Types
  <2> QED
    BY <1>5, <2>1, <2>2, PlayStarts DEF CommittedInv
<1>6. ASSUME NEW r \in Requests,
             DeployCoinFlip(r) \/ Handler(r) \/ ClientDisconnect(r) \/ Sncast(r) \/ Chain(r)
      PROVE  Step(r)
  <2>1. CASE Handler(r)
    BY <2>1, AcquireLockStep, EndSteps, TxConfirmedStep, ReadBlockNumberStep, FetchNonceStep,
       ProveStep, SubmitProofStep, RetryStep, ProofIncludedStep, DepositConfirmedStep DEF Handler
  <2>2. CASE DeployCoinFlip(r) \/ ClientDisconnect(r) \/ Sncast(r) \/ Chain(r)
    BY <2>2, DeployStarts, EndSteps, SncastSteps, DropProofStep, IncludeInvokeStep, IncludeProofStep
       DEF Sncast, Chain
  <2> QED
    BY <1>6, <2>1, <2>2
<1>7. ASSUME NEW p \in Players, NEW b \in Coins, CommitBet(p, b)
      PROVE  UNCHANGED <<task, invoke_tx, proof_tx>>
  BY <1>7 DEF CommitBet
<1>8. ASSUME NEW p \in Players, NEW s \in Sessions, NEW n \in Amounts, NEW b \in Bets,
             PlayerDeposit(p, s, n, b)
      PROVE  UNCHANGED <<task, invoke_tx, proof_tx>>
  BY <1>8 DEF PlayerDeposit
<1>9. OtherBlock \/ UNCHANGED vars => UNCHANGED <<task, invoke_tx, proof_tx>>
  BY DEF OtherBlock, vars
<1>11. ASSUME NEW r \in Requests, Stall(r) PROVE UNCHANGED <<task, invoke_tx, proof_tx>>
  BY <1>11 DEF Stall
<1> HIDE DEF Goal
<1>10. Goal
  BY <1>1, <1>2, <1>3, <1>4, <1>5, <1>6, <1>7, <1>8, <1>9, <1>11 DEF Next
<1> QED
  BY <1>10 DEF Goal

-----------------------------------------------------------------------------
(* The commitments. *)

(* What a step can do to the commitment of session s: nothing, consume it, issue
   it, or write a seed into one that is there. *)
CommitmentFate(s) ==
    \/ commitments'[s] = commitments[s] /\ seeded'[s] = seeded[s]
    \/ commitments'[s] = NoCommitment /\ seeded'[s] = seeded[s]
    \/ /\ s = issued + 1 /\ issued' = issued + 1 /\ commitments'[s].seed_block = 0
       /\ seeded'[s] = seeded[s]
    \/ /\ commitments[s] # NoCommitment
       /\ commitments'[s].seed_block \in 0..Block
       /\ seeded'[s] \in 0..MaxBlock /\ seeded'[s] <= commitments'[s].seed_block

(* The maps keep their types. *)
LEMMA CommitmentsStep ==
    ASSUME Types, IssuedType, CommitmentsType, SeededType, \A q \in Requests : Local(q),
           [Next]_vars
    PROVE  CommitmentsType' /\ SeededType' /\ \A s \in Sessions : CommitmentFate(s)
<1> DEFINE Goal == CommitmentsType' /\ SeededType' /\ \A s \in Sessions : CommitmentFate(s)
<1>0. UNCHANGED seeded => SeededType'
  BY DEF SeededType
<1>1. UNCHANGED <<commitments, seeded>> => Goal
  BY <1>0 DEF CommitmentsType, CommitmentFate
<1>2. ASSUME NEW p \in Players, NEW b \in Coins, CommitBet(p, b) PROVE Goal
  <2> DEFINE c == [player |-> p, bet |-> b, seed_block |-> 0]
  <2>1. c \in BetCommitment /\ c.seed_block = 0
    BY ServerAssumption DEF BetCommitment
  <2>2. commitments' = [commitments EXCEPT ![issued + 1] = c] /\ issued' = issued + 1
    BY <1>2 DEF CommitBet
  <2>5. UNCHANGED seeded
    BY <1>2 DEF CommitBet, slots
  <2> HIDE DEF c
  <2>3. CommitmentsType'
    BY <2>1, <2>2 DEF CommitmentsType
  <2>4. ASSUME NEW s \in Sessions PROVE CommitmentFate(s)
    BY <2>1, <2>2, <2>5 DEF CommitmentsType, CommitmentFate
  <2> QED
    BY <1>0, <2>3, <2>4, <2>5
<1>3. ASSUME NEW r \in Requests, StoreSeed(r) PROVE Goal
  <2> DEFINE t == task[r].session
             d == SeedBlock(task[r].seed)
             c == [commitments[t] EXCEPT !.seed_block = d]
  <2>1. /\ commitments' = [commitments EXCEPT ![t] =
                            IF commitments[t] # NoCommitment THEN c ELSE @]
        /\ seeded' = [seeded EXCEPT ![t] = IF commitments[t] # NoCommitment THEN coinflip ELSE @]
    BY <1>3 DEF StoreSeed
  <2>2. /\ d \in 0..MaxBlock /\ d \in 0..Block
        /\ coinflip \in 0..MaxBlock /\ coinflip <= d
    <3>1. task[r].seed <= Block /\ task[r].seed \in Nat
      BY Numbers DEF Local, Stage
    <3>2. coinflip \in 0..MaxBlock
      BY DEF Types, SlotType
    <3>3. d \in 0..MaxBlock /\ d >= coinflip /\ d \in 0..Block
      BY <3>1, SeedBlockRange
    <3>4. d \in Nat /\ coinflip \in Nat
      BY <3>2, <3>3, ServerAssumption
    <3> QED
      BY <3>2, <3>3, <3>4
  <2> HIDE DEF t, d
  <2>3. t \in Sessions /\ commitments[t] # NoCommitment => c \in BetCommitment /\ c.seed_block = d
    <3>1. SUFFICES ASSUME commitments[t] \in BetCommitment
                   PROVE  c \in BetCommitment /\ c.seed_block = d
      BY DEF CommitmentsType
    <3> QED
      BY <2>2, <3>1 DEF BetCommitment
  <2> HIDE DEF c
  <2>4. CommitmentsType' /\ SeededType'
    BY <2>1, <2>2, <2>3 DEF CommitmentsType, SeededType
  <2>5. ASSUME NEW s \in Sessions PROVE CommitmentFate(s)
    <3>1. CASE s # t \/ commitments[t] = NoCommitment
      BY <2>1, <3>1 DEF CommitmentsType, SeededType, CommitmentFate
    <3>2. CASE s = t /\ commitments[t] # NoCommitment
      <4>1. commitments'[s] = c /\ seeded'[s] = coinflip
        BY <2>1, <3>2 DEF CommitmentsType, SeededType
      <4> QED
        BY <2>2, <2>3, <3>2, <4>1 DEF CommitmentFate
    <3> QED
      BY <3>1, <3>2
  <2> QED
    BY <2>4, <2>5
<1>4. ASSUME NEW r \in Requests, NEW s \in Sessions, PlayRejected(r, s) PROVE Goal
  BY <1>0, <1>4 DEF PlayRejected, CommitmentsType, CommitmentFate, slots
<1>5. ASSUME NEW r \in Requests, NEW s \in Sessions, NEW p \in Players, NEW b \in Coins,
             PlayAccepted(r, s, p, b)
      PROVE  Goal
  BY <1>0, <1>5 DEF PlayAccepted, CommitmentsType, CommitmentFate, slots
<1>6. Crash => Goal
  BY <1>0 DEF Crash, CommitmentsType, CommitmentFate
<1> HIDE DEF Goal
<1>7. Goal
  BY <1>1, <1>2, <1>3, <1>4, <1>5, <1>6, Writes DEF Footprint
<1> QED
  BY <1>7 DEF Goal

(* Commitments stay those of issued sessions, with seeds up to the last block. *)
LEMMA CommittedStep ==
    ASSUME Types, IssuedType, CommittedInv, \A q \in Requests : Local(q), [Next]_vars
    PROVE  CommittedInv'
<1>1. CommitmentsType' /\ SeededType' /\ \A s \in Sessions : CommitmentFate(s)
  BY CommitmentsStep DEF CommittedInv
<1>2. /\ issued \in Nat /\ issued' \in Nat /\ issued <= issued'
      /\ Block \in Nat /\ Block' \in Nat /\ Block <= Block'
  BY IssuedStep, ChainStep, ChainFacts DEF Types, Grows
<1>4. ASSUME NEW s \in Sessions, commitments'[s] # NoCommitment
      PROVE  /\ s <= issued' /\ SeedRange(commitments[s].seed_block)'
             /\ seeded'[s] <= commitments'[s].seed_block
  <2>0. s \in Nat
    BY DEF Sessions
  <2> DEFINE d == commitments'[s].seed_block
  <2>1. CASE commitments'[s] = commitments[s] /\ seeded'[s] = seeded[s]
    <3>1. s <= issued /\ d \in 0..Block /\ seeded'[s] <= d
      BY <1>4, <2>1 DEF CommittedInv, SeedRange
    <3> HIDE DEF d
    <3>2. s <= issued' /\ d \in 0..Block'
      BY <1>2, <2>0, <3>1
    <3> QED
      BY <3>1, <3>2 DEF SeedRange, d
  <2>2. CASE s = issued + 1 /\ issued' = issued + 1 /\ d = 0 /\ seeded'[s] = seeded[s]
    <3>1. s > issued /\ s <= issued' /\ 0 \in 0..Block'
      BY <1>2, <2>2
    <3>2. seeded[s] = 0
      BY <3>1 DEF CommittedInv
    <3> QED
      BY <2>2, <3>1, <3>2 DEF SeedRange
  <2>3. CASE commitments[s] # NoCommitment /\ d \in 0..Block /\ seeded'[s] <= d
    <3>1. s <= issued'
      BY <1>2, <2>0, <2>3 DEF CommittedInv
    <3> HIDE DEF d
    <3>2. d \in 0..Block'
      BY <1>2, <2>3
    <3> QED
      BY <2>3, <3>1, <3>2 DEF SeedRange, d
  <2> QED
    BY <1>1, <1>4, <2>1, <2>2, <2>3 DEF CommitmentFate
<1>5. ASSUME NEW s \in Sessions, s > issued' PROVE seeded'[s] = 0
  <2>2. s > issued
    BY <1>2, <1>5 DEF Sessions
  <2>3. seeded[s] = 0 /\ commitments[s] = NoCommitment
    BY <1>2, <2>2 DEF CommittedInv, Sessions
  <2> QED
    BY <1>1, <2>3 DEF CommitmentFate
<1> QED
  BY <1>1, <1>4, <1>5 DEF CommittedInv

(* A session that was issued does not get a new commitment. *)
LEMMA NotRevived ==
    ASSUME Types, IssuedType, CommittedInv, \A q \in Requests : Local(q), [Next]_vars,
           NEW s \in 1..issued, commitments[s] = NoCommitment
    PROVE  commitments'[s] = NoCommitment
<1>1. s \in Sessions /\ s # issued + 1
  BY ServerAssumption DEF IssuedType, Sessions
<1>2. CommitmentFate(s)
  BY <1>1, CommitmentsStep DEF CommittedInv
<1> QED
  BY <1>1, <1>2 DEF CommitmentFate

(* play has consumed the commitment, and nobody else plays the session. *)
PlayedInv ==
    /\ \A r \in Requests : task[r].op = "play" => commitments[task[r].session] = NoCommitment
    /\ OnePlay

(* Every step keeps that a session in play is played once. *)
LEMMA PlayedStep ==
    ASSUME Types, IssuedType, CommittedInv, \A q \in Requests : Local(q), PlayedInv, [Next]_vars
    PROVE  PlayedInv'
<1>0. \A q \in Requests : Fate(q)
  BY LocalStep
<1>1. ASSUME NEW r \in Requests, task[r].op = "play"
      PROVE  /\ task'[r].session = task[r].session /\ task[r].session \in 1..issued
             /\ commitments[task[r].session] = NoCommitment
             /\ commitments'[task[r].session] = NoCommitment
  <2>1. task[r].pc # "idle" /\ task[r].session \in 1..issued
    BY <1>1 DEF Local, Stage
  <2>2. SameTerms(r)
    BY <1>0, <2>1 DEF Fate
  <2>3. commitments[task[r].session] = NoCommitment
    BY <1>1 DEF PlayedInv
  <2> QED
    BY <2>1, <2>2, <2>3, NotRevived DEF SameTerms
<1>2. ASSUME NEW r \in Requests, NEW s \in Sessions, NEW p \in Players, NEW b \in Coins,
             PlayAccepted(r, s, p, b)
      PROVE  /\ task'[r].session = s /\ commitments[s] # NoCommitment
             /\ commitments'[s] = NoCommitment
             /\ \A q \in Requests : q # r => task'[q] = task[q]
  <2>1. task'[r].session = s /\ OnlyTask(r)
    BY <1>2, PlayEffect DEF Types, SlotType, CommittedInv
  <2> QED
    BY <1>2, <2>1 DEF PlayAccepted, CommittedInv, CommitmentsType, OnlyTask
<1>3. ASSUME NEW r \in Requests, task'[r].op = "play"
      PROVE  commitments'[task'[r].session] = NoCommitment
  BY <1>0, <1>1, <1>2, <1>3 DEF Fate
<1>4. ASSUME NEW q \in Requests, NEW r \in Requests, task'[q].op = "play", task'[r].op = "play",
             task'[q].session = task'[r].session
      PROVE  q = r
  <2>1. CASE task[q].op = "play" /\ task[r].op = "play"
    BY <1>1, <1>4, <2>1 DEF PlayedInv, OnePlay
  <2>2. ASSUME NEW x \in Requests, NEW y \in Requests, x # y, task[x].op # "play",
               task'[x].op = "play", task'[y].op = "play", task'[x].session = task'[y].session
        PROVE  FALSE
    <3>1. PICK s \in Sessions, p \in Players, b \in Coins : PlayAccepted(x, s, p, b)
      BY <1>0, <2>2 DEF Fate
    <3>2. /\ task'[x].session = s /\ commitments[s] # NoCommitment /\ task'[y] = task[y]
      BY <1>2, <2>2, <3>1
    <3>3. commitments[task[y].session] = NoCommitment
      BY <1>1, <2>2, <3>2
    <3> QED
      BY <2>2, <3>2, <3>3
  <2> QED
    BY <1>4, <2>1, <2>2
<1> QED
  BY <1>3, <1>4 DEF PlayedInv, OnePlay

(* The seed of a play does not lie before the contract that confirm-deposit saw. *)
PlaySeedInv ==
    \A r \in Requests : task[r].op = "play" => seeded[task[r].session] <= task[r].seed

(* The commitment that a play consumes has such a seed, and nothing touches the
   seed of a consumed commitment. *)
LEMMA PlaySeedStep ==
    ASSUME Types, IssuedType, CommittedInv, \A q \in Requests : Local(q), PlayedInv,
           PlaySeedInv, [Next]_vars
    PROVE  PlaySeedInv'
<1>0. \A q \in Requests : Fate(q)
  BY LocalStep
<1>1. SUFFICES ASSUME NEW r \in Requests, task'[r].op = "play"
               PROVE  seeded'[task'[r].session] <= task'[r].seed
  BY DEF PlaySeedInv
<1>2. CASE task[r].op = "play"
  <2> DEFINE s == task[r].session
  <2>1. task[r].pc # "idle" /\ s \in 1..issued
    BY <1>2 DEF Local, Stage
  <2>2. s \in Sessions /\ s # issued + 1
    BY <2>1, ServerAssumption DEF IssuedType, Sessions
  <2>3. commitments[s] = NoCommitment /\ seeded[s] <= task[r].seed
    BY <1>2 DEF PlayedInv, PlaySeedInv
  <2>4. task'[r].session = s /\ task'[r].seed = task[r].seed
    BY <1>0, <1>2, <2>1 DEF Fate, SameTerms
  <2>5. CommitmentFate(s)
    BY <2>2, CommitmentsStep DEF CommittedInv
  <2> HIDE DEF s
  <2>6. seeded'[s] = seeded[s]
    BY <2>2, <2>3, <2>5 DEF CommitmentFate
  <2> QED
    BY <2>3, <2>4, <2>6
<1>3. ASSUME NEW s \in Sessions, NEW p \in Players, NEW b \in Coins, PlayAccepted(r, s, p, b)
      PROVE  seeded'[task'[r].session] <= task'[r].seed
  <2>1. commitments[s] # NoCommitment /\ UNCHANGED seeded
    BY <1>3 DEF PlayAccepted, slots
  <2>2. task'[r].session = s /\ task'[r].seed = commitments[s].seed_block
    BY <1>3, PlayEffect DEF Types, SlotType, CommittedInv
  <2>3. seeded[s] <= commitments[s].seed_block
    BY <2>1 DEF CommittedInv
  <2> QED
    BY <2>1, <2>2, <2>3
<1> QED
  BY <1>0, <1>1, <1>2, <1>3 DEF Fate

-----------------------------------------------------------------------------
(* Blocks. *)

(* A block has one transaction of the account. *)
Distinct ==
    \A q, r \in Requests : proof_tx[r].block # 0 => invoke_tx[q].block # proof_tx[r].block

(* Every step keeps that no block has two of the account's transactions. *)
LEMMA DistinctStep ==
    ASSUME Types, IssuedType, CommittedInv, \A q \in Requests : Local(q), Distinct, [Next]_vars
    PROVE  Distinct'
<1>0. \A q \in Requests : Fate(q)
  BY LocalStep
<1>1. SUFFICES ASSUME NEW q \in Requests, NEW r \in Requests, proof_tx'[r].block # 0
               PROVE  invoke_tx'[q].block # proof_tx'[r].block
  BY DEF Distinct
<1>2. /\ invoke_tx[q].block \in Nat /\ invoke_tx[q].block <= Block
      /\ proof_tx[r].block \in Nat /\ proof_tx[r].block <= Block /\ Block \in Nat
  BY Numbers DEF Local, ProofLife, InvokeLife
<1>3. Block + 1 \in 0..MaxBlock \/ ~(Block < MaxBlock)
  BY <1>2, ServerAssumption
<1>4. CASE IncludeInvoke(q)
  <2>1. UNCHANGED proof_tx /\ Block < MaxBlock
    BY <1>4 DEF IncludeInvoke, Include
  <2>2. PICK status \in {"ok", "reverted"} :
            invoke_tx' = [invoke_tx EXCEPT ![q].status = status, ![q].block = Block + 1]
    BY <1>4 DEF IncludeInvoke
  <2>3. invoke_tx'[q].block = Block + 1
    <3>1. status \in TxStatus
      BY StatusNames
    <3> QED
      BY <1>3, <2>1, <2>2, <3>1, LandInvokeEffect DEF Types
  <2> QED
    BY <1>2, <2>1, <2>3
<1>5. CASE IncludeProof(r)
  <2>1. UNCHANGED invoke_tx /\ Block < MaxBlock
    BY <1>5 DEF IncludeProof, Include
  <2>2. PICK status \in {"ok", "reverted"} :
            proof_tx' = [proof_tx EXCEPT ![r].status = status, ![r].block = Block + 1]
    BY <1>5 DEF IncludeProof
  <2>3. proof_tx'[r].block = Block + 1
    <3>1. status \in TxStatus
      BY StatusNames
    <3> QED
      BY <1>3, <2>1, <2>2, <3>1, LandProofEffect DEF Types
  <2> QED
    BY <1>2, <2>1, <2>3
<1>6. CASE invoke_tx'[q].block = invoke_tx[q].block /\ proof_tx'[r].block = proof_tx[r].block
  BY <1>1, <1>6 DEF Distinct
<1> QED
  BY <1>0, <1>4, <1>5, <1>6 DEF Fate

(* Between the seed block and the block of a proof the account does nothing: a
   match or settlement in between would have moved its nonce past the proof's. *)
LEMMA FollowsSeed ==
    ASSUME Types, \A q \in Requests : Local(q), Distinct
    PROVE  ProofFollowsSeed
<1>1. SUFFICES ASSUME NEW q \in Requests, NEW r \in Requests, proof_tx[r].block # 0,
                      invoke_tx[q].block \in (proof_tx[r].seed + 1)..proof_tx[r].block
               PROVE  FALSE
  BY DEF ProofFollowsSeed
<1> DEFINE d == proof_tx[r].seed
           b == proof_tx[r].block
           c == invoke_tx[q].block
<1>2. proof_tx[r].status # "none"
  BY <1>1 DEF Local, ProofLife, Landed
<1>3. /\ d = task[r].seed /\ d # 0 /\ nonces[d] = proof_tx[r].nonce
      /\ b >= 2 /\ b <= Block /\ nonces[b - 1] = proof_tx[r].nonce
  BY <1>1, <1>2 DEF Local, ProofLife, Work
<1>4. d \in Nat /\ b \in Nat /\ c \in Nat /\ Block \in Nat
  BY <1>3, Numbers
<1>5. c # b /\ c \in (d + 1)..b
  BY <1>1 DEF Distinct
<1>6. c # 0 => nonces[c] = nonces[c - 1] + 1
  BY DEF Local, InvokeLife
<1>7. /\ \A x \in 1..Block : nonces[x] \in 1..x
      /\ \A x, y \in 1..Block : x <= y => nonces[x] <= nonces[y]
  BY DEF Types, ChainType
<1> HIDE DEF d, b, c
<1>8. /\ d \in 1..Block /\ c \in 1..Block /\ c - 1 \in 1..Block /\ b - 1 \in 1..Block
      /\ c # 0 /\ d <= c - 1 /\ c <= b - 1
  BY <1>3, <1>4, <1>5
<1>9. nonces[d] <= nonces[c - 1] /\ nonces[c] <= nonces[b - 1]
  BY <1>7, <1>8
<1>10. nonces[d] = nonces[b - 1] /\ nonces[c] = nonces[c - 1] + 1
  BY <1>3, <1>6, <1>8
<1>11. nonces[d] \in Int /\ nonces[c - 1] \in Int /\ nonces[c] \in Int
  BY <1>7, <1>8
<1> QED
  BY <1>9, <1>10, <1>11

-----------------------------------------------------------------------------
(* sncast_lock. *)

Holding == {"sncast", "confirm"}

(* The queue holds exactly the requests that wait for the lock or hold it, each
   once, and a holder is its head. *)
LockInv ==
    /\ lockQueue \in Seq(Requests) /\ Unrepeated(lockQueue)
    /\ \A r \in Requests : Queued(lockQueue, r) <=> task[r].pc \in {"lock"} \cup Holding
    /\ \A r \in Requests : task[r].pc \in Holding => HoldsLock(lockQueue, r)

(* A request asks for the lock. *)
LEMMA EnterStep ==
    ASSUME LockInv, NEW r \in Requests, lockQueue' = Append(lockQueue, r),
           task[r].pc \notin {"lock"} \cup Holding, task'[r].pc = "lock", OnlyTask(r)
    PROVE  LockInv'
<1>1. ~Queued(lockQueue, r)
  BY DEF LockInv
<1>2. /\ lockQueue' \in Seq(Requests) /\ Unrepeated(lockQueue')
      /\ \A x : Queued(lockQueue', x) <=> Queued(lockQueue, x) \/ x = r
      /\ \A x : HoldsLock(lockQueue, x) => HoldsLock(lockQueue', x)
  BY <1>1, EnterQueue DEF LockInv
<1> QED
  BY <1>2 DEF LockInv, Holding, OnlyTask

(* A request gives it up, or no longer waits. *)
LEMMA LeaveStep ==
    ASSUME LockInv, NEW r \in Requests, Leave(r), task'[r].pc \notin {"lock"} \cup Holding,
           OnlyTask(r)
    PROVE  LockInv'
<1>1. /\ lockQueue' \in Seq(Requests) /\ Unrepeated(lockQueue')
      /\ \A x : Queued(lockQueue', x) <=> Queued(lockQueue, x) /\ x # r
      /\ \A x : HoldsLock(lockQueue, x) /\ x # r => HoldsLock(lockQueue', x)
  BY LeaveType, LeaveQueue DEF LockInv, Leave
<1> QED
  BY <1>1 DEF LockInv, OnlyTask

(* The head of the queue gets it. *)
LEMMA GetStep ==
    ASSUME LockInv, NEW r \in Requests, UNCHANGED lockQueue, task[r].pc = "lock",
           Head(lockQueue) = r, task'[r].pc \in Holding, OnlyTask(r)
    PROVE  LockInv'
<1>1. Queued(lockQueue, r)
  BY DEF LockInv
<1>2. HoldsLock(lockQueue, r)
  BY <1>1 DEF LockInv, Queued, HoldsLock
<1> QED
  BY <1>1, <1>2 DEF LockInv, OnlyTask

(* Everything else leaves the lock alone. *)
LEMMA OutsideStep ==
    ASSUME LockInv, NEW r \in Requests, UNCHANGED lockQueue, OnlyTask(r),
           \/ task[r].pc \notin {"lock"} \cup Holding /\ task'[r].pc \notin {"lock"} \cup Holding
           \/ task[r].pc \in Holding /\ task'[r].pc \in Holding
    PROVE  LockInv'
BY DEF LockInv, OnlyTask, Holding

(* Every step keeps the queue of the sncast lock in agreement with the stages. *)
LEMMA LockStep ==
    ASSUME Types, IssuedType, CommittedInv, \A q \in Requests : Local(q), LockInv, [Next]_vars
    PROVE  LockInv'
<1>0. TaskType /\ CommitmentsType /\ coinflip \in 0..MaxBlock
  BY DEF Types, SlotType, CommittedInv
<1>1. ASSUME NEW r \in Requests, NEW s \in Sessions, ConfirmDeposit(r, s) PROVE LockInv'
  <2>0. /\ task' = [task EXCEPT ![r] = [Idle EXCEPT !.op = "confirm", !.pc = "deposit",
                                                    !.session = s]]
        /\ "deposit" \in Stages
    BY <1>1, StageNames DEF ConfirmDeposit
  <2>1. task'[r].pc = "deposit" /\ OnlyTask(r)
    BY <1>0, <2>0, ConfirmEffect
  <2> QED
    BY <1>1, <2>1, OutsideStep DEF ConfirmDeposit, Holding
<1>2. ASSUME NEW r \in Requests, ConfirmRefused(r) PROVE LockInv'
  <2>1. task'[r].pc = "error" /\ OnlyTask(r)
    BY <1>0, <1>2, StageNames, GotoEffect DEF ConfirmRefused
  <2> QED
    BY <1>2, <2>1, OutsideStep DEF ConfirmRefused, Holding
<1>26. ASSUME NEW r \in Requests, DepositConfirmed(r) PROVE LockInv'
  <2>1. task'[r].pc = "lock" /\ OnlyTask(r)
    BY <1>0, <1>26, StageNames, GotoEffect DEF DepositConfirmed
  <2> QED
    BY <1>26, <2>1, EnterStep DEF DepositConfirmed, Holding
<1>27. ASSUME NEW r \in Requests, DeployCoinFlip(r) PROVE LockInv'
  <2>1. task'[r].pc = "lock" /\ OnlyTask(r)
    BY <1>0, <1>27, DeployEffect DEF DeployCoinFlip
  <2> QED
    BY <1>27, <2>1, EnterStep DEF DeployCoinFlip, Holding
<1>28. ASSUME NEW r \in Requests, StoreDeployment(r) PROVE LockInv'
  <2>1. task'[r].pc = "deployed" /\ OnlyTask(r)
    BY <1>0, <1>28, StageNames, GotoEffect DEF StoreDeployment
  <2> QED
    BY <1>28, <2>1, OutsideStep DEF StoreDeployment, Holding
<1>3. ASSUME NEW r \in Requests, NEW s \in Sessions, PlayRejected(r, s) \/ PlayRefused(r, s) PROVE LockInv'
  <2>1. task'[r].pc = "error" /\ OnlyTask(r)
    BY <1>0, <1>3, RefuseEffect DEF PlayRejected, PlayRefused
  <2>2. task[r].pc = "idle" /\ UNCHANGED lockQueue
    BY <1>3 DEF PlayRejected, PlayRefused
  <2> QED
    BY <2>1, <2>2, OutsideStep DEF Holding
<1>4. ASSUME NEW r \in Requests, NEW s \in Sessions, NEW p \in Players, NEW b \in Coins,
             PlayAccepted(r, s, p, b)
      PROVE LockInv'
  <2>1. task'[r].pc = "nonce" /\ OnlyTask(r)
    BY <1>0, <1>4, PlayEffect
  <2> QED
    BY <1>4, <2>1, OutsideStep DEF PlayAccepted, Holding
<1>5. ASSUME NEW r \in Requests, AcquireLock(r) PROVE LockInv'
  <2>1. task'[r].pc = "sncast" /\ OnlyTask(r)
    BY <1>0, <1>5, StageNames, GotoEffect DEF AcquireLock
  <2> QED
    BY <1>5, <2>1, GetStep DEF AcquireLock, Holding
<1>6. ASSUME NEW r \in Requests, SncastHash(r) PROVE LockInv'
  <2>1. task'[r].pc = "confirm" /\ OnlyTask(r)
    BY <1>0, <1>6, StageNames, GotoEffect DEF SncastHash
  <2> QED
    BY <1>6, <2>1, OutsideStep DEF SncastHash, Holding
<1>7. ASSUME NEW r \in Requests, StoreSeed(r) PROVE LockInv'
  <2>1. task'[r].pc = "matched" /\ OnlyTask(r)
    BY <1>0, <1>7, StageNames, GotoEffect DEF StoreSeed
  <2> QED
    BY <1>7, <2>1, OutsideStep DEF StoreSeed, Holding
<1>8. ASSUME NEW r \in Requests, PlayFails(r) PROVE LockInv'
  <2>1. task'[r].pc = "error" /\ OnlyTask(r)
    BY <1>0, <1>8, StageNames, GotoEffect DEF PlayFails
  <2> QED
    BY <1>8, <2>1, OutsideStep DEF PlayFails, Holding
<1>9. ASSUME NEW r \in Requests, ProofIncluded(r) PROVE LockInv'
  <2>0. task[r].pc = "include"
    BY <1>9 DEF ProofIncluded
  <2>1. CASE bank
    <3>1. Goto(r, "lock") /\ lockQueue' = Append(lockQueue, r)
      BY <1>9, <2>1 DEF ProofIncluded
    <3>2. task'[r].pc = "lock" /\ OnlyTask(r)
      BY <1>0, <3>1, StageNames, GotoEffect
    <3> QED
      BY <2>0, <3>1, <3>2, EnterStep DEF Holding
  <2>2. CASE ~bank
    <3>1. Goto(r, "result") /\ UNCHANGED lockQueue
      BY <1>9, <2>2 DEF ProofIncluded
    <3>2. task'[r].pc = "result" /\ OnlyTask(r)
      BY <1>0, <3>1, StageNames, GotoEffect
    <3> QED
      BY <2>0, <3>1, <3>2, OutsideStep DEF Holding
  <2> QED
    BY <2>1, <2>2
<1>10. ASSUME NEW r \in Requests, ClientDisconnect(r) PROVE LockInv'
  <2>1. task'[r].pc = "cancelled" /\ OnlyTask(r)
    BY <1>0, <1>10, StageNames, GotoEffect DEF ClientDisconnect
  <2> QED
    BY <1>10, <2>1, LeaveStep DEF ClientDisconnect, Holding
<1>11. ASSUME NEW r \in Requests, SubmitProof(r) PROVE LockInv'
  <2>1. PICK stage \in {"include", "error"} : Goto(r, stage)
    BY <1>11 DEF SubmitProof
  <2>2. stage \in Stages
    BY StageNames
  <2>3. task'[r].pc = stage /\ OnlyTask(r)
    BY <1>0, <2>1, <2>2, GotoEffect
  <2> QED
    BY <1>11, <2>3, OutsideStep DEF SubmitProof, Holding
<1>12. ASSUME NEW r \in Requests, SncastNoHash(r) PROVE LockInv'
  <2>1. AfterInvoke(r, "error", FALSE) /\ Leave(r)
    BY <1>12 DEF SncastNoHash
  <2>2. task'[r].pc \in {"error", "result"} /\ OnlyTask(r)
    BY <1>0, <2>1, StageNames, AfterInvokeEffect
  <2> QED
    BY <2>1, <2>2, LeaveStep DEF Holding
<1>13. ASSUME NEW r \in Requests, TxUnconfirmed(r) PROVE LockInv'
  <2>1. AfterInvoke(r, "block", TRUE) /\ Leave(r)
    BY <1>13 DEF TxUnconfirmed
  <2>2. task'[r].pc \in {"block", "error", "result"} /\ OnlyTask(r)
    BY <1>0, <2>1, StageNames, AfterInvokeEffect
  <2> QED
    BY <2>1, <2>2, LeaveStep DEF Holding
<1>14. ASSUME NEW r \in Requests, TxConfirmed(r) PROVE LockInv'
  <2>1. invoke_tx[r].block \in 0..MaxBlock
    BY Numbers
  <2>3. task'[r].pc \in {"store", "result"} /\ OnlyTask(r)
    BY <1>0, <1>14, <2>1, ConfirmedEffect
  <2>4. Leave(r)
    BY <1>14 DEF TxConfirmed
  <2> QED
    BY <2>3, <2>4, LeaveStep DEF Holding
<1>15. ASSUME NEW r \in Requests, SubmitNotReady(r) PROVE LockInv'
  <2>1. task'[r].pc = task[r].pc /\ OnlyTask(r)
    BY <1>0, <1>15, RetryEffect
  <2> QED
    BY <1>15, <2>1, OutsideStep DEF SubmitNotReady, Holding
<1>16. ASSUME NEW r \in Requests, Prove(r) PROVE LockInv'
  <2>1. PICK m \in {"empty", "heads", "tails"}, w \in BOOLEAN :
            task' = [task EXCEPT ![r].pc = "submit", ![r].outcome = m, ![r].won = w]
    BY <1>16, ProveMessage
  <2>3. task'[r].pc = "submit" /\ OnlyTask(r)
    BY <1>0, <2>1, ProveEffect
  <2> QED
    BY <1>16, <2>3, OutsideStep DEF Prove, Holding
<1>17. ASSUME NEW r \in Requests, FetchNonce(r) PROVE LockInv'
  <2>1. Step(r)
    BY <1>17, FetchNonceStep
  <2>2. task'[r].pc = "prove"
    BY <1>0, <1>17, TaskFields DEF FetchNonce, TaskType, Task
  <2> QED
    BY <1>17, <2>1, <2>2, OutsideStep DEF FetchNonce, Step, Holding
<1>18. ASSUME NEW r \in Requests, ReadBlockNumber(r) PROVE LockInv'
  <2>1. Step(r)
    BY <1>18, ReadBlockNumberStep
  <2>2. task'[r].pc = "store"
    BY <1>0, <1>18, TaskFields DEF ReadBlockNumber, TaskType, Task
  <2> QED
    BY <1>18, <2>1, <2>2, OutsideStep DEF ReadBlockNumber, Step, Holding
<1>19. ASSUME Crash PROVE LockInv'
  <2>1. lockQueue' = <<>> /\ \A q \in Requests : task'[q].pc \notin {"lock"} \cup Holding
    BY <1>0, <1>19, CrashEffect DEF Crash, Holding, Replies
  <2>2. lockQueue' \in Seq(Requests) /\ Unrepeated(lockQueue') /\ \A x : ~Queued(lockQueue', x)
    BY <2>1 DEF Unrepeated, Queued
  <2> QED
    BY <2>1, <2>2 DEF LockInv
<1>20. CASE UNCHANGED <<task, lockQueue>>
  BY <1>20 DEF LockInv
<1>21. ASSUME NEW r \in Requests, Sncast(r) \/ Chain(r) PROVE UNCHANGED <<task, lockQueue>>
  BY <1>21 DEF Sncast, Chain, SncastSubmit, SncastFail, IncludeInvoke, IncludeProof, DropInvoke,
              DropProof
<1>22. ASSUME NEW p \in Players, NEW s \in Sessions, NEW m \in Amounts, NEW b \in Bets,
             PlayerDeposit(p, s, m, b)
      PROVE  UNCHANGED <<task, lockQueue>>
  BY <1>22 DEF PlayerDeposit
<1>23. ASSUME NEW p \in Players, NEW b \in Coins, CommitBet(p, b)
      PROVE  UNCHANGED <<task, lockQueue>>
  BY <1>23 DEF CommitBet
<1>24. OtherBlock \/ UNCHANGED vars => UNCHANGED <<task, lockQueue>>
  BY DEF OtherBlock, vars
<1>29. ASSUME NEW r \in Requests, Stall(r) PROVE UNCHANGED <<task, lockQueue>>
  BY <1>29 DEF Stall
<1>25. ASSUME NEW r \in Requests, Handler(r) PROVE LockInv'
  BY <1>2, <1>26, <1>28, <1>5, <1>6, <1>7, <1>8, <1>9, <1>10, <1>11, <1>12, <1>13, <1>14, <1>15, <1>16, <1>17,
     <1>18, <1>25 DEF Handler
<1> QED
  BY <1>1, <1>3, <1>4, <1>10, <1>19, <1>20, <1>21, <1>22, <1>23, <1>24, <1>25, <1>27, <1>29
     DEF Next

-----------------------------------------------------------------------------
(* The bank under the server. *)

(* A game is deposited by a player, or matched or settled by the transaction of
   a request for that session. *)
BankMove ==
    \/ UNCHANGED bankVars
    \/ \E p \in Players, s \in Sessions, n \in Amounts, d \in Seeds, b \in Bets :
           Contract!Deposit(p, s, n, d, b)
    \/ \E r \in Requests : /\ task[r].op = "confirm" /\ task[r].session \in Sessions
                           /\ Contract!MatchDeposit(Owner, task[r].session)
    \/ \E r \in Requests : /\ task[r].op = "play" /\ task[r].session \in Sessions
                           /\ CallSucceeds(r) /\ IncludeInvoke(r)
                           /\ Contract!Settle(Owner, task[r].session, invoke_tx[r].seed)

(* The seeds that deposit-info hands out are block numbers. *)
LEMMA DepositSeed ==
    ASSUME CommitmentsType, NEW s \in Sessions
    PROVE  DepositInfoSeed(s) \in Seeds
<1>1. commitments[s] # NoCommitment => commitments[s].seed_block \in 0..MaxBlock
  BY DEF CommitmentsType, BetCommitment
<1>2. 0 \in 0..MaxBlock
  BY ServerAssumption
<1> QED
  BY <1>1, <1>2, ServerAssumption DEF DepositInfoSeed

(* A step changes the bank only by one of the bank's own operations. *)
LEMMA BankMoves ==
    ASSUME Types, IssuedType, CommittedInv, \A q \in Requests : Local(q), [Next]_vars
    PROVE  BankMove
<1>1. ASSUME NEW p \in Players, NEW s \in Sessions, NEW n \in Amounts, NEW b \in Bets,
             PlayerDeposit(p, s, n, b)
      PROVE  BankMove
  <2>1. Contract!Deposit(p, s, n, DepositInfoSeed(s), b) /\ DepositInfoSeed(s) \in Seeds
    BY <1>1, DepositSeed DEF PlayerDeposit, CommittedInv
  <2> QED
    BY <2>1 DEF BankMove
<1>2. ASSUME NEW r \in Requests, IncludeInvoke(r) PROVE BankMove
  <2>3. task[r].op \in {"confirm", "play"} => task[r].session \in Sessions
    BY DEF Local, Stage
  <2> QED
    BY <1>2, <2>3 DEF IncludeInvoke, BankMove
<1> QED
  BY <1>1, <1>2, Writes DEF Footprint, BankMove

(* The contract's storage and the token tables keep their types: what each entry
   point writes is in range. *)
BankType == Contract!TypeOK

(* Those operations keep the types of the bank's entries. *)
LEMMA BankStep ==
    ASSUME BankType, BankMove, Types
    PROVE  BankType'
<1>0. /\ MaxU256 \in Nat /\ Bank \notin Players \cup {Owner} /\ NoPlayer \notin Players \cup {Owner}
      /\ Amounts \subseteq 0..MaxU256 /\ Owner \in Players \cup {Owner}
  BY ServerAssumption
<1> USE <1>0 DEF Contract!U256, Contract!Accounts, Contract!Holders,
        Contract!Sessions, Sessions, BankType, Contract!TypeOK, Contract!EMPTY, Contract!DEPOSITED,
        Contract!MATCHED, Contract!SETTLED
<1>1. ASSUME NEW a \in Players \cup {Owner}, NEW n \in 0..MaxU256, Contract!transfer_from(a, n)
      PROVE  /\ balance' \in [Players \cup {Owner} \cup {Bank} -> 0..MaxU256]
             /\ allowance' \in [Players \cup {Owner} -> 0..MaxU256]
  <2>1. /\ balance \in [Players \cup {Owner} \cup {Bank} -> 0..MaxU256]
        /\ allowance \in [Players \cup {Owner} -> 0..MaxU256]
    OBVIOUS
  <2>2. /\ n <= allowance[a] /\ n <= balance[a] /\ balance[Bank] + n <= MaxU256 /\ a # Bank
        /\ balance' = [balance EXCEPT ![a] = @ - n, ![Bank] = @ + n]
        /\ allowance' = [allowance EXCEPT ![a] = @ - n]
    BY <1>1 DEF Contract!transfer_from, Contract!CanMove, Contract!Move
  <2> HIDE DEF BankType, Contract!TypeOK
  <2>3. allowance[a] - n \in 0..MaxU256 /\ balance[a] - n \in 0..MaxU256
        /\ balance[Bank] + n \in 0..MaxU256
    BY <2>1, <2>2
  <2> QED
    BY <2>1, <2>2, <2>3
<1>2. ASSUME NEW p \in Players, NEW s \in Sessions, NEW n \in Amounts, NEW d \in Seeds,
             NEW b \in Bets, Contract!Deposit(p, s, n, d, b)
      PROVE  BankType'
  <2>1. /\ balance' \in [Players \cup {Owner} \cup {Bank} -> 0..MaxU256]
        /\ allowance' \in [Players \cup {Owner} -> 0..MaxU256]
    BY <1>2, <1>1 DEF Contract!Deposit
  <2> QED
    BY <1>2, <2>1 DEF Contract!Deposit
<1>3. ASSUME NEW s \in Sessions, Contract!MatchDeposit(Owner, s) PROVE BankType'
  <2>1. /\ balance' \in [Players \cup {Owner} \cup {Bank} -> 0..MaxU256]
        /\ allowance' \in [Players \cup {Owner} -> 0..MaxU256]
    BY <1>3, <1>1 DEF Contract!MatchDeposit
  <2> QED
    BY <1>3, <2>1 DEF Contract!MatchDeposit
<1>4. ASSUME NEW s \in Sessions, NEW d, Contract!Settle(Owner, s, d) PROVE BankType'
  <2>1. Contract!Winner(s, d) \in Players \cup {Owner}
    BY <1>4 DEF Contract!Settle, Contract!Winner
  <2> QED
    BY <1>4, <2>1 DEF Contract!Settle, Contract!transfer, Contract!CanMove, Contract!Move
<1>5. UNCHANGED bankVars => BankType'
  BY DEF bankVars
<1> HIDE DEF BankType
<1> QED
  BY <1>2, <1>3, <1>4, <1>5 DEF BankMove

(* The proof and the settlement that witness that session s may be settled. *)
Justified(r, s) ==
    /\ task[r].op = "play"
    /\ task[r].session = s
    /\ proof_tx[r].status = "ok"
    /\ invoke_tx[r].status = "ok"
    /\ proof_tx[r].seed = invoke_tx[r].seed
    /\ proof_tx[r].block < invoke_tx[r].block

(* A session becomes settled only by the settlement of a play whose proof is
   already in a block, and what is in a block stays there. *)
LEMMA SettledStep ==
    ASSUME Types, IssuedType, CommittedInv, \A q \in Requests : Local(q), BankType,
           SettledAfterProof, [Next]_vars
    PROVE  SettledAfterProof'
<1>1. BankMove /\ \A q \in Requests : Local(q)' /\ Fate(q)
  BY BankMoves, LocalStep
<1>2. game_state \in [Sessions -> 0..3]
  BY DEF BankType, Contract!TypeOK, Contract!Sessions, Sessions, Contract!EMPTY,
         Contract!DEPOSITED, Contract!MATCHED, Contract!SETTLED
<1>3. SUFFICES ASSUME NEW s \in Sessions, game_state'[s] = 3
               PROVE  \E r \in Requests : Justified(r, s)'
  BY DEF SettledAfterProof, Justified, Contract!SETTLED
<1>4. CASE game_state[s] = 3
  <2>1. PICK r \in Requests : Justified(r, s)
    BY <1>4 DEF SettledAfterProof, Justified, Contract!SETTLED
  <2>2. task[r].pc # "idle"
    BY <2>1 DEF Justified, Local, Stage
  <2>3. SameTerms(r) /\ invoke_tx'[r] = invoke_tx[r] /\ proof_tx'[r] = proof_tx[r]
    BY <1>1, <2>1, <2>2 DEF Fate, Justified, Landed
  <2> QED
    BY <2>1, <2>3 DEF Justified, SameTerms
<1>5. CASE game_state[s] # 3
  <2>1. PICK r \in Requests :
            /\ task[r].op = "play" /\ task[r].session = s
            /\ CallSucceeds(r) /\ IncludeInvoke(r)
    <3>1. UNCHANGED bankVars => game_state'[s] = game_state[s]
      BY DEF bankVars
    <3>2. ASSUME NEW p \in Players, NEW t \in Sessions, NEW n \in Amounts, NEW d \in Seeds,
                 NEW b \in Bets, Contract!Deposit(p, t, n, d, b)
          PROVE  game_state'[s] # 3 \/ game_state[s] = 3
      BY <1>2, <3>2 DEF Contract!Deposit, Contract!DEPOSITED
    <3>3. ASSUME NEW t \in Sessions, Contract!MatchDeposit(Owner, t)
          PROVE  game_state'[s] # 3 \/ game_state[s] = 3
      BY <1>2, <3>3 DEF Contract!MatchDeposit, Contract!MATCHED
    <3>4. ASSUME NEW t \in Sessions, NEW d, Contract!Settle(Owner, t, d)
          PROVE  t = s \/ game_state'[s] = game_state[s]
      BY <1>2, <3>4 DEF Contract!Settle
    <3> QED
      BY <1>1, <1>3, <1>5, <3>1, <3>2, <3>3, <3>4 DEF BankMove
  <2>2. /\ UNCHANGED task /\ Block < MaxBlock
        /\ invoke_tx' = [invoke_tx EXCEPT ![r].status = "ok", ![r].block = Block + 1]
    BY <2>1 DEF IncludeInvoke, Include
  <2>3. "ok" \in TxStatus /\ Block + 1 \in 0..MaxBlock
    BY <2>2, Numbers, StatusNames, ServerAssumption
  <2>4. invoke_tx'[r].status = "ok"
    BY <2>2, <2>3, LandInvokeEffect DEF Types
  <2>5. InvokeLife(r)' /\ ProofLife(r)' /\ task'[r].op = "play" /\ task'[r].session = s
    BY <1>1, <2>1, <2>2 DEF Local
  <2>6. invoke_tx'[r].block # 0 /\ proof_tx'[r].status = "ok" /\ invoke_tx'[r].seed = task'[r].seed
    BY <2>4, <2>5 DEF InvokeLife, Landed
  <2>7. proof_tx'[r].block < invoke_tx'[r].block /\ proof_tx'[r].seed = task'[r].seed
    BY <2>5, <2>6 DEF InvokeLife, ProofLife
  <2> QED
    BY <2>4, <2>5, <2>6, <2>7 DEF Justified
<1> QED
  BY <1>4, <1>5

(* What the player is told is what settle does: both use the seed of the task. *)
LEMMA ReportIsHonest ==
    ASSUME \A q \in Requests : Local(q)
    PROVE  HonestReport
<1>1. SUFFICES ASSUME NEW r \in Requests, task[r].op = "play", invoke_tx[r].status = "ok",
                      game_player[task[r].session] = task[r].player,
                      game_bet[task[r].session] = task[r].bet
               PROVE  task[r].won <=>
                          task[r].outcome # "empty"
                          /\ Contract!PlayerWins(task[r].session, invoke_tx[r].seed)
  BY DEF HonestReport
<1>2. task[r].won <=> task[r].outcome # "empty" /\ Flip(r) = task[r].bet
  BY DEF Local, Work
<1>3. invoke_tx[r].seed = task[r].seed
  BY <1>1 DEF Local, InvokeLife
<1>4. Contract!PlayerWins(task[r].session, invoke_tx[r].seed) <=> Flip(r) = task[r].bet
  BY <1>1, <1>3 DEF Flip, Contract!PlayerWins
<1> QED
  BY <1>2, <1>4

(* A play's seed exists and does not lie before the contract that was seen. *)
LEMMA SeedIsProvable ==
    ASSUME Types, \A q \in Requests : Local(q), PlaySeedInv
    PROVE  SeedProvable
<1>1. SUFFICES ASSUME NEW r \in Requests, task[r].op = "play",
                      task[r].contract = seeded[task[r].session]
               PROVE  task[r].seed \in task[r].contract..Block
  BY DEF SeedProvable
<1>2. task[r].seed <= Block /\ task[r].contract <= task[r].seed
  BY <1>1 DEF Local, Stage, PlaySeedInv
<1>3. task[r].seed \in Int /\ task[r].contract \in Int /\ Block \in Int
  <2>1. task[r].seed \in Nat /\ task[r].contract \in Nat /\ Block \in Nat
    BY Numbers, TaskNumbers, Zenon DEF Types
  <2> QED
    BY <2>1
<1> QED
  BY <1>2, <1>3

(* A deployment is stored with the block it was included in, and one that is read
   back exists. *)
LEMMA SlotStep ==
    ASSUME Types, \A q \in Requests : Local(q), [Next]_vars
    PROVE  SlotType'
<1>1. Footprint /\ Grows
  BY Writes, ChainStep DEF Types
<1>2. /\ Block \in Nat /\ Block' \in Nat /\ Block <= Block'
      /\ coinflip \in 0..MaxBlock /\ coinflip <= Block /\ MaxBlock \in Nat
      /\ DeployBlock \in 1..MaxBlock /\ DeployBlock <= Block
  BY <1>1, ChainFacts, ServerAssumption DEF Grows, Types, SlotType, ChainType
<1>3. coinflip' \in 0..MaxBlock /\ coinflip' <= Block
  <2>1. CASE UNCHANGED coinflip
    BY <1>2, <2>1
  <2>2. ASSUME NEW r \in Requests, StoreDeployment(r)
        PROVE  coinflip' \in 0..MaxBlock /\ coinflip' <= Block
    BY <2>2, TaskFields DEF StoreDeployment, Local, Stage, Types
  <2>3. ASSUME Crash PROVE coinflip' \in 0..MaxBlock /\ coinflip' <= Block
    <3>1. coinflip' = 0 \/ coinflip' = DeployBlock
          \/ \E r \in Requests : coinflip' = invoke_tx[r].block
      BY <2>3 DEF Crash, DeployBlocks
    <3>2. \A r \in Requests : invoke_tx[r].block \in 0..MaxBlock /\ invoke_tx[r].block <= Block
      BY Numbers DEF Local, InvokeLife
    <3> QED
      BY <1>2, <3>1, <3>2
  <2> QED
    BY <1>1, <2>1, <2>2, <2>3 DEF Footprint
<1>4. bank' \in BOOLEAN
  BY <1>1 DEF Footprint, Crash, Types, SlotType
<1>5. stalled' \subseteq Requests
  BY <1>1 DEF Footprint, Stall, Types, SlotType
<1> HIDE DEF Block
<1>6. coinflip' <= Block'
  BY <1>2, <1>3
<1> QED
  BY <1>3, <1>4, <1>5, <1>6 DEF SlotType

-----------------------------------------------------------------------------
(* The whole invariant. *)

CrashesType == crashes \in 0..MaxCrashes

Inv ==
    /\ Types
    /\ IssuedType
    /\ CommittedInv
    /\ \A r \in Requests : Local(r)
    /\ PlayedInv
    /\ PlaySeedInv
    /\ Distinct
    /\ LockInv
    /\ BankType
    /\ CrashesType
    /\ SettledAfterProof

(* The contracts are deployed, nobody has called yet. *)
LEMMA InvInit == Init => Inv
<1>0. SUFFICES ASSUME Init PROVE Inv
  OBVIOUS
<1>1. TaskType /\ \A r \in Requests : task[r] = Idle
  BY <1>0, IdleType DEF Init, TaskType
<1>2. NoTx \in Tx
  BY StatusNames, ServerAssumption DEF NoTx, Tx
<1>3. InvokeType /\ ProofType /\ \A r \in Requests : invoke_tx[r] = NoTx /\ proof_tx[r] = NoTx
  BY <1>0, <1>2 DEF Init, InvokeType, ProofType
<1>4. ChainType
  <2>1. nonces = [b \in 1..DeployBlock |-> 1]
    BY <1>0 DEF Init
  <2>2. DeployBlock \in Nat /\ DeployBlock >= 1 /\ DeployBlock <= MaxBlock /\ MaxBlock \in Nat
    BY ServerAssumption
  <2>3. nonces \in Seq(1..MaxBlock) /\ Len(nonces) = DeployBlock
    BY <2>1, <2>2
  <2>4. \A b \in 1..DeployBlock : nonces[b] = 1
    BY <2>1
  <2> QED
    BY <2>2, <2>3, <2>4 DEF ChainType, Block
<1>5. issued = 0 /\ IssuedType /\ crashes = 0 /\ CrashesType
  BY <1>0, ServerAssumption DEF Init, IssuedType, CrashesType
<1>16. SlotType
  <2>1. coinflip \in {0, DeployBlock} /\ bank \in BOOLEAN /\ stalled = {}
    BY <1>0 DEF Init
  <2>2. DeployBlock \in 0..MaxBlock /\ DeployBlock <= Block /\ 0 \in 0..MaxBlock /\ 0 <= Block
    BY <1>4, ChainFacts, ServerAssumption DEF ChainType
  <2> QED
    BY <2>1, <2>2 DEF SlotType
<1>6. Types
  BY <1>1, <1>3, <1>4, <1>5, <1>16 DEF Types
<1>7. \A s \in Sessions : commitments[s] = NoCommitment
  BY <1>0 DEF Init
<1>8. CommittedInv
  <2>1. CommitmentsType
    BY <1>0 DEF Init, CommitmentsType
  <2>2. SeededType /\ \A s \in Sessions : seeded[s] = 0
    BY <1>0, ServerAssumption DEF Init, SeededType
  <2> QED
    BY <1>7, <2>1, <2>2 DEF CommittedInv
<1>9. ASSUME NEW r \in Requests PROVE Local(r)
  <2>1. /\ task[r].op = "none" /\ task[r].pc = "idle" /\ task[r].seed = 0
        /\ task[r].outcome = "empty"
    BY <1>1 DEF Idle
  <2>4. ~task[r].won
    BY <1>1 DEF Idle
  <2>2. /\ invoke_tx[r].status = "none" /\ invoke_tx[r].block = 0
        /\ proof_tx[r].status = "none" /\ proof_tx[r].block = 0
    BY <1>3 DEF NoTx
  <2>3. 0 <= Block
    BY <1>4, ChainFacts
  <2>5. Stage(r) /\ ProofLife(r) /\ InvokeLife(r)
    BY <2>1, <2>2, <2>3 DEF Stage, ProofLife, InvokeLife, Landed
  <2>6. Work(r)
    BY <2>1, <2>2, <2>4, Zenon DEF Work
  <2> QED
    BY <2>5, <2>6 DEF Local
<1>10. \A r \in Requests : task[r].op = "none" /\ task[r].pc = "idle"
  BY <1>1 DEF Idle
<1>11. PlayedInv /\ PlaySeedInv
  BY <1>10 DEF PlayedInv, OnePlay, PlaySeedInv
<1>12. Distinct
  BY <1>3 DEF Distinct, NoTx
<1>13. LockInv
  <2>1. lockQueue = <<>>
    BY <1>0 DEF Init
  <2> QED
    BY <1>10, <2>1 DEF LockInv, Queued, Unrepeated, Holding
<1>14. BankType /\ \A s \in Sessions : game_state[s] = 0
  <2>1. /\ Contract!Deployed /\ allowance = [a \in Players \cup {Owner} |-> MaxU256]
        /\ MaxU256 \in Nat /\ NoPlayer \notin Players \cup {Owner}
        /\ InitialBalance \in [Players \cup {Owner} -> 0..MaxU256]
        /\ Bank \notin Players \cup {Owner}
    BY <1>0, ServerAssumption DEF Init
  <2> QED
    BY <2>1 DEF BankType, Contract!TypeOK, Contract!Deployed, Contract!Sessions, Sessions,
                Contract!Accounts, Contract!Holders, Contract!U256, Contract!EMPTY
<1>15. SettledAfterProof
  BY <1>14 DEF SettledAfterProof, Contract!SETTLED
<1> QED
  BY <1>5, <1>6, <1>8, <1>9, <1>11, <1>12, <1>13, <1>14, <1>15 DEF Inv

(* Every step preserves it, each part by the lemma about that part. *)
LEMMA InvStep == Inv /\ [Next]_vars => Inv'
<1>0. SUFFICES ASSUME Inv, [Next]_vars PROVE Inv'
  OBVIOUS
<1>1. /\ Types /\ IssuedType /\ CommittedInv /\ (\A r \in Requests : Local(r)) /\ PlayedInv
      /\ PlaySeedInv /\ Distinct /\ LockInv /\ BankType /\ CrashesType /\ SettledAfterProof
  BY <1>0 DEF Inv
<1>2. TaskType' /\ InvokeType' /\ ProofType' /\ \A q \in Requests : Local(q)'
  BY <1>0, <1>1, LocalStep
<1>3. IssuedType' /\ issued' \in Nat
  BY <1>0, <1>1, IssuedStep
<1>4. ChainType'
  BY <1>0, <1>1, ChainStep DEF Types
<1>15. SlotType'
  BY <1>0, <1>1, SlotStep
<1>5. Types'
  BY <1>2, <1>3, <1>4, <1>15 DEF Types
<1>6. CommittedInv'
  BY <1>0, <1>1, CommittedStep
<1>7. PlayedInv'
  BY <1>0, <1>1, PlayedStep
<1>8. PlaySeedInv'
  BY <1>0, <1>1, PlaySeedStep
<1>9. Distinct'
  BY <1>0, <1>1, DistinctStep
<1>10. LockInv'
  BY <1>0, <1>1, LockStep
<1>11. BankMove
  BY <1>0, <1>1, BankMoves
<1>12. BankType'
  BY <1>1, <1>11, BankStep
<1>13. CrashesType'
  <2>1. UNCHANGED crashes \/ (crashes < MaxCrashes /\ crashes' = crashes + 1)
    BY <1>0, Writes DEF Footprint, Crash
  <2> QED
    BY <1>1, <2>1, ServerAssumption DEF CrashesType
<1>14. SettledAfterProof'
  BY <1>0, <1>1, SettledStep
<1> QED
  BY <1>2, <1>3, <1>5, <1>6, <1>7, <1>8, <1>9, <1>10, <1>12, <1>13, <1>14 DEF Inv

(* The invariant holds for any number of players, sessions, requests, blocks,
   attempts and crashes. *)
THEOREM InvHolds == Spec => []Inv
<1> QED
  BY InvInit, InvStep, PTL DEF Spec

(* The server's maps, tasks, queue and transactions, the chain and the bank keep
   their types (CoinFlipAppState, InvokeResult, lib.cairo Storage). *)
THEOREM TypeCorrect == Spec => []TypeOK
<1>1. Inv => TypeOK
  BY DEF Inv, Types, IssuedType, CommittedInv, CommitmentsType, SeededType, SlotType, LockInv,
         BankType, CrashesType, TaskType, InvokeType, ProofType, ChainType, TypeOK
<1> QED
  BY <1>1, InvHolds, PTL

(* sncast_lock excludes, and no error path, disconnect or crash leaves it held by
   a handler that is gone (sncast_invoke). *)
THEOREM LockDisciplineHolds == Spec => []LockDiscipline
<1>1. Inv => LockDiscipline
  <2>0. SUFFICES ASSUME LockInv PROVE LockDiscipline
    BY DEF Inv
  <2>1. ASSUME NEW r \in Requests, task[r].pc \in {"sncast", "confirm"}
        PROVE  lockQueue # <<>> /\ Head(lockQueue) = r
    BY <2>0, <2>1 DEF LockInv, Holding, HoldsLock
  <2>2. ASSUME NEW i \in 1..Len(lockQueue)
        PROVE  task[lockQueue[i]].pc \in {"lock", "sncast", "confirm"}
    <3>1. lockQueue[i] \in Requests /\ Queued(lockQueue, lockQueue[i])
      BY <2>0 DEF LockInv, Queued
    <3> QED
      BY <2>0, <3>1 DEF LockInv, Holding
  <2> QED
    BY <2>1, <2>2 DEF LockDiscipline
<1> QED
  BY <1>1, InvHolds, PTL

(* A commitment is played at most once (play_coinflip removes it first). *)
THEOREM OnePlayHolds == Spec => []OnePlay
<1>1. Inv => OnePlay
  BY DEF Inv, PlayedInv
<1> QED
  BY <1>1, InvHolds, PTL

(* Money leaves the bank only after the proof of the same game with the same seed
   was included in an earlier block (play_coinflip, phases 4 and 5). *)
THEOREM SettledAfterProofHolds == Spec => []SettledAfterProof
<1>1. Inv => SettledAfterProof
  BY DEF Inv
<1> QED
  BY <1>1, InvHolds, PTL

(* A player whose result shows an outcome is told "won" exactly when settle pays
   the player, and a result without one never says "won", whatever the parities of
   the hash (CoinFlip.play and CoinFlipBank.settle). *)
THEOREM HonestReportHolds == Spec => []HonestReport
<1>1. Inv => HonestReport
  BY ReportIsHonest DEF Inv
<1> QED
  BY <1>1, InvHolds, PTL

(* A play whose contract is the one that confirm-deposit saw has a seed at which it
   can be proved, with or without a receipt, and whatever was deployed before or
   since (confirm_deposit's max with deploy_block). *)
THEOREM SeedProvableHolds == Spec => []SeedProvable
<1>1. Inv => SeedProvable
  BY SeedIsProvable DEF Inv
<1> QED
  BY <1>1, InvHolds, PTL

(* No match or settlement of any request lies between the seed block and the
   block of a proof (get_nonce_at_block). *)
THEOREM ProofFollowsSeedHolds == Spec => []ProofFollowsSeed
<1>1. Inv => ProofFollowsSeed
  BY FollowsSeed DEF Inv
<1> QED
  BY <1>1, InvHolds, PTL

(* A commitment consumed by play, or lost in a crash, never comes back
   (confirm_deposit's get_mut). *)
THEOREM NeverRevived == Spec => CommitmentNeverRevived
<1>1. Inv /\ [Next]_vars =>
          [\A s \in 1..issued : commitments[s] = NoCommitment =>
                                    commitments'[s] = NoCommitment]_vars
  BY NotRevived DEF Inv
<1> QED
  BY <1>1, InvHolds, PTL DEF Spec, CommitmentNeverRevived
=============================================================================
