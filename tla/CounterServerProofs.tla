------------------------ MODULE CounterServerProofs ------------------------
(***************************************************************************)
(* Proofs about CounterServer for every number of sessions, requests and    *)
(* attempts and every length of the chain.                                  *)
(***************************************************************************)
EXTENDS CounterServer, FifoLockProofs, TLAPS

-----------------------------------------------------------------------------
(* What the assignments to task and tx do, field by field. *)

TaskType == task \in [Requests -> Task]
TxType == tx \in [Requests -> Tx]

(* r's request is what it was. *)
SameTerms(r) ==
    /\ task'[r].op = task[r].op
    /\ task'[r].session = task[r].session
    /\ task'[r].contract = task[r].contract
    /\ task'[r].amount = task[r].amount
    /\ task'[r].calls = task[r].calls

SameInputs(r) ==
    /\ task'[r].reference_block = task[r].reference_block
    /\ task'[r].nonce = task[r].nonce

SameProof(r) ==
    /\ task'[r].tx_read = task[r].tx_read
    /\ task'[r].proof = task[r].proof
    /\ task'[r].facts = task[r].facts

OnlyTask(r) == \A q \in Requests : q # r => task'[q] = task[q]
OnlyTx(r) == \A q \in Requests : q # r => tx'[q] = tx[q]

(* The fields of a task have their types. *)
LEMMA TaskFields ==
    ASSUME TaskType, NEW r \in Requests
    PROVE  /\ task[r] \in Task
           /\ task[r].pc \in Stages /\ task[r].session \in Sessions
           /\ task[r].contract \in Requests \cup {NoRequest}
           /\ task[r].amount \in Nat /\ task[r].calls \in Nat
           /\ task[r].reference_block \in 0..MaxBlock /\ task[r].nonce \in 0..MaxBlock + 1
           /\ task[r].tx_read \in Requests \cup {NoRequest}
           /\ task[r].proof \in Requests \cup {NoRequest}
           /\ task[r].facts \in Requests \cup {NoRequest}
           /\ task[r].attempt \in 1..MaxAttempts
<1>1. task[r] \in Task
  BY DEF TaskType
<1>2. task[r].amount \in Amounts \cup {1} /\ task[r].calls \in Calls \cup {1}
  BY <1>1 DEF Task
<1>3. task[r].amount \in Nat /\ task[r].calls \in Nat
  BY <1>2, CounterAssumption
<1> QED
  BY <1>1, <1>3 DEF Task

(* Assigning a task of the right type to one request. *)
LEMMA SetTask ==
    ASSUME TaskType, NEW r \in Requests, NEW t \in Task, task' = [task EXCEPT ![r] = t]
    PROVE  TaskType' /\ task'[r] = t /\ OnlyTask(r)
BY DEF TaskType, OnlyTask

(* A handler goes on to another stage. *)
LEMMA GotoEffect ==
    ASSUME TaskType, NEW r \in Requests, NEW stage \in Stages, Goto(r, stage)
    PROVE  /\ TaskType' /\ OnlyTask(r)
           /\ task'[r].pc = stage /\ SameTerms(r) /\ SameInputs(r) /\ SameProof(r)
<1> DEFINE t == [task[r] EXCEPT !.pc = stage]
<1>1. task[r] \in Task
  BY DEF TaskType
<1>2. t \in Task
  BY <1>1 DEF Task
<1>3. task' = [task EXCEPT ![r] = t]
  BY DEF Goto
<1>4. TaskType' /\ task'[r] = t /\ OnlyTask(r)
  BY <1>2, <1>3, SetTask
<1> QED
  BY <1>1, <1>4 DEF Task, SameTerms, SameInputs, SameProof

(* A handler starts. *)
LEMMA IdleType == Idle \in Task
BY CounterAssumption DEF Idle, Task, Stages

(* What starting a request writes into its task. *)
LEMMA StartEffect ==
    ASSUME TaskType, session \in [Sessions -> SessionState],
           NEW r \in Requests, NEW s \in Sessions,
           NEW op \in {"deploy", "invoke", "submit", "prove"}, NEW stage \in Stages,
           Start(r, s, op, stage)
    PROVE  /\ TaskType' /\ OnlyTask(r)
           /\ task'[r].pc = stage /\ task'[r].op = op /\ task'[r].session = s
           /\ task'[r].contract = session[s].contract
           /\ task'[r].reference_block = 0 /\ task'[r].proof = NoRequest
           /\ task'[r].facts = NoRequest
<1> DEFINE t == [Idle EXCEPT !.op = op, !.pc = stage, !.session = s,
                             !.contract = session[s].contract]
<1>1. session[s].contract \in Requests \cup {NoRequest}
  BY DEF SessionState
<1>2. t \in Task
  BY <1>1, IdleType DEF Task
<1>3. task' = [task EXCEPT ![r] = t]
  BY DEF Start
<1>4. TaskType' /\ task'[r] = t /\ OnlyTask(r)
  BY <1>2, <1>3, SetTask
<1> QED
  BY <1>4 DEF Idle

(* prove_block starts on the session's contract and last reference block. *)
LEMMA ProveBlockEffect ==
    ASSUME TaskType, session \in [Sessions -> SessionState],
           NEW r \in Requests, NEW s \in Sessions,
           NEW amount \in Amounts, NEW calls \in Calls, ProveBlock(r, s, amount, calls)
    PROVE  /\ TaskType' /\ OnlyTask(r)
           /\ task'[r].pc \in {"nonce", "panicked"} /\ task'[r].op = "prove"
           /\ task'[r].session = s /\ task'[r].contract = session[s].contract
           /\ task'[r].reference_block \in
                  {session[s].last_reference_block, session[s].deploy_block} \ {0}
           /\ task'[r].proof = NoRequest /\ task'[r].facts = NoRequest
<1>1. PICK stage \in {"nonce", "panicked"}, ref \in {session[s].last_reference_block,
                                                      session[s].deploy_block} \ {0} :
          task' = [task EXCEPT ![r] =
               [Idle EXCEPT !.op = "prove", !.pc = stage, !.session = s,
                            !.contract = session[s].contract, !.amount = amount,
                            !.calls = calls, !.reference_block = ref]]
  BY DEF ProveBlock
<1> DEFINE t == [Idle EXCEPT !.op = "prove", !.pc = stage, !.session = s,
                             !.contract = session[s].contract, !.amount = amount,
                             !.calls = calls, !.reference_block = ref]
<1>2. session[s].contract \in Requests \cup {NoRequest} /\ ref \in 0..MaxBlock
  BY DEF SessionState
<1>3. t \in Task
  BY <1>2, IdleType DEF Task, Stages, Replies
<1>4. TaskType' /\ task'[r] = t /\ OnlyTask(r)
  BY <1>1, <1>3, SetTask
<1> QED
  BY <1>4 DEF Idle

(* A handler learns something: a nonce, a file's content, the counter. *)
LEMMA SubmitNonceEffect ==
    ASSUME TaskType, NEW r \in Requests, get_nonce \subseteq 0..MaxBlock + 1, SubmitNonce(r)
    PROVE  /\ TaskType' /\ OnlyTask(r) /\ SameTerms(r) /\ SameProof(r)
           /\ task'[r].pc = "send" /\ task'[r].reference_block = task[r].reference_block
<1>0. PICK n \in get_nonce : task' = [task EXCEPT ![r].pc = "send", ![r].nonce = n]
  BY DEF SubmitNonce
<1> DEFINE t == [task[r] EXCEPT !.pc = "send", !.nonce = n]
<1>1. task[r] \in Task /\ n \in 0..MaxBlock + 1
  BY DEF TaskType
<1>2. t \in Task
  BY <1>1 DEF Task, Stages
<1>3. task' = [task EXCEPT ![r] = t]
  BY <1>0
<1>4. TaskType' /\ task'[r] = t /\ OnlyTask(r)
  BY <1>2, <1>3, SetTask
<1> QED
  BY <1>1, <1>4 DEF Task, SameTerms, SameProof

(* The nonce of a proof is the one at its reference block. *)
LEMMA ProveNonceEffect ==
    ASSUME TaskType, NEW r \in Requests, nonces[task[r].reference_block] \in 0..MaxBlock,
           ProveNonce(r)
    PROVE  /\ TaskType' /\ OnlyTask(r) /\ SameTerms(r) /\ SameProof(r)
           /\ task'[r].pc = "write" /\ task'[r].nonce = nonces[task[r].reference_block]
           /\ task'[r].reference_block = task[r].reference_block
<1> DEFINE n == nonces[task[r].reference_block]
           t == [task[r] EXCEPT !.pc = "write", !.nonce = n]
<1>1. task[r] \in Task
  BY DEF TaskType
<1>2. t \in Task
  <2> HIDE DEF n
  <2>1. n \in 0..MaxBlock + 1
    BY CounterAssumption DEF n
  <2> QED
    BY <1>1, <2>1 DEF Task, Stages
<1>3. task' = [task EXCEPT ![r] = t]
  BY DEF ProveNonce
<1>4. TaskType' /\ task'[r] = t /\ OnlyTask(r)
  BY <1>2, <1>3, SetTask
<1> QED
  BY <1>1, <1>4 DEF Task, SameTerms, SameProof

(* The prover reads whatever the transaction file holds by then. *)
LEMMA ProverReadsEffect ==
    ASSUME TaskType, tx_file \in [Sessions -> Requests \cup {NoRequest}],
           NEW r \in Requests, ProverReads(r)
    PROVE  /\ TaskType' /\ OnlyTask(r) /\ SameTerms(r) /\ SameInputs(r)
           /\ task'[r].pc = "proving" /\ task'[r].tx_read = tx_file[task[r].session]
           /\ task'[r].proof = task[r].proof /\ task'[r].facts = task[r].facts
<1> DEFINE f == tx_file[task[r].session]
           t == [task[r] EXCEPT !.pc = "proving", !.tx_read = f]
<1>1. task[r] \in Task
  BY DEF TaskType
<1>2. f \in Requests \cup {NoRequest}
  BY TaskFields
<1>3. t \in Task
  <2> HIDE DEF f
  <2> QED
    BY <1>1, <1>2 DEF Task, Stages
<1>4. task' = [task EXCEPT ![r] = t]
  BY DEF ProverReads
<1>5. TaskType' /\ task'[r] = t /\ OnlyTask(r)
  BY <1>3, <1>4, SetTask
<1> QED
  BY <1>1, <1>5 DEF Task, SameTerms, SameInputs

(* Submission reads whatever the proof file holds by then. *)
LEMMA ReadProofEffect ==
    ASSUME TaskType, proof_file \in [Sessions -> Requests \cup {NoRequest}],
           NEW r \in Requests, ReadProof(r)
    PROVE  /\ TaskType' /\ OnlyTask(r) /\ SameTerms(r) /\ SameInputs(r)
           /\ task'[r].pc = "read_facts" /\ task'[r].proof = proof_file[task[r].session]
           /\ task'[r].tx_read = task[r].tx_read /\ task'[r].facts = task[r].facts
<1> DEFINE f == proof_file[task[r].session]
           t == [task[r] EXCEPT !.pc = "read_facts", !.proof = f]
<1>1. task[r] \in Task
  BY DEF TaskType
<1>2. f \in Requests \cup {NoRequest}
  BY TaskFields
<1>3. t \in Task
  <2> HIDE DEF f
  <2> QED
    BY <1>1, <1>2 DEF Task, Stages
<1>4. task' = [task EXCEPT ![r] = t]
  BY DEF ReadProof
<1>5. TaskType' /\ task'[r] = t /\ OnlyTask(r)
  BY <1>3, <1>4, SetTask
<1> QED
  BY <1>1, <1>5 DEF Task, SameTerms, SameInputs

(* And then whatever the file of the proof facts holds. *)
LEMMA ReadFactsEffect ==
    ASSUME TaskType, proof_facts \in [Sessions -> Requests \cup {NoRequest}],
           NEW r \in Requests, ReadFacts(r)
    PROVE  /\ TaskType' /\ OnlyTask(r) /\ SameTerms(r) /\ SameInputs(r)
           /\ task'[r].pc = "send" /\ task'[r].facts = proof_facts[task[r].session]
           /\ task'[r].tx_read = task[r].tx_read /\ task'[r].proof = task[r].proof
<1> DEFINE f == proof_facts[task[r].session]
           t == [task[r] EXCEPT !.pc = "send", !.facts = f]
<1>1. task[r] \in Task
  BY DEF TaskType
<1>2. f \in Requests \cup {NoRequest}
  BY TaskFields
<1>3. t \in Task
  <2> HIDE DEF f
  <2> QED
    BY <1>1, <1>2 DEF Task, Stages
<1>4. task' = [task EXCEPT ![r] = t]
  BY DEF ReadFacts
<1>5. TaskType' /\ task'[r] = t /\ OnlyTask(r)
  BY <1>3, <1>4, SetTask
<1> QED
  BY <1>1, <1>5 DEF Task, SameTerms, SameInputs

(* A retry of a submission changes only the attempt. *)
LEMMA RetryEffect ==
    ASSUME TaskType, NEW r \in Requests, Retry(r)
    PROVE  /\ TaskType' /\ OnlyTask(r) /\ SameTerms(r) /\ SameInputs(r) /\ SameProof(r)
           /\ task'[r].pc = task[r].pc
<1> DEFINE t == [task[r] EXCEPT !.attempt = @ + 1]
<1>1. task[r] \in Task /\ task[r].attempt \in 1..MaxAttempts
  BY TaskFields
<1>2. task[r].attempt + 1 \in 1..MaxAttempts
  BY <1>1, CounterAssumption DEF Retry
<1>3. t \in Task
  BY <1>1, <1>2 DEF Task
<1>4. task' = [task EXCEPT ![r] = t]
  BY DEF Retry
<1>5. TaskType' /\ task'[r] = t /\ OnlyTask(r)
  BY <1>3, <1>4, SetTask
<1> QED
  BY <1>1, <1>5 DEF Task, SameTerms, SameInputs, SameProof

(* A transaction is accepted, or changes its status. *)
LEMMA AcceptEffect ==
    ASSUME TxType, NEW r \in Requests, NEW n \in 0..MaxBlock, Accept(r, n)
    PROVE  /\ TxType' /\ OnlyTx(r)
           /\ tx'[r].status = "pending" /\ tx'[r].nonce = n /\ tx'[r].block = 0
<1> DEFINE t == [NoTx EXCEPT !.status = "pending", !.nonce = n]
<1>1. t \in Tx
  <2>1. "pending" \in TxStatus /\ 0 \in 0..MaxBlock
    BY CounterAssumption DEF TxStatus
  <2> QED
    BY <2>1 DEF NoTx, Tx
<1>2. tx' = [tx EXCEPT ![r] = t]
  BY DEF Accept
<1> QED
  BY <1>1, <1>2 DEF TxType, OnlyTx, NoTx

(* A change of a transaction's status changes nothing else. *)
LEMMA StatusEffect ==
    ASSUME TxType, NEW r \in Requests, NEW status \in TxStatus,
           tx' = [tx EXCEPT ![r].status = status]
    PROVE  /\ TxType' /\ OnlyTx(r)
           /\ tx'[r].status = status /\ tx'[r].nonce = tx[r].nonce
           /\ tx'[r].block = tx[r].block
<1> DEFINE t == [tx[r] EXCEPT !.status = status]
<1>1. tx[r] \in Tx
  BY DEF TxType
<1>2. t \in Tx
  BY <1>1 DEF Tx
<1>3. tx' = [tx EXCEPT ![r] = t]
  OBVIOUS
<1> QED
  BY <1>1, <1>2, <1>3 DEF TxType, OnlyTx, Tx

(* Inclusion gives a transaction its status and its block. *)
LEMMA LandEffect ==
    ASSUME TxType, NEW r \in Requests, NEW status \in TxStatus, NEW b \in 0..MaxBlock,
           tx' = [tx EXCEPT ![r].status = status, ![r].block = b]
    PROVE  /\ TxType' /\ OnlyTx(r)
           /\ tx'[r].status = status /\ tx'[r].nonce = tx[r].nonce /\ tx'[r].block = b
<1> DEFINE t == [tx[r] EXCEPT !.status = status, !.block = b]
<1>1. tx[r] \in Tx
  BY DEF TxType
<1>2. t \in Tx
  BY <1>1 DEF Tx
<1>3. tx' = [tx EXCEPT ![r] = t]
  OBVIOUS
<1> QED
  BY <1>1, <1>2, <1>3 DEF TxType, OnlyTx, Tx

-----------------------------------------------------------------------------
(* The chain.  A nonce is at most the number of its block, so that the bound on
   the blocks is one on the nonces. *)
ChainType ==
    /\ nonces \in Seq(1..MaxBlock)
    /\ Block \in 1..MaxBlock
    /\ \A b \in 1..Block : nonces[b] \in 1..b

(* Blocks are only added, and the account's nonce never decreases. *)
Grows ==
    /\ Block' \in Nat /\ Block <= Block'
    /\ \A b \in 1..Block : nonces'[b] = nonces[b]
    /\ Nonce' \in Nat /\ Nonce <= Nonce'

(* The numbers a chain consists of. *)
LEMMA ChainFacts ==
    ASSUME ChainType
    PROVE  /\ Block \in Nat /\ Block >= 1 /\ Block \in 0..MaxBlock
           /\ Nonce \in Nat /\ Nonce \in 1..Block /\ Nonce \in 0..MaxBlock
           /\ \A b \in 1..Block : nonces[b] \in 0..MaxBlock
<1>1. Block \in 1..MaxBlock /\ \A b \in 1..Block : nonces[b] \in 1..b
  BY DEF ChainType
<1> HIDE DEF Block
<1> QED
  BY <1>1, CounterAssumption DEF Nonce

(* The nonces get_nonce can answer with. *)
LEMMA NonceRange == ASSUME ChainType PROVE get_nonce \subseteq 0..MaxBlock + 1
<1>1. Latest \subseteq 1..Block
  BY DEF Latest
<1>2. /\ Nonce \in 0..MaxBlock /\ \A b \in 1..Block : nonces[b] \in 0..MaxBlock
  BY ChainFacts
<1>3. Nonce + 1 \in 0..MaxBlock + 1 /\ 0..MaxBlock \subseteq 0..MaxBlock + 1
  BY <1>2, CounterAssumption
<1>4. ASSUME NEW n \in get_nonce PROVE n = Nonce + 1 \/ \E b \in Latest : n = nonces[b]
  BY DEF get_nonce
<1> QED
  BY <1>1, <1>2, <1>3, <1>4

(* A step without a block leaves nonces and blocks as they were. *)
LEMMA ChainUnchanged ==
    ASSUME ChainType, UNCHANGED nonces
    PROVE  ChainType' /\ Grows /\ Block' = Block /\ Nonce' = Nonce
<1>1. Block' = Block /\ Nonce' = Nonce
  BY DEF Block, Nonce
<1>2. ChainType'
  BY <1>1 DEF ChainType
<1> QED
  BY <1>1, <1>2, ChainFacts DEF Grows

(* A new block has the nonce of the one before it, or the next. *)
LEMMA ChainExtended ==
    ASSUME ChainType, Block < MaxBlock, NEW n \in {Nonce, Nonce + 1},
           nonces' = Append(nonces, n)
    PROVE  /\ ChainType' /\ Grows /\ Block' = Block + 1 /\ Nonce' = n
<1>0. /\ nonces \in Seq(1..MaxBlock) /\ Block \in Nat /\ Block >= 1 /\ Nonce \in 1..Block
      /\ \A b \in 1..Block : nonces[b] \in 1..b
  BY ChainFacts DEF ChainType
<1>1. n \in 1..MaxBlock /\ n \in 1..(Block + 1)
  BY <1>0, CounterAssumption
<1>2. /\ nonces' \in Seq(1..MaxBlock) /\ Block' = Block + 1
      /\ \A b \in 1..Block : nonces'[b] = nonces[b]
      /\ nonces'[Block + 1] = n
  BY <1>0, <1>1 DEF Block
<1>3. Nonce' = n /\ Nonce <= n
  BY <1>0, <1>2 DEF Nonce
<1>4. Block' \in 1..MaxBlock
  BY <1>0, <1>2, CounterAssumption
<1>5. ASSUME NEW b \in 1..Block' PROVE nonces'[b] \in 1..b
  <2>1. b \in 1..Block \/ b = Block + 1
    BY <1>0, <1>2
  <2> QED
    BY <1>0, <1>1, <1>2, <2>1
<1>6. ChainType'
  BY <1>2, <1>4, <1>5 DEF ChainType
<1>7. Block' \in Nat /\ Block <= Block' /\ Nonce' \in Nat /\ Nonce <= Nonce'
  BY <1>0, <1>2, <1>3
<1> QED
  BY <1>2, <1>3, <1>6, <1>7 DEF Grows

(* Which steps write which variables. *)
Footprint ==
    /\ UNCHANGED nonces \/ OtherBlock \/ \E r \in Requests : Include(r)
    /\ UNCHANGED <<counter, landings>> \/ \E r \in Requests : Include(r)
    /\ \/ UNCHANGED session
       \/ \E r \in Requests : \/ StoreCounter(r) \/ InvokeSubmitted(r)
                              \/ InvokeConfirmed(r) \/ ProofIncluded(r)
    /\ UNCHANGED tx_file \/ \E r \in Requests : WriteTx(r)
    /\ UNCHANGED proof_file \/ \E r \in Requests : ProverWrites(r)
    /\ UNCHANGED proof_facts \/ \E r \in Requests : ProverWritesFacts(r)
    /\ \/ UNCHANGED rivals
       \/ \E r \in Requests, s \in Sessions, amount \in Amounts, calls \in Calls :
              ProveBlock(r, s, amount, calls)
    /\ \/ UNCHANGED lockQueue
       \/ \E r \in Requests : lockQueue' = Append(lockQueue, r) \/ Leave(r)

(* Every step keeps to the variables Footprint names. *)
LEMMA Writes == [Next]_vars => Footprint
<1>0. SUFFICES ASSUME [Next]_vars PROVE Footprint
  OBVIOUS
<1>1. ASSUME NEW r \in Requests, NEW s \in Sessions, Refused(r, s) PROVE Footprint
  BY <1>1 DEF Footprint, Refused, chainVars, fileVars
<1>2. ASSUME NEW r \in Requests, NEW s \in Sessions, DeployCounter(r, s) PROVE Footprint
  BY <1>2 DEF Footprint, DeployCounter, chainVars, fileVars
<1>3. ASSUME NEW r \in Requests, NEW s \in Sessions, InvokeIncrement(r, s) PROVE Footprint
  BY <1>3 DEF Footprint, InvokeIncrement, chainVars, fileVars
<1>4. ASSUME NEW r \in Requests, NEW s \in Sessions, SubmitProof(r, s) PROVE Footprint
  BY <1>4 DEF Footprint, SubmitProof, chainVars, fileVars
<1>5. ASSUME NEW r \in Requests, NEW s \in Sessions, NEW amount \in Amounts, NEW calls \in Calls,
             ProveBlock(r, s, amount, calls)
      PROVE  Footprint
  <2>1. UNCHANGED <<session, lockQueue, fileVars, chainVars>>
    BY <1>5 DEF ProveBlock
  <2> QED
    BY <1>5, <2>1 DEF Footprint, chainVars, fileVars
<1>6. ASSUME NEW r \in Requests, AcquireLock(r) PROVE Footprint
  BY <1>6 DEF Footprint, AcquireLock, chainVars, fileVars
<1>7. ASSUME NEW r \in Requests, SncastFailed(r) PROVE Footprint
  BY <1>7 DEF Footprint, SncastFailed, chainVars, fileVars
<1>8. ASSUME NEW r \in Requests, SncastDeployed(r) PROVE Footprint
  BY <1>8 DEF Footprint, SncastDeployed, chainVars, fileVars
<1>9. ASSUME NEW r \in Requests, DeployConfirmed(r) PROVE Footprint
  BY <1>9 DEF Footprint, DeployConfirmed, chainVars, fileVars
<1>10. ASSUME NEW r \in Requests, DeployUnconfirmed(r) PROVE Footprint
  BY <1>10 DEF Footprint, DeployUnconfirmed, chainVars, fileVars
<1>11. ASSUME NEW r \in Requests, StoreCounter(r) PROVE Footprint
  BY <1>11 DEF Footprint, StoreCounter, chainVars, fileVars
<1>12. ASSUME NEW r \in Requests, InvokeSubmitted(r) PROVE Footprint
  BY <1>12 DEF Footprint, InvokeSubmitted, chainVars, fileVars
<1>13. ASSUME NEW r \in Requests, InvokeError(r) PROVE Footprint
  BY <1>13 DEF Footprint, InvokeError, chainVars, fileVars
<1>14. ASSUME NEW r \in Requests, InvokeConfirmed(r) PROVE Footprint
  BY <1>14 DEF Footprint, InvokeConfirmed, chainVars, fileVars
<1>15. ASSUME NEW r \in Requests, InvokeUnconfirmed(r) PROVE Footprint
  BY <1>15 DEF Footprint, InvokeUnconfirmed, chainVars, fileVars
<1>16. ASSUME NEW r \in Requests, SubmitNonce(r) PROVE Footprint
  BY <1>16 DEF Footprint, SubmitNonce, chainVars, fileVars
<1>17. ASSUME NEW r \in Requests, ProveNonce(r) PROVE Footprint
  BY <1>17 DEF Footprint, ProveNonce, chainVars, fileVars
<1>18. ASSUME NEW r \in Requests, WriteTx(r) PROVE Footprint
  BY <1>18 DEF Footprint, WriteTx, chainVars, fileVars
<1>19. ASSUME NEW r \in Requests, ProverReads(r) PROVE Footprint
  BY <1>19 DEF Footprint, ProverReads, chainVars, fileVars
<1>20. ASSUME NEW r \in Requests, ProverWrites(r) PROVE Footprint
  BY <1>20 DEF Footprint, ProverWrites, chainVars, fileVars
<1>21. ASSUME NEW r \in Requests, ProverFails(r) PROVE Footprint
  BY <1>21 DEF Footprint, ProverFails, chainVars, fileVars
<1>22. ASSUME NEW r \in Requests, ReadProof(r) PROVE Footprint
  BY <1>22 DEF Footprint, ReadProof, chainVars, fileVars
<1>23. ASSUME NEW r \in Requests, SendAccepted(r) PROVE Footprint
  BY <1>23 DEF Footprint, SendAccepted, chainVars, fileVars
<1>24. ASSUME NEW r \in Requests, SendRefused(r) PROVE Footprint
  BY <1>24 DEF Footprint, SendRefused, chainVars, fileVars
<1>25. ASSUME NEW r \in Requests, ProofIncluded(r) PROVE Footprint
  BY <1>25 DEF Footprint, ProofIncluded, chainVars, fileVars
<1>26. ASSUME NEW r \in Requests, Fails(r) PROVE Footprint
  BY <1>26 DEF Footprint, Fails, chainVars, fileVars
<1>27. ASSUME NEW r \in Requests, Verify(r) PROVE Footprint
  BY <1>27 DEF Footprint, Verify, chainVars, fileVars
<1>28. ASSUME NEW r \in Requests, ClientDisconnect(r) PROVE Footprint
  BY <1>28 DEF Footprint, ClientDisconnect, chainVars, fileVars
<1>29. ASSUME NEW r \in Requests, SncastSubmit(r) PROVE Footprint
  BY <1>29 DEF Footprint, SncastSubmit, chainVars, fileVars
<1>30. ASSUME NEW r \in Requests, SncastFail(r) PROVE Footprint
  BY <1>30 DEF Footprint, SncastFail, chainVars, fileVars
<1>31. ASSUME NEW r \in Requests, NodeAcceptsInvoke(r) PROVE Footprint
  BY <1>31 DEF Footprint, NodeAcceptsInvoke, chainVars, fileVars
<1>32. ASSUME NEW r \in Requests, Include(r) PROVE Footprint
  BY <1>32 DEF Footprint, Include, chainVars, fileVars
<1>33. ASSUME NEW r \in Requests, Drop(r) PROVE Footprint
  BY <1>33 DEF Footprint, Drop, chainVars, fileVars
<1>34. ASSUME OtherBlock PROVE Footprint
  BY <1>34 DEF Footprint, OtherBlock, chainVars, fileVars
<1>35. CASE UNCHANGED vars
  BY <1>35 DEF Footprint, vars, chainVars, fileVars
<1>36. ASSUME NEW r \in Requests, ProverWritesFacts(r) PROVE Footprint
  BY <1>36 DEF Footprint, ProverWritesFacts, chainVars, fileVars
<1>37. ASSUME NEW r \in Requests, ReadFacts(r) PROVE Footprint
  BY <1>37 DEF Footprint, ReadFacts, chainVars, fileVars
<1> QED
  BY <1>0, <1>1, <1>2, <1>3, <1>4, <1>5, <1>6, <1>7, <1>8, <1>9, <1>10, <1>11, <1>12,
     <1>13, <1>14, <1>15, <1>16, <1>17, <1>18, <1>19, <1>20, <1>21, <1>22, <1>23, <1>24, <1>25,
     <1>26, <1>27, <1>28, <1>29, <1>30, <1>31, <1>32, <1>33, <1>34, <1>35, <1>36,
     <1>37 DEF Next, Handler, Environment

(* Blocks are only added and nonces never fall. *)
LEMMA ChainGrows == ChainType /\ [Next]_vars => ChainType' /\ Grows
<1>1. SUFFICES ASSUME ChainType, [Next]_vars PROVE ChainType' /\ Grows
  OBVIOUS
<1>2. UNCHANGED nonces \/ OtherBlock \/ \E r \in Requests : Include(r)
  BY <1>1, Writes DEF Footprint
<1>3. \/ UNCHANGED nonces
      \/ Block < MaxBlock /\ \E n \in {Nonce, Nonce + 1} : nonces' = Append(nonces, n)
  BY <1>2 DEF OtherBlock, Include
<1> QED
  BY <1>1, <1>3, ChainUnchanged, ChainExtended

-----------------------------------------------------------------------------
(* One request and its transaction. *)

Landed == {"ok", "reverted"}

(* The stages in which a handler has given no transaction to the node yet. *)
Unsent == {"idle", "lock", "nonce", "write", "prove", "proving", "facts", "read", "read_facts",
           "panicked"}

(* What a handler knows at a stage. *)
Stage(r) ==
    LET pc == task[r].pc
        op == task[r].op
    IN
    /\ op = "none" <=> pc = "idle"
    /\ pc \in {"lock", "sncast", "next_block"} => op = "deploy"
    /\ pc = "call" => op = "invoke"
    /\ pc \in {"nonce", "send"} => op \in {"submit", "prove"}
    /\ pc \in {"write", "prove", "proving", "facts", "read", "read_facts", "verify"} => op = "prove"
    /\ task[r].reference_block <= Block
    /\ op = "prove" /\ (pc \notin Replies \/ tx[r].status # "none") =>
           task[r].reference_block # 0 /\ task[r].contract # NoRequest

(* The life of a transaction: it is sent by the stages that send, with the
   nonce its handler fetched, and lands once; then the account's nonce is past
   its own. *)
Life(r) ==
    LET pc == task[r].pc
        op == task[r].op
        status == tx[r].status
    IN
    /\ pc \in Unsent => status = "none"
    /\ pc \in {"next_block", "verify"} => status = "ok"
    /\ op = "prove" /\ pc = "ok" => status = "ok"
    /\ status \in {"running", "failed"} => op = "deploy"
    /\ landings[r] = IF status \in Landed THEN 1 ELSE 0
    /\ op \in {"submit", "prove"} /\ status # "none" => tx[r].nonce = task[r].nonce
    /\ tx[r].block <= Block
    /\ status \in Landed => tx[r].block >= 2
    /\ status \in Landed /\ op # "invoke" =>
           tx[r].nonce < Nonce /\ tx[r].nonce = nonces[tx[r].block - 1]

(* A prove-block's nonce is the account's at its reference block from the
   moment it has one. *)
AtReference(r) ==
    /\ task[r].op = "prove"
    /\ \/ task[r].pc \in {"write", "prove", "proving", "facts", "read", "read_facts", "send"}
       \/ tx[r].status # "none"
    => task[r].nonce = nonces[task[r].reference_block]

Local(r) == Stage(r) /\ Life(r) /\ AtReference(r)

OnlyLandings(r) == \A q \in Requests : q # r => landings'[q] = landings[q]

(* What is settled stays: the terms of a request that started, and a transaction
   that landed. *)
Keeps(r) ==
    /\ task[r].op # "none" => SameTerms(r)
    /\ tx[r].status \in Landed => tx'[r] = tx[r]

Running(r) == task[r].op = "prove" /\ task[r].pc \notin Replies

(* Where a cycle's stage, the transaction its prover reads, its proof and the
   proof's facts come from. *)
Origins(r) ==
    /\ Running(r)' => \/ Running(r)
                      \/ \E s \in Sessions, amount \in Amounts, calls \in Calls :
                             ProveBlock(r, s, amount, calls)
    /\ task'[r].pc = "idle" => task[r].pc = "idle"
    /\ task'[r].pc = "prove" => task[r].pc = "prove" \/ WriteTx(r)
    /\ task'[r].pc = "proving" =>
           (task[r].pc = "proving" /\ task'[r].tx_read = task[r].tx_read) \/ ProverReads(r)
    /\ task'[r].pc = "facts" =>
           \/ task[r].pc = "facts" /\ task'[r].tx_read = task[r].tx_read
           \/ ProverWrites(r) /\ task'[r].tx_read = task[r].tx_read
    /\ task'[r].pc = "read" => task[r].pc = "read" \/ ProverWritesFacts(r)
    /\ task'[r].pc = "read_facts" => task[r].pc = "read_facts" \/ ReadProof(r)
    /\ task'[r].proof \in {NoRequest, task[r].proof} \/ ReadProof(r)
    /\ task'[r].facts \in {NoRequest, task[r].facts} \/ ReadFacts(r)

(* What a step of r has to establish. *)
StepOf(r) ==
    /\ TaskType' /\ TxType'
    /\ OnlyTask(r) /\ OnlyTx(r) /\ OnlyLandings(r)
    /\ Local(r)' /\ Keeps(r) /\ Origins(r)

(* A request that did not step, on a chain that grew. *)
LEMMA Bystander ==
    ASSUME TaskType, TxType, ChainType, Grows, NEW q \in Requests, Local(q),
           task'[q] = task[q], tx'[q] = tx[q], landings'[q] = landings[q]
    PROVE  Local(q)'
<1> DEFINE t == task[q]
           x == tx[q]
<1>1. t.reference_block \in Nat /\ x.block \in Nat /\ x.nonce \in Int
  BY TaskFields DEF TxType, Tx
<1>2. Block \in Nat /\ Block' \in Nat /\ Block <= Block'
  BY ChainFacts DEF Grows
<1>3. Nonce \in Nat /\ Nonce' \in Nat /\ Nonce <= Nonce'
  BY ChainFacts DEF Grows
<1>4. Stage(q)'
  BY <1>1, <1>2 DEF Local, Stage
<1>5. Life(q)'
  <2>1. ASSUME x.status \in Landed, t.op # "invoke"
        PROVE  x.nonce < Nonce' /\ x.nonce = nonces'[x.block - 1]
    <3>1. x.nonce < Nonce /\ x.nonce = nonces[x.block - 1] /\ x.block - 1 \in 1..Block
      BY <1>1, <1>2, <2>1 DEF Local, Life
    <3> QED
      BY <1>1, <1>3, <3>1 DEF Grows
  <2> QED
    BY <1>1, <1>2, <2>1 DEF Local, Life
<1>6. AtReference(q)'
  <2>1. ASSUME t.op = "prove",
               t.pc \in {"write", "prove", "proving", "facts", "read", "read_facts", "send"} \/ x.status # "none"
        PROVE  t.nonce = nonces[t.reference_block] /\ t.reference_block \in 1..Block
    BY <1>1, <1>2, <2>1 DEF Local, Stage, AtReference, Replies
  <2> QED
    BY <2>1 DEF AtReference, Grows
<1> QED
  BY <1>4, <1>5, <1>6 DEF Local

(* A handler that ends leaves its transaction as it is. *)
LEMMA Ends ==
    ASSUME TaskType, TxType, ChainType, NEW r \in Requests, Local(r),
           task[r].pc # "idle",
           NEW stage \in {"ok", "error", "cancelled"}, Goto(r, stage), UNCHANGED chainVars,
           stage = "ok" => task[r].op # "prove"
    PROVE  StepOf(r)
<1>1. stage \in Stages
  BY DEF Stages, Replies
<1>2. /\ TaskType' /\ OnlyTask(r)
      /\ task'[r].pc = stage /\ SameTerms(r) /\ SameInputs(r) /\ SameProof(r)
  BY <1>1, GotoEffect
<1>3. TxType' /\ OnlyTx(r) /\ OnlyLandings(r) /\ tx'[r] = tx[r] /\ landings'[r] = landings[r]
  BY DEF chainVars, TxType, OnlyTx, OnlyLandings
<1>4. Block' = Block /\ Nonce' = Nonce /\ nonces' = nonces
  BY ChainUnchanged DEF chainVars
<1>5. Local(r)'
  BY <1>2, <1>3, <1>4 DEF Local, Stage, Life, AtReference, SameTerms, SameInputs, Unsent, Replies
<1>6. Keeps(r) /\ Origins(r)
  BY <1>2, <1>3 DEF Keeps, Origins, Running, SameTerms, SameProof, Replies
<1> QED
  BY <1>2, <1>3, <1>5, <1>6 DEF StepOf

(* A handler goes on without touching its transaction. *)
LEMMA Moves ==
    ASSUME TaskType, TxType, ChainType, NEW r \in Requests, Local(r),
           NEW stage \in Stages, Goto(r, stage), UNCHANGED chainVars,
           stage \notin Replies \cup {"idle", "lock", "call", "nonce", "send"},
           stage \in {"sncast", "next_block"} => task[r].op = "deploy",
           stage \in {"write", "prove", "proving", "facts", "read", "read_facts", "verify"} =>
               task[r].op = "prove",
           stage \in Unsent => /\ tx[r].status = "none"
                              /\ task[r].nonce = nonces[task[r].reference_block],
           stage \in {"next_block", "verify"} => tx[r].status = "ok",
           task[r].pc \notin Replies \cup {"idle"}, stage \notin {"proving", "read_facts"},
           stage = "prove" => WriteTx(r), stage = "facts" => ProverWrites(r),
           stage = "read" => ProverWritesFacts(r)
    PROVE  StepOf(r)
<1>1. /\ TaskType' /\ OnlyTask(r)
      /\ task'[r].pc = stage /\ SameTerms(r) /\ SameInputs(r) /\ SameProof(r)
  BY GotoEffect
<1>2. TxType' /\ OnlyTx(r) /\ OnlyLandings(r) /\ tx'[r] = tx[r] /\ landings'[r] = landings[r]
  BY DEF chainVars, TxType, OnlyTx, OnlyLandings
<1>3. Block' = Block /\ Nonce' = Nonce /\ nonces' = nonces
  BY ChainUnchanged DEF chainVars
<1>4. Stage(r)'
  BY <1>1, <1>2, <1>3 DEF Local, Stage, SameTerms, SameInputs, Unsent, Replies
<1>5. Life(r)' /\ AtReference(r)'
  BY <1>1, <1>2, <1>3 DEF Local, Life, AtReference, SameTerms, SameInputs, Unsent, Replies
<1>6. Keeps(r) /\ Origins(r)
  BY <1>1, <1>2 DEF Keeps, Origins, Running, SameTerms, SameProof
<1> QED
  BY <1>1, <1>2, <1>4, <1>5, <1>6 DEF StepOf, Local

(* A handler starts, with no transaction. *)
LEMMA Starts ==
    ASSUME TaskType, TxType, ChainType, session \in [Sessions -> SessionState],
           NEW r \in Requests, Local(r), NEW s \in Sessions,
           NEW op \in {"deploy", "invoke", "submit", "prove"},
           NEW stage \in {"error", "lock", "call", "nonce"},
           stage = "lock" => op = "deploy", stage = "call" => op = "invoke",
           stage = "nonce" => op = "submit",
           task[r].pc = "idle", Start(r, s, op, stage), UNCHANGED chainVars
    PROVE  StepOf(r)
<1>1. stage \in Stages
  BY DEF Stages, Replies
<1>2. /\ TaskType' /\ OnlyTask(r)
      /\ task'[r].pc = stage /\ task'[r].op = op /\ task'[r].reference_block = 0
      /\ task'[r].proof = NoRequest /\ task'[r].facts = NoRequest
  BY <1>1, StartEffect
<1>3. TxType' /\ OnlyTx(r) /\ OnlyLandings(r) /\ tx'[r] = tx[r] /\ landings'[r] = landings[r]
  BY DEF chainVars, TxType, OnlyTx, OnlyLandings
<1>4. Block' = Block /\ Nonce' = Nonce /\ nonces' = nonces
  BY ChainUnchanged DEF chainVars
<1>5. tx[r].status = "none"
  BY DEF Local, Life, Unsent
<1>6. Stage(r)'
  BY <1>2, <1>3, <1>4, <1>5, ChainFacts DEF Stage, Replies
<1>7. Life(r)' /\ AtReference(r)'
  BY <1>2, <1>3, <1>4, <1>5 DEF Local, Life, AtReference, Landed
<1>8. Keeps(r)
  BY <1>3 DEF Keeps, Local, Stage
<1>9. Origins(r)
  BY <1>2 DEF Origins, Running, Replies
<1> QED
  BY <1>2, <1>3, <1>6, <1>7, <1>8, <1>9 DEF StepOf, Local

(* prove_block begins with a reference block that exists. *)
LEMMA ProveStarts ==
    ASSUME TaskType, TxType, ChainType, session \in [Sessions -> SessionState],
           NEW r \in Requests, Local(r), NEW s \in Sessions,
           session[s].deploy_block <= Block, session[s].last_reference_block <= Block,
           NEW amount \in Amounts, NEW calls \in Calls, ProveBlock(r, s, amount, calls)
    PROVE  StepOf(r)
<1>1. /\ TaskType' /\ OnlyTask(r)
      /\ task'[r].pc \in {"nonce", "panicked"} /\ task'[r].op = "prove"
      /\ task'[r].contract = session[s].contract
      /\ task'[r].reference_block \in
             {session[s].last_reference_block, session[s].deploy_block} \ {0}
      /\ task'[r].proof = NoRequest /\ task'[r].facts = NoRequest
  BY ProveBlockEffect
<1>2. UNCHANGED chainVars /\ task[r].pc = "idle" /\ session[s].contract # NoRequest
  BY DEF ProveBlock
<1>3. TxType' /\ OnlyTx(r) /\ OnlyLandings(r) /\ tx'[r] = tx[r] /\ landings'[r] = landings[r]
  BY <1>2 DEF chainVars, TxType, OnlyTx, OnlyLandings
<1>4. Block' = Block /\ Nonce' = Nonce /\ nonces' = nonces
  BY <1>2, ChainUnchanged DEF chainVars
<1>5. tx[r].status = "none"
  BY <1>2 DEF Local, Life, Unsent
<1>6. Stage(r)'
  BY <1>1, <1>2, <1>3, <1>4, <1>5 DEF Stage
<1>7. Life(r)' /\ AtReference(r)'
  BY <1>1, <1>3, <1>4, <1>5 DEF Local, Life, AtReference, Landed
<1>8. Keeps(r)
  BY <1>2, <1>3 DEF Keeps, Local, Stage
<1>9. Origins(r)
  <2>1. \E s1 \in Sessions, a1 \in Amounts, c1 \in Calls : ProveBlock(r, s1, a1, c1)
    OBVIOUS
  <2> QED
    BY <1>1, <2>1 DEF Origins
<1> QED
  BY <1>1, <1>3, <1>6, <1>7, <1>8, <1>9 DEF StepOf, Local

(* A handler learns the nonce, the content of a file, or that it must retry. *)
LEMMA Learns ==
    ASSUME TaskType, TxType, ChainType, NEW r \in Requests, Local(r),
           UNCHANGED chainVars, TaskType', OnlyTask(r), SameTerms(r),
           task[r].pc \notin Replies \cup {"idle"},
           task'[r].reference_block = task[r].reference_block,
           task'[r].pc \in {"write", "proving", "read_facts", "send"},
           task'[r].pc = "send" => task[r].op \in {"submit", "prove"},
           task'[r].pc \in {"write", "proving", "read_facts"} => task[r].op = "prove",
           task'[r].pc \in Unsent => tx[r].status = "none",
           tx[r].status # "none" => task'[r].nonce = task[r].nonce,
           task[r].op = "prove" => task'[r].nonce = nonces[task[r].reference_block],
           task'[r].pc = "proving" => ProverReads(r),
           task'[r].pc = "read_facts" => ReadProof(r),
           task'[r].proof = task[r].proof \/ ReadProof(r),
           task'[r].facts = task[r].facts \/ ReadFacts(r)
    PROVE  StepOf(r)
<1>1. TxType' /\ OnlyTx(r) /\ OnlyLandings(r) /\ tx'[r] = tx[r] /\ landings'[r] = landings[r]
  BY DEF chainVars, TxType, OnlyTx, OnlyLandings
<1>2. Block' = Block /\ Nonce' = Nonce /\ nonces' = nonces
  BY ChainUnchanged DEF chainVars
<1>3. Stage(r)'
  BY <1>1, <1>2, ChainFacts DEF Local, Stage, SameTerms, Replies
<1>4. Life(r)' /\ AtReference(r)'
  BY <1>1, <1>2 DEF Local, Life, AtReference, SameTerms
<1>5. Keeps(r) /\ Origins(r)
  BY <1>1 DEF Keeps, Origins, Running, SameTerms
<1> QED
  BY <1>1, <1>3, <1>4, <1>5 DEF StepOf, Local

(* The transaction of a handler that does not move is accepted, fails or is
   dropped; it has not landed. *)
LEMMA Sent ==
    ASSUME TaskType, TxType, ChainType, NEW r \in Requests, Local(r),
           UNCHANGED <<task, nonces, landings>>, TxType', OnlyTx(r),
           task[r].pc \notin Unsent, tx[r].status \notin Landed,
           task[r].op = "prove" => tx[r].status # "none",
           tx'[r].status \in {"pending", "failed", "dropped"},
           tx'[r].status = "failed" => task[r].op = "deploy",
           task[r].op \in {"submit", "prove"} => tx'[r].nonce = task[r].nonce,
           tx'[r].block \in {0, tx[r].block}
    PROVE  StepOf(r)
<1>1. /\ TaskType' /\ OnlyTask(r) /\ OnlyLandings(r)
      /\ task'[r] = task[r] /\ landings'[r] = landings[r]
  BY DEF TaskType, OnlyTask, OnlyLandings
<1>2. Block' = Block /\ Nonce' = Nonce /\ nonces' = nonces
  BY ChainUnchanged
<1>3. Stage(r)'
  BY <1>1, <1>2 DEF Local, Stage
<1>4. /\ ~(task[r].pc \in {"next_block", "verify"}) /\ ~(tx'[r].status \in Landed)
      /\ ~(task[r].op = "prove" /\ task[r].pc = "ok")
  BY DEF Local, Life, Landed
<1>5. Life(r)'
  BY <1>1, <1>2, <1>4, ChainFacts DEF Local, Life
<1>6. AtReference(r)'
  BY <1>1, <1>2 DEF Local, AtReference
<1>7. Keeps(r) /\ Origins(r)
  BY <1>1 DEF Keeps, Origins, Running, SameTerms
<1> QED
  BY <1>1, <1>3, <1>5, <1>6, <1>7 DEF StepOf, Local

-----------------------------------------------------------------------------
(* Every step is one of a single request, and leaves that request in order. *)

SessionType ==
    /\ session \in [Sessions -> SessionState]
    /\ \A s \in Sessions : /\ session[s].deploy_block <= Block
                           /\ session[s].last_reference_block <= Block

FileType ==
    /\ tx_file \in [Sessions -> Requests \cup {NoRequest}]
    /\ proof_file \in [Sessions -> Requests \cup {NoRequest}]
    /\ proof_facts \in [Sessions -> Requests \cup {NoRequest}]

CountType ==
    /\ counter \in [Requests -> Nat]
    /\ landings \in [Requests -> Nat]

Base ==
    /\ TaskType /\ TxType /\ ChainType /\ SessionType /\ FileType /\ CountType
    /\ \A r \in Requests : Local(r)

(* The steps that accept a transaction: it had not landed, because its nonce is
   the account's current one. *)
LEMMA SendAcceptedStep ==
    ASSUME Base, NEW r \in Requests, SendAccepted(r)
    PROVE  StepOf(r)
<1>1. /\ TaskType /\ TxType /\ ChainType /\ Local(r)
      /\ task[r].pc = "send" /\ task[r].nonce = Nonce
      /\ task[r].op \in {"submit", "prove"}
  BY DEF Base, SendAccepted, NonceFree, Local, Stage
<1>2. tx[r].status \notin Landed /\ landings[r] = 0
  BY <1>1, ChainFacts DEF Local, Life, Landed
<1>3. /\ TxType' /\ OnlyTx(r)
      /\ tx'[r].status = "pending" /\ tx'[r].nonce = task[r].nonce /\ tx'[r].block = 0
  <2>1. Accept(r, task[r].nonce)
    BY DEF SendAccepted
  <2> QED
    BY <1>1, <2>1, ChainFacts, AcceptEffect
<1>4. UNCHANGED <<nonces, landings>>
  BY DEF SendAccepted
<1>5. Block' = Block /\ Nonce' = Nonce /\ nonces' = nonces
  BY <1>1, <1>4, ChainUnchanged
<1>6. /\ TaskType' /\ OnlyTask(r) /\ SameTerms(r) /\ SameInputs(r) /\ SameProof(r)
      /\ task'[r].pc \in {"confirm", "ok", "send", "error"}
      /\ task[r].op = "prove" => task'[r].pc # "ok"
  <2>1. Respond(r)
    BY DEF SendAccepted
  <2>2. CASE Retry(r)
    BY <1>1, <2>2, RetryEffect
  <2>3. CASE \E stage \in {"confirm", "ok", "error"} :
                 Goto(r, stage) /\ (task[r].op = "prove" => stage # "ok")
    <3>1. PICK stage \in {"confirm", "ok", "error"} :
              Goto(r, stage) /\ (task[r].op = "prove" => stage # "ok")
      BY <2>3
    <3>2. stage \in Stages
      BY DEF Stages, Replies
    <3> QED
      BY <1>1, <3>1, <3>2, GotoEffect
  <2> QED
    BY <2>1, <2>2, <2>3 DEF Respond
<1>7. Stage(r)'
  BY <1>1, <1>5, <1>6 DEF Local, Stage, SameTerms, SameInputs, Replies
<1>8. Life(r)'
  BY <1>1, <1>2, <1>3, <1>4, <1>5, <1>6, ChainFacts DEF Life, SameTerms, SameInputs, Unsent, Landed
<1>9. AtReference(r)'
  BY <1>1, <1>5, <1>6 DEF Local, AtReference, SameTerms, SameInputs
<1>10. OnlyLandings(r)
  BY <1>4 DEF OnlyLandings
<1>11. Keeps(r) /\ Origins(r)
  BY <1>1, <1>2, <1>6 DEF Keeps, Origins, Running, SameTerms, SameProof, Replies
<1> QED
  BY <1>3, <1>6, <1>7, <1>8, <1>9, <1>10, <1>11 DEF StepOf, Local

(* Taking the sncast lock moves only the request that takes it. *)
LEMMA AcquireLockStep ==
    ASSUME Base, NEW r \in Requests, AcquireLock(r)
    PROVE  StepOf(r)
<1>1. /\ TaskType /\ TxType /\ ChainType /\ Local(r)
      /\ task[r].pc = "lock" /\ task[r].op = "deploy" /\ tx[r].status = "none"
  BY DEF Base, AcquireLock, Local, Stage, Life, Unsent
<1>2. /\ TaskType' /\ OnlyTask(r) /\ SameTerms(r) /\ SameInputs(r) /\ SameProof(r)
      /\ task'[r].pc = "sncast"
  <2>1. "sncast" \in Stages /\ Goto(r, "sncast")
    BY DEF Stages, AcquireLock
  <2> QED
    BY <1>1, <2>1, GotoEffect
<1>3. /\ TxType' /\ OnlyTx(r)
      /\ tx'[r].status = "running" /\ tx'[r].block = tx[r].block
  <2>1. "running" \in TxStatus /\ tx' = [tx EXCEPT ![r].status = "running"]
    BY DEF TxStatus, AcquireLock
  <2> QED
    BY <1>1, <2>1, StatusEffect
<1>4. UNCHANGED <<nonces, landings>>
  BY DEF AcquireLock
<1>5. Block' = Block /\ Nonce' = Nonce /\ nonces' = nonces
  BY <1>1, <1>4, ChainUnchanged
<1>6. Stage(r)'
  BY <1>1, <1>2, <1>5 DEF Local, Stage, SameTerms, SameInputs
<1>7. Life(r)' /\ AtReference(r)'
  BY <1>1, <1>2, <1>3, <1>4, <1>5 DEF Local, Life, AtReference, SameTerms, SameInputs, Unsent, Landed
<1>8. OnlyLandings(r)
  BY <1>4 DEF OnlyLandings
<1>9. Keeps(r) /\ Origins(r)
  BY <1>1, <1>2 DEF Keeps, Origins, Running, SameTerms, SameProof, Landed
<1> QED
  BY <1>2, <1>3, <1>6, <1>7, <1>8, <1>9 DEF StepOf, Local

(* The one step in which a transaction lands: the account's nonce, which was
   its own, moves on. *)
LEMMA IncludeStep ==
    ASSUME Base, NEW r \in Requests, Include(r)
    PROVE  StepOf(r)
<1>1. /\ TaskType /\ TxType /\ ChainType /\ Local(r)
      /\ tx[r].status = "pending" /\ Block < MaxBlock
      /\ landings \in [Requests -> Nat] /\ landings[r] = 0
  BY DEF Base, Include, Local, Life, Landed, CountType
<1>2. /\ Grows /\ Block' = Block + 1
      /\ task[r].op # "invoke" => tx[r].nonce = Nonce /\ Nonce' = Nonce + 1
  BY <1>1, ChainExtended DEF Include
<1>3. PICK status \in Landed :
          tx' = [tx EXCEPT ![r].status = status, ![r].block = Block + 1]
  BY DEF Include, Landed
<1>4. status \in TxStatus /\ Block + 1 \in 0..MaxBlock
  BY <1>1, ChainFacts, CounterAssumption DEF TxStatus, Landed
<1>5. /\ TxType' /\ OnlyTx(r)
      /\ tx'[r].status = status /\ tx'[r].nonce = tx[r].nonce /\ tx'[r].block = Block + 1
  BY <1>1, <1>3, <1>4, LandEffect
<1>6. /\ OnlyLandings(r) /\ landings'[r] = 1
  BY <1>1 DEF Include, OnlyLandings
<1>7. TaskType' /\ OnlyTask(r) /\ task'[r] = task[r]
  BY <1>1 DEF Include, TaskType, OnlyTask
<1>8. Block \in Nat /\ Block >= 1 /\ Nonce \in Nat /\ task[r].reference_block \in Nat
  BY <1>1, ChainFacts, TaskFields
<1>9. Stage(r)'
  BY <1>1, <1>2, <1>7, <1>8 DEF Local, Stage, Replies
<1>10. Life(r)'
  <2>1. nonces'[Block] = Nonce
    BY <1>2, <1>8 DEF Grows, Nonce
  <2>2. task[r].pc \notin Unsent /\ task[r].pc \notin {"next_block", "verify"}
    BY <1>1 DEF Local, Life
  <2>3. status # "running" /\ status # "failed" /\ status \in Landed
    BY DEF Landed
  <2>4. (Block + 1) - 1 = Block /\ Block + 1 >= 2
    BY <1>8
  <2> QED
    BY <1>1, <1>2, <1>5, <1>6, <1>7, <1>8, <2>1, <2>2, <2>3, <2>4 DEF Local, Life
<1>11. AtReference(r)'
  <2>1. ASSUME task[r].op = "prove"
        PROVE  /\ task[r].nonce = nonces[task[r].reference_block]
               /\ task[r].reference_block \in 1..Block
    BY <1>1, <1>8, <2>1 DEF Local, Stage, AtReference
  <2> QED
    BY <1>2, <1>7, <2>1 DEF AtReference, Grows
<1>12. Keeps(r) /\ Origins(r)
  BY <1>1, <1>7 DEF Keeps, Origins, Running, SameTerms, Landed
<1> QED
  BY <1>5, <1>6, <1>7, <1>9, <1>10, <1>11, <1>12 DEF StepOf, Local

(* The steps of one request, in the order of Next. *)
LEMMA RequestSteps ==
    ASSUME Base, NEW r \in Requests, NEW s \in Sessions
    PROVE  /\ Refused(r, s) => StepOf(r)
           /\ DeployCounter(r, s) => StepOf(r)
           /\ InvokeIncrement(r, s) => StepOf(r)
           /\ SubmitProof(r, s) => StepOf(r)
           /\ \A amount \in Amounts, calls \in Calls : ProveBlock(r, s, amount, calls) => StepOf(r)
<1>0. /\ TaskType /\ TxType /\ ChainType /\ session \in [Sessions -> SessionState] /\ Local(r)
      /\ session[s].deploy_block <= Block /\ session[s].last_reference_block <= Block
  BY DEF Base, SessionType
<1>1. ASSUME Refused(r, s) PROVE StepOf(r)
  <2>1. PICK op \in {"invoke", "submit", "prove"} : Start(r, s, op, "error")
    BY <1>1 DEF Refused
  <2>2. task[r].pc = "idle" /\ UNCHANGED chainVars
    BY <1>1 DEF Refused
  <2> QED
    BY <1>0, <2>1, <2>2, Starts
<1>2. ASSUME DeployCounter(r, s) PROVE StepOf(r)
  <2>1. task[r].pc = "idle" /\ UNCHANGED chainVars /\ Start(r, s, "deploy", "lock")
    BY <1>2 DEF DeployCounter
  <2> QED
    BY <1>0, <2>1, Starts
<1>3. ASSUME InvokeIncrement(r, s) PROVE StepOf(r)
  <2>1. task[r].pc = "idle" /\ UNCHANGED chainVars /\ Start(r, s, "invoke", "call")
    BY <1>3 DEF InvokeIncrement
  <2> QED
    BY <1>0, <2>1, Starts
<1>4. ASSUME SubmitProof(r, s) PROVE StepOf(r)
  <2>1. task[r].pc = "idle" /\ UNCHANGED chainVars /\ Start(r, s, "submit", "nonce")
    BY <1>4 DEF SubmitProof
  <2> QED
    BY <1>0, <2>1, Starts
<1>5. ASSUME NEW amount \in Amounts, NEW calls \in Calls, ProveBlock(r, s, amount, calls)
      PROVE  StepOf(r)
  BY <1>0, <1>5, ProveStarts
<1> QED
  BY <1>1, <1>2, <1>3, <1>4, <1>5

(* The steps with which a request ends. *)
LEMMA EndSteps ==
    ASSUME Base, NEW r \in Requests,
           \/ SncastFailed(r) \/ DeployUnconfirmed(r) \/ StoreCounter(r) \/ InvokeError(r)
           \/ InvokeConfirmed(r) \/ InvokeUnconfirmed(r) \/ ProverFails(r) \/ Fails(r)
           \/ ClientDisconnect(r)
    PROVE  StepOf(r)
<1>0. TaskType /\ TxType /\ ChainType /\ Local(r)
  BY DEF Base
<1>1. /\ task[r].pc # "idle" /\ UNCHANGED chainVars
      /\ \E stage \in {"ok", "error", "cancelled"} :
             Goto(r, stage) /\ (stage = "ok" => task[r].op # "prove")
  <2>1. ClientDisconnect(r) => task[r].pc # "idle"
    BY <1>0 DEF ClientDisconnect, Local, Stage
  <2>2. StoreCounter(r) => task[r].op # "prove"
    BY <1>0 DEF StoreCounter, Local, Stage
  <2> QED
    BY <2>1, <2>2 DEF SncastFailed, DeployUnconfirmed, StoreCounter, InvokeError, InvokeConfirmed,
                InvokeUnconfirmed, ProverFails, Fails, ClientDisconnect
<1> QED
  BY <1>0, <1>1, Ends

(* The steps with which a request moves on without reading anything. *)
LEMMA MoveSteps ==
    ASSUME Base, NEW r \in Requests,
           \/ SncastDeployed(r) \/ DeployConfirmed(r) \/ InvokeSubmitted(r) \/ WriteTx(r)
           \/ ProverWrites(r) \/ ProverWritesFacts(r) \/ ProofIncluded(r)
    PROVE  StepOf(r)
<1>0. TaskType /\ TxType /\ ChainType /\ Local(r)
  BY DEF Base
<1>1. /\ UNCHANGED chainVars
      /\ \/ /\ Goto(r, "confirm") /\ task[r].pc \in {"sncast", "call"}
         \/ /\ Goto(r, "next_block") /\ task[r].pc = "confirm" /\ task[r].op = "deploy"
            /\ tx[r].status = "ok"
         \/ /\ Goto(r, "verify") /\ task[r].pc = "confirm" /\ task[r].op = "prove"
            /\ tx[r].status = "ok"
         \/ Goto(r, "prove") /\ task[r].pc = "write" /\ WriteTx(r)
         \/ Goto(r, "facts") /\ task[r].pc = "proving" /\ ProverWrites(r)
         \/ Goto(r, "read") /\ task[r].pc = "facts" /\ ProverWritesFacts(r)
  BY DEF SncastDeployed, DeployConfirmed, InvokeSubmitted, WriteTx, ProverWrites,
         ProverWritesFacts, ProofIncluded, chainVars, fileVars
<1>2. task[r].pc \in {"write", "proving", "facts"} =>
          /\ task[r].op = "prove" /\ tx[r].status = "none"
          /\ task[r].nonce = nonces[task[r].reference_block]
  BY <1>0 DEF Local, Stage, Life, AtReference, Unsent
<1>3. PICK stage \in {"confirm", "next_block", "verify", "prove", "facts", "read"} :
          /\ Goto(r, stage)
          /\ stage = "next_block" => task[r].op = "deploy" /\ tx[r].status = "ok"
          /\ stage = "verify" => task[r].op = "prove" /\ tx[r].status = "ok"
          /\ stage \in {"prove", "facts", "read"} =>
                 /\ task[r].op = "prove" /\ tx[r].status = "none"
                 /\ task[r].nonce = nonces[task[r].reference_block]
          /\ stage = "prove" => WriteTx(r)
          /\ stage = "facts" => ProverWrites(r)
          /\ stage = "read" => ProverWritesFacts(r)
  BY <1>1, <1>2
<1>4. /\ stage \in Stages /\ stage \notin Replies \cup {"idle", "lock", "call", "nonce", "send"}
      /\ stage \in Unsent => stage \in {"prove", "facts", "read"}
  BY DEF Stages, Replies, Unsent
<1>5. task[r].pc \notin Replies \cup {"idle"}
  BY <1>1 DEF Replies
<1> QED
  BY <1>0, <1>1, <1>3, <1>4, <1>5, Moves

(* The steps with which a request reads a nonce or a file, or is refused. *)
LEMMA LearnSteps ==
    ASSUME Base, NEW r \in Requests,
           \/ SubmitNonce(r) \/ ProveNonce(r) \/ ProverReads(r) \/ ReadProof(r) \/ ReadFacts(r)
           \/ SendRefused(r)
    PROVE  StepOf(r)
<1>0. TaskType /\ TxType /\ ChainType /\ Local(r) /\ FileType
  BY DEF Base
<1>1. UNCHANGED chainVars
  BY DEF SubmitNonce, ProveNonce, ProverReads, ReadProof, ReadFacts, SendRefused
<1>2. CASE SubmitNonce(r)
  <2>1. task[r].op = "submit" /\ task[r].pc = "nonce" /\ tx[r].status = "none"
    BY <1>0, <1>2 DEF SubmitNonce, Local, Life, Unsent
  <2>2. /\ TaskType' /\ OnlyTask(r) /\ SameTerms(r) /\ SameProof(r)
        /\ task'[r].pc = "send" /\ task'[r].reference_block = task[r].reference_block
    BY <1>0, <1>2, SubmitNonceEffect, NonceRange
  <2> QED
    BY <1>0, <1>1, <2>1, <2>2, Learns DEF Replies, Unsent, SameProof
<1>3. CASE ProveNonce(r)
  <2>1. /\ task[r].op = "prove" /\ task[r].pc = "nonce" /\ tx[r].status = "none"
        /\ task[r].reference_block <= Block /\ task[r].reference_block # 0
    BY <1>0, <1>3 DEF ProveNonce, Local, Life, Stage, Unsent, Replies
  <2>2. nonces[task[r].reference_block] \in 0..MaxBlock
    BY <1>0, <2>1, ChainFacts, TaskFields
  <2>3. /\ TaskType' /\ OnlyTask(r) /\ SameTerms(r) /\ SameProof(r)
        /\ task'[r].pc = "write" /\ task'[r].nonce = nonces[task[r].reference_block]
        /\ task'[r].reference_block = task[r].reference_block
    BY <1>0, <1>3, <2>2, ProveNonceEffect
  <2> QED
    BY <1>0, <1>1, <2>1, <2>3, Learns DEF Replies, Unsent, SameProof
<1>4. CASE ProverReads(r) \/ ReadProof(r) \/ ReadFacts(r)
  <2>1. /\ task[r].op = "prove" /\ task[r].pc \in {"prove", "read", "read_facts"}
        /\ tx[r].status = "none" /\ task[r].nonce = nonces[task[r].reference_block]
    BY <1>0, <1>4 DEF ProverReads, ReadProof, ReadFacts, Local, Life, Stage, AtReference, Unsent
  <2>2. /\ TaskType' /\ OnlyTask(r) /\ SameTerms(r) /\ SameInputs(r)
        /\ task'[r].pc \in {"proving", "read_facts", "send"}
        /\ (task'[r].pc = "proving" => ProverReads(r))
        /\ (task'[r].pc = "read_facts" => ReadProof(r))
        /\ task'[r].proof = task[r].proof \/ ReadProof(r)
        /\ task'[r].facts = task[r].facts \/ ReadFacts(r)
    BY <1>0, <1>4, ProverReadsEffect, ReadProofEffect, ReadFactsEffect DEF FileType
  <2> QED
    BY <1>0, <1>1, <2>1, <2>2, Learns DEF Replies, Unsent, SameInputs
<1>5. CASE SendRefused(r)
  <2>1. /\ task[r].op = "prove" /\ task[r].pc = "send"
        /\ task[r].nonce = nonces[task[r].reference_block]
    BY <1>0, <1>5 DEF SendRefused, Retry, Local, AtReference
  <2>2. /\ TaskType' /\ OnlyTask(r) /\ SameTerms(r) /\ SameInputs(r) /\ SameProof(r)
        /\ task'[r].pc = "send"
    BY <1>0, <1>5, <2>1, RetryEffect DEF SendRefused
  <2> QED
    BY <1>0, <1>1, <2>1, <2>2, Learns DEF Replies, Unsent, SameInputs, SameProof
<1> QED
  BY <1>2, <1>3, <1>4, <1>5

(* The step that reads the counter after the proof was included. *)
LEMMA VerifyStep ==
    ASSUME Base, NEW r \in Requests, Verify(r)
    PROVE  StepOf(r)
<1>0. TaskType /\ TxType /\ ChainType /\ Local(r)
  BY DEF Base
<1>1. /\ task[r].pc = "verify" /\ task[r].op = "prove" /\ task[r].contract # NoRequest
      /\ UNCHANGED chainVars
  BY <1>0 DEF Verify, Local, Stage, Replies
<1>2. /\ TaskType' /\ OnlyTask(r) /\ SameTerms(r) /\ SameInputs(r) /\ task'[r].pc = "ok"
      /\ task'[r].proof = task[r].proof /\ task'[r].facts = task[r].facts
  BY <1>0, GotoEffect DEF Verify, Stages, Replies, SameProof
<1>3. TxType' /\ OnlyTx(r) /\ OnlyLandings(r) /\ tx'[r] = tx[r] /\ landings'[r] = landings[r]
  BY <1>0, <1>1 DEF chainVars, TxType, OnlyTx, OnlyLandings
<1>4. Block' = Block /\ Nonce' = Nonce /\ nonces' = nonces
  BY <1>0, <1>1, ChainUnchanged DEF chainVars
<1>5. Local(r)'
  BY <1>0, <1>1, <1>2, <1>3, <1>4
     DEF Local, Stage, Life, AtReference, SameTerms, SameInputs, Unsent, Replies
<1>6. Keeps(r) /\ Origins(r)
  BY <1>2, <1>3 DEF Keeps, Origins, Running, SameTerms, Replies
<1> QED
  BY <1>2, <1>3, <1>5, <1>6 DEF StepOf

(* The steps at which a transaction is sent, refused or dropped. *)
LEMMA SentSteps ==
    ASSUME Base, NEW r \in Requests,
           SncastSubmit(r) \/ SncastFail(r) \/ NodeAcceptsInvoke(r) \/ Drop(r)
    PROVE  StepOf(r)
<1>0. TaskType /\ TxType /\ ChainType /\ Local(r)
  BY DEF Base
<1>1. UNCHANGED <<task, nonces, landings>>
  BY DEF SncastSubmit, SncastFail, NodeAcceptsInvoke, Drop
<1>2. /\ tx[r].status \notin Landed /\ task[r].pc \notin Unsent
      /\ task[r].op = "prove" => tx[r].status # "none"
      /\ SncastSubmit(r) \/ SncastFail(r) => task[r].op = "deploy"
      /\ NodeAcceptsInvoke(r) => task[r].op = "invoke"
  BY <1>0 DEF SncastSubmit, SncastFail, NodeAcceptsInvoke, Drop, Local, Stage, Life, Landed, Unsent
<1>3. CASE SncastSubmit(r) \/ NodeAcceptsInvoke(r)
  <2>1. PICK n \in {Nonce, 0} : Accept(r, n)
    BY <1>3 DEF SncastSubmit, NodeAcceptsInvoke
  <2>2. n \in 0..MaxBlock
    BY <1>0, ChainFacts, CounterAssumption
  <2>3. TxType' /\ OnlyTx(r) /\ tx'[r].status = "pending" /\ tx'[r].block = 0
    BY <1>0, <2>1, <2>2, AcceptEffect
  <2> QED
    BY <1>0, <1>1, <1>2, <1>3, <2>3, Sent
<1>4. CASE SncastFail(r)
  <2>1. "failed" \in TxStatus /\ tx' = [tx EXCEPT ![r].status = "failed"]
    BY <1>4 DEF SncastFail, TxStatus
  <2>2. TxType' /\ OnlyTx(r) /\ tx'[r].status = "failed" /\ tx'[r].block = tx[r].block
    BY <1>0, <2>1, StatusEffect
  <2> QED
    BY <1>0, <1>1, <1>2, <1>4, <2>2, Sent
<1>5. CASE Drop(r)
  <2>1. "dropped" \in TxStatus /\ tx' = [tx EXCEPT ![r].status = "dropped"]
    BY <1>5 DEF Drop, TxStatus
  <2>2. /\ TxType' /\ OnlyTx(r) /\ tx'[r].status = "dropped"
        /\ tx'[r].nonce = tx[r].nonce /\ tx'[r].block = tx[r].block
    BY <1>0, <2>1, StatusEffect
  <2>3. task[r].op \in {"submit", "prove"} => tx[r].nonce = task[r].nonce
    BY <1>0, <1>5 DEF Drop, Local, Life
  <2> QED
    BY <1>0, <1>1, <1>2, <2>2, <2>3, Sent
<1> QED
  BY <1>3, <1>4, <1>5

(* A step is a step of one request, a block of others, or a stutter. *)
LEMMA Steps ==
    ASSUME Base, [Next]_vars
    PROVE  (\E r \in Requests : StepOf(r)) \/ UNCHANGED <<task, tx, landings>>
<1>1. CASE \E r \in Requests, s \in Sessions :
               \/ Refused(r, s) \/ DeployCounter(r, s) \/ InvokeIncrement(r, s) \/ SubmitProof(r, s)
               \/ \E amount \in Amounts, calls \in Calls : ProveBlock(r, s, amount, calls)
  BY <1>1, RequestSteps
<1>2. CASE \E r \in Requests : Handler(r)
  <2>1. PICK r \in Requests : Handler(r)
    BY <1>2
  <2>2. StepOf(r)
    BY <2>1, AcquireLockStep, EndSteps, MoveSteps, LearnSteps, SendAcceptedStep, VerifyStep
       DEF Handler
  <2> QED
    BY <2>2
<1>3. CASE \E r \in Requests : Environment(r)
  <2>1. PICK r \in Requests : Environment(r)
    BY <1>3
  <2>2. StepOf(r)
    BY <2>1, EndSteps, SentSteps, IncludeStep DEF Environment
  <2> QED
    BY <2>2
<1>4. CASE OtherBlock \/ UNCHANGED vars
  BY <1>4 DEF OtherBlock, vars, chainVars
<1> QED
  BY <1>1, <1>2, <1>3, <1>4 DEF Next

(* Every request stays in order, the one that steps and the others, and keeps
   what is settled. *)
LEMMA AllLocal ==
    ASSUME Base, [Next]_vars
    PROVE  TaskType' /\ TxType' /\ \A q \in Requests : Local(q)' /\ Keeps(q) /\ Origins(q)
<1>0. /\ TaskType /\ TxType /\ ChainType /\ Grows
      /\ \A q \in Requests : Local(q)
  BY ChainGrows DEF Base
<1>1. CASE \E r \in Requests : StepOf(r)
  <2>1. PICK r \in Requests : StepOf(r)
    BY <1>1
  <2>2. ASSUME NEW q \in Requests, q # r PROVE Local(q)' /\ Keeps(q) /\ Origins(q)
    <3>1. task'[q] = task[q] /\ tx'[q] = tx[q] /\ landings'[q] = landings[q]
      BY <2>1, <2>2 DEF StepOf, OnlyTask, OnlyTx, OnlyLandings
    <3>2. Keeps(q) /\ Origins(q)
      BY <3>1 DEF Keeps, Origins, Running, SameTerms
    <3> QED
      BY <1>0, <3>1, <3>2, Bystander
  <2> QED
    BY <2>1, <2>2 DEF StepOf
<1>2. CASE UNCHANGED <<task, tx, landings>>
  <2>1. ASSUME NEW q \in Requests PROVE Local(q)' /\ Keeps(q) /\ Origins(q)
    <3>1. task'[q] = task[q] /\ tx'[q] = tx[q] /\ landings'[q] = landings[q]
      BY <1>2
    <3>2. Keeps(q) /\ Origins(q)
      BY <3>1 DEF Keeps, Origins, Running, SameTerms
    <3> QED
      BY <1>0, <3>1, <3>2, Bystander
  <2>2. TaskType' /\ TxType'
    BY <1>0, <1>2 DEF TaskType, TxType
  <2> QED
    BY <2>1, <2>2
<1> QED
  BY <1>1, <1>2, Steps

-----------------------------------------------------------------------------
(* The other variables. *)

(* Every step keeps the types of the sessions. *)
LEMMA SessionStep ==
    ASSUME Base, [Next]_vars
    PROVE  SessionType'
<1>0. /\ TaskType /\ TxType /\ session \in [Sessions -> SessionState]
      /\ Block \in Nat /\ Block' \in Nat /\ Block <= Block'
      /\ \A s \in Sessions : /\ session[s].deploy_block <= Block
                             /\ session[s].last_reference_block <= Block
  BY ChainGrows, ChainFacts DEF Base, SessionType, Grows
<1>1. SUFFICES /\ session' \in [Sessions -> SessionState]
               /\ \A s \in Sessions : /\ session'[s].deploy_block <= Block
                                      /\ session'[s].last_reference_block <= Block
  <2> HIDE DEF Block
  <2>1. ASSUME session' \in [Sessions -> SessionState], NEW s \in Sessions
        PROVE  session'[s].deploy_block \in Nat /\ session'[s].last_reference_block \in Nat
    BY <2>1 DEF SessionState
  <2> QED
    BY <1>0, <2>1 DEF SessionType
<1>2. CASE UNCHANGED session
  BY <1>0, <1>2
<1>3. ASSUME NEW r \in Requests,
             \/ StoreCounter(r) \/ InvokeSubmitted(r) \/ InvokeConfirmed(r) \/ ProofIncluded(r)
      PROVE  /\ session' \in [Sessions -> SessionState]
             /\ \A s \in Sessions : /\ session'[s].deploy_block <= Block
                                    /\ session'[s].last_reference_block <= Block
  <2> DEFINE own == task[r].session
             st == session[own]
             b == tx[r].block
  <2>1. own \in Sessions /\ st \in SessionState /\ b \in 0..MaxBlock /\ b <= Block
    <3>1. own \in Sessions /\ b \in 0..MaxBlock
      BY <1>0, TaskFields DEF TxType, Tx
    <3>2. b <= Block
      BY DEF Base, Local, Life
    <3> QED
      BY <1>0, <3>1, <3>2
  <2>2. PICK new \in {[st EXCEPT !.contract = r, !.deploy_block = b, !.last_reference_block = b],
                      [st EXCEPT !.last_invoke_tx = r], [st EXCEPT !.invoke_block = b],
                      [st EXCEPT !.last_reference_block = b]} :
            session' = [session EXCEPT ![own] = new]
    BY <1>3 DEF StoreCounter, InvokeSubmitted, InvokeConfirmed, ProofIncluded
  <2>3. st.deploy_block <= Block /\ st.last_reference_block <= Block
    BY <1>0, <2>1
  <2> HIDE DEF own, st, b
  <2>4. new \in SessionState /\ new.deploy_block <= Block /\ new.last_reference_block <= Block
    BY <2>1, <2>2, <2>3 DEF SessionState
  <2> QED
    BY <1>0, <2>1, <2>2, <2>4
<1> QED
  BY <1>2, <1>3, Writes DEF Footprint

(* Every step keeps the types of the files. *)
LEMMA FileStep ==
    ASSUME Base, [Next]_vars
    PROVE  FileType'
<1>1. UNCHANGED tx_file \/ \E r \in Requests : WriteTx(r)
  BY Writes DEF Footprint
<1>2. UNCHANGED proof_file \/ \E r \in Requests : ProverWrites(r)
  BY Writes DEF Footprint
<1>3. \A r \in Requests : task[r].tx_read \in Requests \cup {NoRequest}
  BY TaskFields DEF Base
<1>4. FileType
  BY DEF Base
<1>5. tx_file' \in [Sessions -> Requests \cup {NoRequest}]
  BY <1>1, <1>4 DEF WriteTx, FileType
<1>6. proof_file' \in [Sessions -> Requests \cup {NoRequest}]
  BY <1>2, <1>3, <1>4 DEF ProverWrites, FileType
<1>7. UNCHANGED proof_facts \/ \E r \in Requests : ProverWritesFacts(r)
  BY Writes DEF Footprint
<1>8. proof_facts' \in [Sessions -> Requests \cup {NoRequest}]
  BY <1>3, <1>4, <1>7 DEF ProverWritesFacts, FileType
<1> QED
  BY <1>5, <1>6, <1>8 DEF FileType

(* Every step keeps the types of the counters, and none of them falls. *)
LEMMA CountStep ==
    ASSUME Base, [Next]_vars
    PROVE  CountType' /\ \A c \in Requests : counter'[c] >= counter[c]
<1>0. /\ TaskType /\ counter \in [Requests -> Nat] /\ landings \in [Requests -> Nat]
  BY DEF Base, CountType
<1>1. CASE UNCHANGED <<counter, landings>>
  BY <1>0, <1>1 DEF CountType
<1>2. ASSUME NEW r \in Requests, Include(r)
      PROVE  CountType' /\ \A c \in Requests : counter'[c] >= counter[c]
  <2>1. Increment(task[r]) \in Nat
    BY <1>0, TaskFields DEF Increment
  <2>2. \/ UNCHANGED counter
        \/ counter' = [counter EXCEPT ![task[r].contract] = @ + Increment(task[r])]
    BY <1>2 DEF Include
  <2>3. landings' = [landings EXCEPT ![r] = @ + 1]
    BY <1>2 DEF Include
  <2>4. landings' \in [Requests -> Nat]
    BY <1>0, <2>3
  <2>5. counter' \in [Requests -> Nat] /\ \A c \in Requests : counter'[c] >= counter[c]
    BY <1>0, <2>1, <2>2
  <2> QED
    BY <2>4, <2>5 DEF CountType
<1> QED
  BY <1>1, <1>2, Writes DEF Footprint

(* Base is inductive. *)
LEMMA BaseInit == Init => Base
<1>1. SUFFICES ASSUME Init PROVE Base
  OBVIOUS
<1>2. TaskType
  BY <1>1, IdleType DEF Init, TaskType
<1>3. TxType
  <2>1. NoTx \in Tx
    BY CounterAssumption DEF NoTx, Tx, TxStatus
  <2> QED
    BY <1>1, <2>1 DEF Init, TxType
<1>4. ChainType /\ Block = 1
  <2>1. nonces = <<1>> /\ 1 \in 1..MaxBlock
    BY <1>1, CounterAssumption DEF Init
  <2> QED
    BY <2>1 DEF ChainType, Block
<1>5. SessionType
  <2>1. NewSession \in SessionState
    BY CounterAssumption DEF NewSession, SessionState
  <2> QED
    BY <1>1, <1>4, <2>1 DEF Init, SessionType, NewSession
<1>6. FileType /\ CountType
  BY <1>1 DEF Init, FileType, CountType
<1>7. ASSUME NEW r \in Requests PROVE Local(r)
  <2>1. task[r] = Idle /\ tx[r] = NoTx /\ landings[r] = 0
    BY <1>1 DEF Init
  <2> QED
    BY <1>4, <2>1 DEF Local, Stage, Life, AtReference, Idle, NoTx, Landed, Unsent
<1> QED
  BY <1>2, <1>3, <1>4, <1>5, <1>6, <1>7 DEF Base

(* Every step keeps the types and what is known of each request by itself. *)
LEMMA BaseStep == Base /\ [Next]_vars => Base'
BY AllLocal, ChainGrows, SessionStep, FileStep, CountStep DEF Base

(* Types, and what each request's stage says of its task and transaction. *)
THEOREM BaseHolds == Spec => []Base
BY BaseInit, BaseStep, PTL DEF Spec

-----------------------------------------------------------------------------
(* What the endpoints promise. *)

(* The variables the requests' own state does not depend on. *)
RestType == lockQueue \in Seq(Requests) /\ rivals \in [Requests -> SUBSET Requests]

(* Every step keeps the types of the remaining variables. *)
LEMMA RestStep ==
    ASSUME RestType, [Next]_vars
    PROVE  RestType'
<1>1. lockQueue' \in Seq(Requests)
  <2>1. CASE UNCHANGED lockQueue
    BY <2>1 DEF RestType
  <2>2. ASSUME NEW r \in Requests, lockQueue' = Append(lockQueue, r)
        PROVE  lockQueue' \in Seq(Requests)
    BY <2>2 DEF RestType
  <2>3. ASSUME NEW r \in Requests, Leave(r) PROVE lockQueue' \in Seq(Requests)
    BY <2>3, LeaveType DEF RestType, Leave
  <2> QED
    BY <2>1, <2>2, <2>3, Writes DEF Footprint
<1>2. rivals' \in [Requests -> SUBSET Requests]
  <2>1. CASE UNCHANGED rivals
    BY <2>1 DEF RestType
  <2>2. ASSUME NEW r \in Requests, NEW s \in Sessions, NEW amount \in Amounts, NEW calls \in Calls,
               ProveBlock(r, s, amount, calls)
        PROVE  rivals' \in [Requests -> SUBSET Requests]
    <3>1. PICK running \in SUBSET Requests :
              rivals' = [q \in Requests |-> IF q = r THEN running
                                            ELSE IF q \in running THEN rivals[q] \cup {r}
                                            ELSE rivals[q]]
      BY <2>2 DEF ProveBlock
    <3> QED
      BY <3>1 DEF RestType
  <2> QED
    BY <2>1, <2>2, Writes DEF Footprint
<1> QED
  BY <1>1, <1>2 DEF RestType

(* TypeOK holds: every block a session or a task refers to exists on the chain,
   and no transaction lands more often than there are blocks (the state of
   deploy_counter, invoke, submit_proof and prove_block). *)
THEOREM TypeCorrect == Spec => []TypeOK
<1>1. Init => RestType
  BY DEF Init, RestType
<1>2. RestType /\ [Next]_vars => RestType'
  BY RestStep
<1>3. Base /\ RestType => TypeOK
  <2>1. SUFFICES ASSUME Base, RestType PROVE TypeOK
    OBVIOUS
  <2>2. landings \in [Requests -> 0..MaxBlock]
    <3>1. \A r \in Requests : landings[r] \in {0, 1}
      BY <2>1 DEF Base, Local, Life
    <3> QED
      BY <2>1, <3>1, CounterAssumption DEF Base, CountType
  <2> QED
    BY <2>1, <2>2 DEF Base, RestType, TypeOK, TaskType, TxType, ChainType, SessionType,
                      FileType, CountType
<1> QED
  BY <1>1, <1>2, <1>3, BaseHolds, PTL DEF Spec

(* No transaction lands twice, however often an accepted submission is
   repeated: the nonce it carries is spent (the submission loop of prove_block). *)
THEOREM IncrementOnceHolds == Spec => []IncrementOnce
<1>1. Base => IncrementOnce
  BY DEF Base, Local, Life, IncrementOnce
<1> QED
  BY <1>1, BaseHolds, PTL

(* The account sent nothing between the block a cycle proved on and the block
   that includes it (get_nonce_at_block in prove_block). *)
THEOREM ProvedAccountStateHolds == Spec => []ProvedAccountState
<1>1. Base => ProvedAccountState
  <2>1. SUFFICES ASSUME Base, NEW r \in Requests, task[r].op = "prove",
                        tx[r].status \in {"ok", "reverted"}
                 PROVE  nonces[task[r].reference_block] = nonces[tx[r].block - 1]
    BY DEF ProvedAccountState
  <2>2. Life(r) /\ AtReference(r)
    BY <2>1 DEF Base, Local
  <2>3. tx[r].nonce = task[r].nonce /\ tx[r].nonce = nonces[tx[r].block - 1]
    BY <2>1, <2>2 DEF Life, Landed
  <2>4. task[r].nonce = nonces[task[r].reference_block]
    BY <2>1, <2>2 DEF AtReference
  <2> QED
    BY <2>3, <2>4
<1> QED
  BY <1>1, BaseHolds, PTL

(* What a session records of the chain: the transaction that deployed its
   contract, and one of its own in its reference block. *)
OfSession(s) ==
    /\ session[s].contract # NoRequest =>
           /\ session[s].contract \in Requests
           /\ task[session[s].contract].op = "deploy"
           /\ tx[session[s].contract].status = "ok"
           /\ tx[session[s].contract].block = session[s].deploy_block
    /\ session[s].last_reference_block # 0 =>
           \E r \in Requests :
               /\ task[r].session = s
               /\ task[r].op \in {"deploy", "prove"}
               /\ tx[r].status = "ok"
               /\ tx[r].block = session[s].last_reference_block

(* The record survives every step that does not rewrite it. *)
LEMMA RecordKept ==
    ASSUME Base, [Next]_vars, NEW q \in Requests, tx[q].status = "ok", task[q].op # "none"
    PROVE  tx'[q] = tx[q] /\ task'[q].op = task[q].op /\ task'[q].session = task[q].session
BY AllLocal DEF Keeps, SameTerms, Landed

(* A session that is not rewritten keeps what is known of it. *)
LEMMA SessionKept ==
    ASSUME Base, [Next]_vars, NEW s \in Sessions, OfSession(s),
           session'[s].contract = session[s].contract,
           session'[s].deploy_block = session[s].deploy_block,
           session'[s].last_reference_block = session[s].last_reference_block
    PROVE  OfSession(s)'
<1>1. ASSUME session[s].contract # NoRequest
      PROVE  /\ session[s].contract \in Requests
             /\ task'[session[s].contract].op = "deploy"
             /\ tx'[session[s].contract].status = "ok"
             /\ tx'[session[s].contract].block = session[s].deploy_block
  BY <1>1, RecordKept DEF OfSession
<1>2. ASSUME session[s].last_reference_block # 0
      PROVE  \E r \in Requests :
                 /\ task'[r].session = s
                 /\ task'[r].op \in {"deploy", "prove"}
                 /\ tx'[r].status = "ok"
                 /\ tx'[r].block = session[s].last_reference_block
  BY <1>2, RecordKept DEF OfSession
<1> QED
  BY <1>1, <1>2 DEF OfSession

(* What a deployment and an included proof write into the session was on the chain. *)
LEMMA SessionRewritten ==
    ASSUME Base, [Next]_vars, NEW r \in Requests, StoreCounter(r) \/ ProofIncluded(r),
           NEW s \in Sessions, s = task[r].session, OfSession(s)
    PROVE  OfSession(s)'
<1> DEFINE st == session[s]
<1>0. /\ st \in SessionState /\ session \in [Sessions -> SessionState]
      /\ tx[r].status = "ok" /\ task[r].op \in {"deploy", "prove"}
      /\ StoreCounter(r) => task[r].op = "deploy"
  <2>1. session \in [Sessions -> SessionState]
    BY DEF Base, SessionType
  <2>2. Stage(r) /\ Life(r)
    BY DEF Base, Local
  <2> QED
    BY <2>1, <2>2 DEF StoreCounter, ProofIncluded, Stage, Life
<1>1. /\ tx'[r] = tx[r] /\ task'[r].op = task[r].op /\ task'[r].session = s
  BY <1>0, RecordKept
<1>2. CASE StoreCounter(r)
  <2>1. session' = [session EXCEPT ![s] =
            [st EXCEPT !.contract = r, !.deploy_block = tx[r].block,
                       !.last_reference_block = tx[r].block]]
    BY <1>2 DEF StoreCounter
  <2>2. /\ session'[s].contract = r /\ session'[s].deploy_block = tx[r].block
        /\ session'[s].last_reference_block = tx[r].block
    <3> HIDE DEF st
    <3> QED
      BY <1>0, <2>1 DEF SessionState
  <2> QED
    BY <1>0, <1>1, <1>2, <2>2 DEF OfSession
<1>3. CASE ProofIncluded(r)
  <2>1. session' = [session EXCEPT ![s] = [st EXCEPT !.last_reference_block = tx[r].block]]
    BY <1>3 DEF ProofIncluded
  <2>2. /\ session'[s].contract = st.contract /\ session'[s].deploy_block = st.deploy_block
        /\ session'[s].last_reference_block = tx[r].block
    <3> HIDE DEF st
    <3> QED
      BY <1>0, <2>1 DEF SessionState
  <2>3. ASSUME st.contract # NoRequest
        PROVE  /\ st.contract \in Requests
               /\ task'[st.contract].op = "deploy"
               /\ tx'[st.contract].status = "ok"
               /\ tx'[st.contract].block = st.deploy_block
    BY <2>3, RecordKept DEF OfSession
  <2> HIDE DEF st
  <2> QED
    BY <1>0, <1>1, <2>2, <2>3 DEF OfSession
<1> QED
  BY <1>2, <1>3

(* Every step keeps what is known of a session. *)
LEMMA OfSessionStep ==
    ASSUME Base, [Next]_vars, \A s \in Sessions : OfSession(s), NEW s \in Sessions
    PROVE  OfSession(s)'
<1>0. session \in [Sessions -> SessionState]
  BY DEF Base, SessionType
<1>1. CASE UNCHANGED session
  BY <1>1, SessionKept
<1>2. ASSUME NEW r \in Requests,
             \/ StoreCounter(r) \/ InvokeSubmitted(r) \/ InvokeConfirmed(r) \/ ProofIncluded(r)
      PROVE  OfSession(s)'
  <2>1. task[r].session \in Sessions
    BY TaskFields DEF Base
  <2>2. CASE s # task[r].session
    <3>1. session'[s] = session[s]
      BY <1>0, <1>2, <2>1, <2>2
         DEF StoreCounter, InvokeSubmitted, InvokeConfirmed, ProofIncluded
    <3> QED
      BY <3>1, SessionKept
  <2>3. CASE s = task[r].session /\ (StoreCounter(r) \/ ProofIncluded(r))
    BY <2>3, SessionRewritten
  <2>4. CASE s = task[r].session /\ (InvokeSubmitted(r) \/ InvokeConfirmed(r))
    <3>1. \/ session' = [session EXCEPT ![s] = [session[s] EXCEPT !.last_invoke_tx = r]]
          \/ session' = [session EXCEPT ![s] = [session[s] EXCEPT !.invoke_block = tx[r].block]]
      BY <2>4 DEF InvokeSubmitted, InvokeConfirmed
    <3>2. /\ session'[s].contract = session[s].contract
          /\ session'[s].deploy_block = session[s].deploy_block
          /\ session'[s].last_reference_block = session[s].last_reference_block
      BY <1>0, <3>1 DEF SessionState
    <3> QED
      BY <3>2, SessionKept
  <2> QED
    BY <1>2, <2>2, <2>3, <2>4
<1> QED
  BY <1>1, <1>2, Writes DEF Footprint

(* What a session records exists. *)
THEOREM OfSessionHolds == Spec => [](\A s \in Sessions : OfSession(s))
<1> DEFINE Inv == \A s \in Sessions : OfSession(s)
<1>1. Init => Inv
  BY DEF Init, OfSession, NewSession
<1>2. Inv /\ Base /\ [Next]_vars => Inv'
  BY OfSessionStep
<1> HIDE DEF Inv
<1>3. Spec => []Inv
  BY <1>1, <1>2, BaseHolds, PTL DEF Spec
<1> QED
  BY <1>3 DEF Inv

(* A session names a contract only once it exists on the chain, at the block it
   records, whatever sncast's child, the mempool and a disconnecting client do
   (deploy_counter). *)
THEOREM SessionContractExistsHolds == Spec => []SessionContractExists
<1>1. (\A s \in Sessions : OfSession(s)) => SessionContractExists
  BY DEF OfSession, SessionContractExists
<1> QED
  BY <1>1, OfSessionHolds, PTL

(* Proving starts from a block in which a transaction of the session's own took
   effect (deploy_counter and prove_block). *)
THEOREM ReferenceIsOwnHolds == Spec => []ReferenceIsOwn
<1>1. (\A s \in Sessions : OfSession(s)) => ReferenceIsOwn
  BY DEF OfSession, ReferenceIsOwn
<1> QED
  BY <1>1, OfSessionHolds, PTL

(* The counter contains the increments of a transaction that took effect. *)
Counted(r) ==
    task[r].op = "prove" /\ tx[r].status = "ok" =>
        counter[task[r].contract] >= Increment(task[r])

(* Every step keeps that the counter contains an included increment. *)
LEMMA CountedStep ==
    ASSUME Base, [Next]_vars, NEW r \in Requests, Counted(r)
    PROVE  Counted(r)'
<1>0. /\ TaskType /\ Local(r) /\ Local(r)' /\ Keeps(r) /\ Origins(r)
      /\ counter \in [Requests -> Nat] /\ counter' \in [Requests -> Nat]
      /\ \A c \in Requests : counter'[c] >= counter[c]
  BY AllLocal, CountStep DEF Base, CountType
<1>1. Increment(task[r]) \in Nat
  BY <1>0, TaskFields DEF Increment
<1>2. task[r].op # "none" => /\ SameTerms(r) /\ Increment(task'[r]) = Increment(task[r])
  BY <1>0 DEF Keeps, SameTerms, Increment
<1>3. ASSUME task'[r].op = "prove", tx'[r].status = "ok"
      PROVE  counter'[task'[r].contract] >= Increment(task'[r])
  <2>1. CASE tx[r].status \in Landed
    <3>1. tx[r].status = "ok" /\ task[r].op # "none"
      BY <1>0, <1>3, <2>1 DEF Keeps, Local, Stage, Life, Unsent, Landed
    <3>2. task[r].op = "prove" /\ task[r].contract \in Requests
      BY <1>0, <1>2, <1>3, <3>1, TaskFields DEF SameTerms, Local, Stage
    <3>3. counter[task[r].contract] >= Increment(task[r])
      BY <3>1, <3>2 DEF Counted
    <3>4. counter[task[r].contract] \in Nat /\ counter'[task[r].contract] \in Nat
      BY <1>0, <3>2
    <3>5. counter'[task[r].contract] >= Increment(task[r])
      BY <1>0, <1>1, <3>2, <3>3, <3>4
    <3> QED
      BY <1>2, <3>1, <3>5 DEF SameTerms
  <2>2. CASE tx[r].status \notin Landed
    <3>1. landings[r] = 0 /\ landings'[r] = 1
      BY <1>0, <1>3, <2>2 DEF Local, Life, Landed
    <3>2. PICK q \in Requests : Include(q)
      BY <3>1, Writes DEF Footprint
    <3>3. q = r
      BY <3>1, <3>2 DEF Include, Base, CountType
    <3>4. task' = task
      BY <3>2 DEF Include
    <3>5. task[r].op = "prove" /\ tx[r].status = "pending" /\ task[r].contract \in Requests
      <4>1. task[r].op = "prove" /\ tx[r].status = "pending"
        BY <1>3, <3>2, <3>3, <3>4 DEF Include
      <4> QED
        BY <1>0, <4>1, TaskFields DEF Local, Stage
    <3>6. tx \in [Requests -> Tx]
      BY DEF Base, TxType
    <3>7. counter' = [counter EXCEPT ![task[r].contract] = @ + Increment(task[r])]
      <4>1. ~(tx' = [tx EXCEPT ![r].status = "reverted", ![r].block = Block + 1])
        BY <1>3, <3>6 DEF Tx
      <4> QED
        BY <3>2, <3>3, <3>5, <4>1 DEF Include
    <3>8. counter'[task[r].contract] = counter[task[r].contract] + Increment(task[r])
      BY <1>0, <3>5, <3>7
    <3>9. counter[task[r].contract] \in Nat
      BY <1>0, <3>5
    <3>10. counter'[task[r].contract] >= Increment(task[r])
      BY <1>1, <3>8, <3>9
    <3> QED
      BY <3>4, <3>10
  <2> QED
    BY <2>1, <2>2
<1> QED
  BY <1>3 DEF Counted

(* A cycle says complete only when its increments are on the chain, all of them
   (phase 4 of prove_block). *)
THEOREM CompleteCountedHolds == Spec => []CompleteCounted
<1> DEFINE Inv == \A r \in Requests : Counted(r)
<1>1. Init => Inv
  BY DEF Init, Counted, Idle
<1>2. Inv /\ Base /\ [Next]_vars => Inv'
  BY CountedStep
<1>3. Inv /\ Base => CompleteCounted
  BY DEF Counted, CompleteCounted, Base, Local, Life
<1> HIDE DEF Inv
<1> QED
  BY <1>1, <1>2, <1>3, BaseHolds, PTL DEF Spec

-----------------------------------------------------------------------------
(* The files of a session. *)

(* Cycles that run at the same time know of each other. *)
Overlaps(r) ==
    /\ \A q \in Requests :
           Running(q) /\ Running(r) /\ task[q].session = task[r].session /\ q # r
               => q \in rivals[r]
    /\ task[r].pc = "idle" => rivals[r] = {}

Near(r) == {r} \cup rivals[r]
Nearby(r) == Near(r) \cup UNION {rivals[q] : q \in rivals[r]}

(* What a cycle finds in the session's files comes from one that overlapped it,
   or from one that overlapped such a one. *)
Files(r) ==
    /\ task[r].pc = "prove" => tx_file[task[r].session] \in Near(r)
    /\ task[r].pc \in {"proving", "facts"} => task[r].tx_read \in Near(r)
    /\ task[r].pc \in {"facts", "read"} => proof_file[task[r].session] \in Nearby(r)
    /\ task[r].pc \in {"read", "read_facts"} => proof_facts[task[r].session] \in Nearby(r)
    /\ {task[r].proof, task[r].facts} \subseteq {NoRequest} \cup Nearby(r)

FileInv == RestType /\ \A r \in Requests : Overlaps(r) /\ Files(r)

(* The history of the overlaps only grows, and a cycle that starts begins it with
   the cycles that run. *)
LEMMA OverlapsStep ==
    ASSUME Base, FileInv, [Next]_vars
    PROVE  \A r \in Requests : rivals[r] \subseteq rivals'[r] /\ Overlaps(r)'
<1>0. /\ TaskType /\ rivals \in [Requests -> SUBSET Requests]
      /\ session \in [Sessions -> SessionState]
      /\ \A r \in Requests : Overlaps(r) /\ Origins(r) /\ Keeps(r) /\ Stage(r)
  BY AllLocal DEF FileInv, RestType, Base, Local, SessionType
<1>1. ASSUME NEW p \in Requests, NEW s \in Sessions, NEW amount \in Amounts, NEW calls \in Calls,
             ProveBlock(p, s, amount, calls)
      PROVE  \A r \in Requests : rivals[r] \subseteq rivals'[r] /\ Overlaps(r)'
  <2> DEFINE running == {q \in Requests : /\ task[q].op = "prove" /\ task[q].session = s
                                          /\ task[q].pc \notin Replies}
  <2>1. /\ task[p].pc = "idle"
        /\ rivals' = [q \in Requests |-> IF q = p THEN running
                                         ELSE IF q \in running THEN rivals[q] \cup {p}
                                         ELSE rivals[q]]
    BY <1>1 DEF ProveBlock
  <2>2. \A q \in Requests : q \in running <=> Running(q) /\ task[q].session = s
    BY DEF Running
  <2> HIDE DEF running
  <2>3. OnlyTask(p) /\ task'[p].session = s /\ task'[p].pc # "idle"
    BY <1>0, <1>1, ProveBlockEffect
  <2>4. rivals[p] = {} /\ ~Running(p)
    BY <1>0, <2>1 DEF Overlaps, Stage, Running
  <2>5. \A r \in Requests : rivals[r] \subseteq rivals'[r]
    BY <2>1, <2>4
  <2>6. ASSUME NEW r \in Requests, NEW q \in Requests, q # r,
               Running(q)', Running(r)', task'[q].session = task'[r].session
        PROVE  q \in rivals'[r]
    <3>1. \A x \in Requests : x # p => /\ Running(x)' <=> Running(x)
                                       /\ task'[x].session = task[x].session
      BY <2>3 DEF OnlyTask, Running
    <3>2. CASE r = p
      BY <2>1, <2>2, <2>3, <2>6, <3>1, <3>2
    <3>3. CASE q = p
      BY <2>1, <2>2, <2>3, <2>6, <3>1, <3>3
    <3>4. CASE q # p /\ r # p
      BY <1>0, <2>5, <2>6, <3>1, <3>4 DEF Overlaps
    <3> QED
      BY <3>2, <3>3, <3>4
  <2>7. ASSUME NEW r \in Requests, task'[r].pc = "idle" PROVE rivals'[r] = {}
    <3>1. r # p /\ task[r].pc = "idle"
      BY <2>3, <2>7 DEF OnlyTask
    <3>2. r \notin running
      BY <1>0, <2>2, <3>1 DEF Stage, Running
    <3> QED
      BY <1>0, <2>1, <3>1, <3>2 DEF Overlaps
  <2> QED
    BY <2>5, <2>6, <2>7 DEF Overlaps
<1>2. CASE ~\E p \in Requests, s \in Sessions, amount \in Amounts, calls \in Calls :
                ProveBlock(p, s, amount, calls)
  <2>1. UNCHANGED rivals
    BY <1>2, Writes DEF Footprint
  <2>2. ASSUME NEW q \in Requests, Running(q)'
        PROVE  Running(q) /\ task'[q].session = task[q].session
    <3>1. Running(q)
      BY <1>0, <1>2, <2>2 DEF Origins
    <3> QED
      BY <1>0, <3>1 DEF Running, Keeps, SameTerms
  <2>3. ASSUME NEW r \in Requests, task'[r].pc = "idle" PROVE rivals'[r] = {}
    BY <1>0, <2>1, <2>3 DEF Origins, Overlaps
  <2> QED
    BY <1>0, <2>1, <2>2, <2>3 DEF Overlaps
<1> QED
  BY <1>1, <1>2

(* What is near stays near. *)
LEMMA NearGrows ==
    ASSUME FileInv, \A q \in Requests : rivals[q] \subseteq rivals'[q], NEW r \in Requests
    PROVE  Near(r) \subseteq Near(r)' /\ Nearby(r) \subseteq Nearby(r)'
<1>1. rivals[r] \subseteq Requests
  BY DEF FileInv, RestType
<1>2. Near(r) \subseteq Near(r)'
  BY DEF Near
<1>3. ASSUME NEW x, x \in UNION {rivals[q] : q \in rivals[r]}
      PROVE  x \in UNION {rivals'[q] : q \in rivals'[r]}
  <2>1. PICK q \in rivals[r] : x \in rivals[q]
    BY <1>3
  <2>2. q \in rivals'[r] /\ x \in rivals'[q]
    BY <1>1, <2>1
  <2> QED
    BY <2>2
<1> QED
  BY <1>2, <1>3 DEF Nearby

(* Every step keeps where the contents of a session's files come from. *)
LEMMA FilesStep ==
    ASSUME Base, FileInv, [Next]_vars, NEW r \in Requests
    PROVE  Files(r)'
<1>0. /\ Files(r) /\ Origins(r) /\ Keeps(r) /\ FileType /\ TaskType
      /\ \A q \in Requests : Overlaps(q) /\ Stage(q) /\ Files(q)
      /\ rivals \in [Requests -> SUBSET Requests]
  BY AllLocal DEF FileInv, RestType, Base, Local
<1>1. Near(r) \subseteq Near(r)' /\ Nearby(r) \subseteq Nearby(r)'
  BY OverlapsStep, NearGrows
<1>2. /\ r \in Near(r) /\ Near(r) \subseteq Nearby(r)
      /\ \A q \in rivals[r] : q \in Near(r) /\ Near(q) \subseteq Nearby(r)
  BY DEF Near, Nearby
<1>3. task[r].session \in Sessions /\ \A q \in Requests : task[q].session \in Sessions
  BY <1>0, TaskFields
<1>4. task[r].pc # "idle" => task'[r].session = task[r].session
  BY <1>0 DEF Keeps, SameTerms, Stage
<1>5. ASSUME task'[r].pc = "prove" PROVE tx_file'[task'[r].session] \in Near(r)'
  <2>1. task[r].pc = "prove" \/ WriteTx(r)
    BY <1>0, <1>5 DEF Origins
  <2>2. /\ task[r].pc \in {"prove", "write"} /\ Running(r)
        /\ task'[r].session = task[r].session
    BY <1>0, <1>4, <2>1 DEF WriteTx, Stage, Running, Replies
  <2>3. CASE UNCHANGED tx_file
    <3>1. task[r].pc = "prove" => tx_file[task[r].session] \in Near(r)
      BY <1>0 DEF Files
    <3>2. WriteTx(r) => tx_file'[task[r].session] = r
      BY <1>0, <1>3 DEF WriteTx, FileType
    <3> QED
      BY <1>1, <1>2, <2>1, <2>2, <2>3, <3>1, <3>2
  <2>4. ASSUME NEW q \in Requests, WriteTx(q)
        PROVE  tx_file'[task[r].session] \in Near(r)
    <3>1. tx_file' = [tx_file EXCEPT ![task[q].session] = q] /\ Running(q)
      BY <1>0, <2>4 DEF WriteTx, Running, Stage, Replies
    <3>2. CASE task[q].session = task[r].session
      <4>1. tx_file'[task[r].session] = q
        BY <1>0, <1>3, <3>1, <3>2 DEF FileType
      <4>2. q = r \/ q \in rivals[r]
        BY <1>0, <2>2, <3>1, <3>2 DEF Overlaps
      <4> QED
        BY <1>2, <4>1, <4>2
    <3>3. CASE task[q].session # task[r].session
      <4>1. tx_file'[task[r].session] = tx_file[task[r].session] /\ q # r
        BY <1>0, <1>3, <3>1, <3>3 DEF FileType
      <4>2. ~WriteTx(r)
        <5>1. SUFFICES ASSUME WriteTx(r) PROVE FALSE
          OBVIOUS
        <5>2. "prove" \in Stages /\ Goto(q, "prove") /\ task[r].pc = "write"
          BY <2>4, <5>1 DEF WriteTx, Stages
        <5>3. OnlyTask(q)
          BY <1>0, <5>2, GotoEffect
        <5> QED
          BY <1>5, <4>1, <5>2, <5>3 DEF OnlyTask
      <4> QED
        BY <1>0, <2>1, <4>1, <4>2 DEF Files
    <3> QED
      BY <3>2, <3>3
  <2> QED
    BY <1>1, <2>2, <2>3, <2>4, Writes DEF Footprint
<1>6. ASSUME task'[r].pc \in {"proving", "facts"} PROVE task'[r].tx_read \in Near(r)'
  <2>1. CASE task[r].pc \in {"proving", "facts"} /\ task'[r].tx_read = task[r].tx_read
    BY <1>0, <1>1, <2>1 DEF Files
  <2>2. CASE ProverReads(r)
    <3>1. task[r].pc = "prove" /\ task'[r].tx_read = tx_file[task[r].session]
      BY <1>0, <2>2, ProverReadsEffect DEF ProverReads, FileType
    <3> QED
      BY <1>0, <1>1, <3>1 DEF Files
  <2>3. ProverWrites(r) => task[r].pc = "proving"
    BY DEF ProverWrites
  <2> QED
    BY <1>0, <1>6, <2>1, <2>2, <2>3 DEF Origins
<1>7. ASSUME task'[r].pc \in {"facts", "read"} PROVE proof_file'[task'[r].session] \in Nearby(r)'
  <2>1. task[r].pc \in {"facts", "read"} \/ ProverWrites(r)
    BY <1>0, <1>7 DEF Origins, ProverWritesFacts
  <2>2. /\ task[r].pc \in {"facts", "read", "proving"} /\ Running(r)
        /\ task'[r].session = task[r].session
    BY <1>0, <1>4, <2>1 DEF ProverWrites, Stage, Running, Replies
  <2>3. ASSUME NEW q \in Requests, ProverWrites(q), task[q].session = task[r].session
        PROVE  proof_file'[task[r].session] \in Nearby(r)
    <3>1. /\ proof_file' = [proof_file EXCEPT ![task[q].session] = task[q].tx_read]
          /\ Running(q) /\ task[q].pc = "proving"
      BY <1>0, <2>3 DEF ProverWrites, Running, Stage, Replies
    <3>2. proof_file'[task[r].session] = task[q].tx_read /\ task[q].tx_read \in Near(q)
      BY <1>0, <1>3, <2>3, <3>1 DEF FileType, Files
    <3>3. q = r \/ q \in rivals[r]
      BY <1>0, <2>2, <2>3, <3>1 DEF Overlaps
    <3> QED
      BY <1>2, <3>2, <3>3
  <2>4. CASE ~\E q \in Requests : ProverWrites(q) /\ task[q].session = task[r].session
    <3>1. task[r].pc \in {"facts", "read"}
      BY <2>1, <2>4
    <3>2. proof_file'[task[r].session] = proof_file[task[r].session]
      <4>1. CASE UNCHANGED proof_file
        BY <4>1
      <4>2. ASSUME NEW q \in Requests, ProverWrites(q)
            PROVE  proof_file'[task[r].session] = proof_file[task[r].session]
        BY <1>0, <1>3, <2>4, <4>2 DEF ProverWrites, FileType
      <4> QED
        BY <4>1, <4>2, Writes DEF Footprint
    <3> QED
      BY <1>0, <1>1, <2>2, <3>1, <3>2 DEF Files
  <2> QED
    BY <1>1, <2>2, <2>3, <2>4
<1>9. ASSUME task'[r].pc \in {"read", "read_facts"} PROVE proof_facts'[task'[r].session] \in Nearby(r)'
  <2>1. task[r].pc \in {"read", "read_facts"} \/ ProverWritesFacts(r)
    BY <1>0, <1>9 DEF Origins, ReadProof
  <2>2. /\ task[r].pc \in {"read", "read_facts", "facts"} /\ Running(r)
        /\ task'[r].session = task[r].session
    BY <1>0, <1>4, <2>1 DEF ProverWritesFacts, Stage, Running, Replies
  <2>3. ASSUME NEW q \in Requests, ProverWritesFacts(q), task[q].session = task[r].session
        PROVE  proof_facts'[task[r].session] \in Nearby(r)
    <3>1. /\ proof_facts' = [proof_facts EXCEPT ![task[q].session] = task[q].tx_read]
          /\ Running(q) /\ task[q].pc = "facts"
      BY <1>0, <2>3 DEF ProverWritesFacts, Running, Stage, Replies
    <3>2. proof_facts'[task[r].session] = task[q].tx_read /\ task[q].tx_read \in Near(q)
      BY <1>0, <1>3, <2>3, <3>1 DEF FileType, Files
    <3>3. q = r \/ q \in rivals[r]
      BY <1>0, <2>2, <2>3, <3>1 DEF Overlaps
    <3> QED
      BY <1>2, <3>2, <3>3
  <2>4. CASE ~\E q \in Requests : ProverWritesFacts(q) /\ task[q].session = task[r].session
    <3>1. task[r].pc \in {"read", "read_facts"}
      BY <2>1, <2>4
    <3>2. proof_facts'[task[r].session] = proof_facts[task[r].session]
      <4>1. CASE UNCHANGED proof_facts
        BY <4>1
      <4>2. ASSUME NEW q \in Requests, ProverWritesFacts(q)
            PROVE  proof_facts'[task[r].session] = proof_facts[task[r].session]
        BY <1>0, <1>3, <2>4, <4>2 DEF ProverWritesFacts, FileType
      <4> QED
        BY <4>1, <4>2, Writes DEF Footprint
    <3> QED
      BY <1>0, <1>1, <2>2, <3>1, <3>2 DEF Files
  <2> QED
    BY <1>1, <2>2, <2>3, <2>4
<1>8. task'[r].proof \in {NoRequest} \cup Nearby(r)'
  <2>1. CASE task'[r].proof \in {NoRequest, task[r].proof}
    BY <1>0, <1>1, <2>1 DEF Files
  <2>2. CASE ReadProof(r)
    <3>1. task[r].pc = "read" /\ task'[r].proof = proof_file[task[r].session]
      BY <1>0, <2>2, ReadProofEffect DEF ReadProof, FileType
    <3> QED
      BY <1>0, <1>1, <3>1 DEF Files
  <2> QED
    BY <1>0, <2>1, <2>2 DEF Origins
<1>10. task'[r].facts \in {NoRequest} \cup Nearby(r)'
  <2>1. CASE task'[r].facts \in {NoRequest, task[r].facts}
    BY <1>0, <1>1, <2>1 DEF Files
  <2>2. CASE ReadFacts(r)
    <3>1. task[r].pc = "read_facts" /\ task'[r].facts = proof_facts[task[r].session]
      BY <1>0, <2>2, ReadFactsEffect DEF ReadFacts, FileType
    <3> QED
      BY <1>0, <1>1, <3>1 DEF Files
  <2> QED
    BY <1>0, <2>1, <2>2 DEF Origins
<1> QED
  BY <1>5, <1>6, <1>7, <1>8, <1>9, <1>10 DEF Files

(* Without overlap a cycle submits the proof of its own transaction; with it, at
   most that of a cycle one overlap further away (the files of prove_block, which
   are named after the session). *)
THEOREM NoLeftoverProofHolds == Spec => []NoLeftoverProof
<1>1. Init => FileInv
  <2>1. SUFFICES ASSUME Init PROVE FileInv
    OBVIOUS
  <2>2. RestType
    BY <2>1 DEF Init, RestType
  <2>3. ASSUME NEW r \in Requests PROVE Overlaps(r) /\ Files(r)
    BY <2>1 DEF Init, Idle, Overlaps, Files, Running
  <2> QED
    BY <2>2, <2>3 DEF FileInv
<1>2. FileInv /\ Base /\ [Next]_vars => FileInv'
  <2>1. SUFFICES ASSUME FileInv, Base, [Next]_vars PROVE FileInv'
    OBVIOUS
  <2>2. RestType'
    BY <2>1, RestStep DEF FileInv
  <2>3. \A r \in Requests : Overlaps(r)'
    BY <2>1, OverlapsStep
  <2>4. \A r \in Requests : Files(r)'
    BY <2>1, FilesStep
  <2> QED
    BY <2>2, <2>3, <2>4 DEF FileInv
<1>3. FileInv => NoLeftoverProof
  BY DEF FileInv, Files, Nearby, Near, NoLeftoverProof
<1> QED
  BY <1>1, <1>2, <1>3, BaseHolds, PTL DEF Spec
=============================================================================
