---------------------------- MODULE CounterServer ----------------------------
(***************************************************************************)
(* The counter endpoints (apps/counter/src/routes.rs): deploy-counter,      *)
(* invoke, submit-proof and prove-block over the sessions of the server.    *)
(*                                                                         *)
(* A request is a task that runs to its next await in one step.  Only       *)
(* deploy-counter takes the FIFO mutex sncast_lock; prove-block runs in a   *)
(* spawned task that no disconnect cancels, reads its session once at the   *)
(* start and writes it at the end.  The prover is a child process that      *)
(* reads and writes files named after the session, not after the request.   *)
(*                                                                         *)
(* Every contract gets a random salt, so the deploying request names it.    *)
(* Blocks are numbered from 1; 0 stands for None.                           *)
(***************************************************************************)
EXTENDS Integers, Sequences, FiniteSets, FifoLock

CONSTANTS
    Sessions,
    Requests,       \* HTTP requests, each used once
    NoRequest,      \* None for a contract, a transaction or a file
    WithProofFile,  \* sessions whose proof_file the generic server has set
    Amounts,        \* increment_amount of prove-block
    Calls,          \* increments_per_block of prove-block
    U64,            \* 2^64 in the code
    MaxAttempts,    \* submissions of a proof (20 in the code)
    MaxBlock        \* bound: blocks of the chain

ASSUME CounterAssumption ==
    /\ Sessions # {} /\ NoRequest \notin Requests
    /\ WithProofFile \subseteq Sessions
    /\ Amounts \subseteq Nat /\ Calls \subseteq Nat
    /\ U64 \in Nat \ {0} /\ MaxAttempts \in Nat \ {0} /\ MaxBlock \in Nat \ {0}

VARIABLES
    session,        \* session -> what the server keeps of it
    task,           \* request -> what its handler knows and where it is
    lockQueue,      \* tasks queued on sncast_lock, its holder first
    tx_file,        \* session -> request that wrote {session}_tx.json
    proof_file,     \* session -> request whose transaction {session}.proof proves
    proof_facts,    \* session -> request whose facts {session}.proof_facts holds
    tx,             \* request -> its transaction
    nonces,         \* block -> nonce of the master account after it
    counter,        \* contract -> its counter
    landings,       \* request -> inclusions of its transaction (history)
    rivals          \* request -> overlapping prove-blocks of its session (history)

chainVars == <<tx, nonces, counter, landings>>
fileVars == <<tx_file, proof_file, proof_facts>>
vars == <<session, task, lockQueue, fileVars, chainVars, rivals>>

Block == Len(nonces)
Nonce == nonces[Block]

(* What a node calls latest: the last block, or the one before it when the node
   that answers lags behind the one that gave the receipt. *)
Latest == {b \in 1..Block : b >= Block - 1}

SessionState == [contract : Requests \cup {NoRequest}, deploy_block : 0..MaxBlock,
                 last_reference_block : 0..MaxBlock, invoke_block : 0..MaxBlock,
                 last_invoke_tx : Requests \cup {NoRequest}]
NewSession == [contract |-> NoRequest, deploy_block |-> 0, last_reference_block |-> 0,
               invoke_block |-> 0, last_invoke_tx |-> NoRequest]

(* deploy: lock, sncast, confirm, next_block.  invoke: call, confirm.
   submit: nonce, send.  prove: nonce, write, prove, proving, facts, read,
   read_facts, send, confirm, verify. *)
Replies == {"ok", "error", "cancelled", "panicked"}
Stages == {"idle", "lock", "sncast", "confirm", "next_block", "call", "nonce", "send",
           "write", "prove", "proving", "facts", "read", "read_facts", "verify"} \cup Replies

Task == [op : {"none", "deploy", "invoke", "submit", "prove"}, pc : Stages,
         session : Sessions, contract : Requests \cup {NoRequest},
         amount : Amounts \cup {1}, calls : Calls \cup {1},
         reference_block : 0..MaxBlock, nonce : 0..MaxBlock + 1,
         tx_read : Requests \cup {NoRequest},    \* transaction the prover has read
         proof : Requests \cup {NoRequest},      \* transaction the proof is of
         facts : Requests \cup {NoRequest},      \* transaction the facts are of
         attempt : 1..MaxAttempts]

Idle == [op |-> "none", pc |-> "idle", session |-> CHOOSE s \in Sessions : TRUE,
         contract |-> NoRequest, amount |-> 1, calls |-> 1, reference_block |-> 0,
         nonce |-> 0, tx_read |-> NoRequest, proof |-> NoRequest, facts |-> NoRequest,
         attempt |-> 1]

TxStatus == {"none", "running", "failed", "pending", "ok", "reverted", "dropped"}
Tx == [status : TxStatus, nonce : 0..MaxBlock, block : 0..MaxBlock]
NoTx == [status |-> "none", nonce |-> 0, block |-> 0]

Init ==
    /\ session = [s \in Sessions |-> NewSession]
    /\ task = [r \in Requests |-> Idle]
    /\ lockQueue = <<>>
    /\ tx_file = [s \in Sessions |-> NoRequest]
    /\ proof_file = [s \in Sessions |-> NoRequest]
    /\ proof_facts = [s \in Sessions |-> NoRequest]
    /\ tx = [r \in Requests |-> NoTx]
    /\ nonces = <<1>>
    /\ counter = [c \in Requests |-> 0]
    /\ landings = [r \in Requests |-> 0]
    /\ rivals = [r \in Requests |-> {}]

Goto(r, stage) == task' = [task EXCEPT ![r].pc = stage]
Leave(r) == lockQueue' = Leaving(lockQueue, r)
Start(r, s, op, stage) ==
    task' = [task EXCEPT ![r] = [Idle EXCEPT !.op = op, !.pc = stage, !.session = s,
                                             !.contract = session[s].contract]]

(* A request whose session lacks what its handler needs first: a contract, for
   invoke an account and for submit-proof a readable proof file, both of which
   the generic server provides. *)
Refused(r, s) ==
    /\ task[r].pc = "idle"
    /\ \E op \in {"invoke", "submit"} \cup
                  (IF session[s].contract = NoRequest THEN {"prove"} ELSE {}) :
           Start(r, s, op, "error")
    /\ UNCHANGED <<session, lockQueue, fileVars, chainVars, rivals>>

(* The node takes a transaction whose nonce is the account's current one and
   which no pending transaction of the account already uses. *)
MasterPending(n) ==
    \E q \in Requests : /\ tx[q].status = "pending" /\ tx[q].nonce = n
                        /\ task[q].op # "invoke"
NonceFree(n) == n = Nonce /\ ~MasterPending(n)

-----------------------------------------------------------------------------
(* POST deploy-counter: the lock is held until the handler returns. *)

DeployCounter(r, s) ==
    /\ task[r].pc = "idle"
    /\ Start(r, s, "deploy", "lock")
    /\ lockQueue' = Append(lockQueue, r)
    /\ UNCHANGED <<session, fileVars, chainVars, rivals>>

AcquireLock(r) ==
    /\ task[r].pc = "lock"
    /\ Head(lockQueue) = r
    /\ Goto(r, "sncast")
    /\ tx' = [tx EXCEPT ![r].status = "running"]
    /\ UNCHANGED <<session, lockQueue, fileVars, nonces, counter, landings, rivals>>

(* No class hash, a failing child, or no address or hash in its output. *)
SncastFailed(r) ==
    /\ task[r].pc = "sncast"
    /\ tx[r].status # "running"
    /\ Goto(r, "error")
    /\ Leave(r)
    /\ UNCHANGED <<session, fileVars, chainVars, rivals>>

SncastDeployed(r) ==
    /\ task[r].pc = "sncast"
    /\ tx[r].status \notin {"running", "failed"}
    /\ Goto(r, "confirm")
    /\ UNCHANGED <<session, lockQueue, fileVars, chainVars, rivals>>

DeployAssumedConfirmed(r) ==
    /\ task[r].op = "deploy"
    /\ task[r].pc = "confirm"
    /\ Goto(r, "next_block")
    /\ UNCHANGED <<session, lockQueue, fileVars, chainVars, rivals>>

DeployConfirmed(r) ==
    /\ task[r].op = "deploy"
    /\ task[r].pc = "confirm"
    /\ tx[r].status = "ok"
    /\ Goto(r, "next_block")
    /\ UNCHANGED <<session, lockQueue, fileVars, chainVars, rivals>>

(* wait_for_tx failed: 504, although the transaction may still land. *)
DeployUnconfirmed(r) ==
    /\ task[r].op = "deploy"
    /\ task[r].pc = "confirm"
    /\ Goto(r, "error")
    /\ Leave(r)
    /\ UNCHANGED <<session, fileVars, chainVars, rivals>>

(* The result of wait_for_block_after is ignored; an earlier contract of the
   session is forgotten. *)
StoreCounter(r) ==
    /\ task[r].pc = "next_block"
    /\ session' = [session EXCEPT ![task[r].session] =
           [@ EXCEPT !.contract = r, !.deploy_block = tx[r].block,
                     !.last_reference_block = tx[r].block]]
    /\ Goto(r, "ok")
    /\ Leave(r)
    /\ UNCHANGED <<fileVars, chainVars, rivals>>

-----------------------------------------------------------------------------
(* POST invoke: a transaction of the user's own account, signed by the client. *)

InvokeIncrement(r, s) ==
    /\ task[r].pc = "idle"
    /\ session[s].contract # NoRequest
    /\ Start(r, s, "invoke", "call")
    /\ UNCHANGED <<session, lockQueue, fileVars, chainVars, rivals>>

InvokeSubmitted(r) ==
    /\ task[r].pc = "call"
    /\ tx[r].status # "none"
    /\ session' = [session EXCEPT ![task[r].session].last_invoke_tx = r]
    /\ Goto(r, "confirm")
    /\ UNCHANGED <<lockQueue, fileVars, chainVars, rivals>>

(* The node refused it, or its answer was lost. *)
InvokeError(r) ==
    /\ task[r].pc = "call"
    /\ Goto(r, "error")
    /\ UNCHANGED <<session, lockQueue, fileVars, chainVars, rivals>>

InvokeConfirmed(r) ==
    /\ task[r].op = "invoke"
    /\ task[r].pc = "confirm"
    /\ tx[r].status = "ok"
    /\ session' = [session EXCEPT ![task[r].session].invoke_block = tx[r].block]
    /\ Goto(r, "ok")
    /\ UNCHANGED <<lockQueue, fileVars, chainVars, rivals>>

(* "Tx submitted but not yet confirmed", also when it was reverted. *)
InvokeUnconfirmed(r) ==
    /\ task[r].op = "invoke"
    /\ task[r].pc = "confirm"
    /\ Goto(r, "ok")
    /\ UNCHANGED <<session, lockQueue, fileVars, chainVars, rivals>>

-----------------------------------------------------------------------------
(* POST submit-proof: an increment(1) with the session's proof, sent once with
   the nonce get_nonce gives. *)

SubmitProof(r, s) ==
    /\ task[r].pc = "idle"
    /\ s \in WithProofFile
    /\ session[s].contract # NoRequest
    /\ Start(r, s, "submit", "nonce")
    /\ UNCHANGED <<session, lockQueue, fileVars, chainVars, rivals>>

(* get_nonce: the nonce of the pre-confirmed block, which may hold a pending
   transaction, and that of latest if the node does not know such a block. *)
get_nonce == {nonces[b] : b \in Latest} \cup {n \in {Nonce + 1} : MasterPending(Nonce)}

SubmitNonce(r) ==
    /\ task[r].op = "submit"
    /\ task[r].pc = "nonce"
    /\ \E n \in get_nonce : task' = [task EXCEPT ![r].pc = "send", ![r].nonce = n]
    /\ UNCHANGED <<session, lockQueue, fileVars, chainVars, rivals>>

-----------------------------------------------------------------------------
(* GET prove-block. *)

Increment(t) == t.amount * t.calls

(* The session is read here and not again.  An overflow of expected_increment, a
   u64 that is only announced, ends the task in a build with overflow checks. *)
ProveBlock(r, s, amount, calls) ==
    LET reference == IF session[s].last_reference_block # 0
                     THEN session[s].last_reference_block ELSE session[s].deploy_block
        running == {q \in Requests : /\ task[q].op = "prove" /\ task[q].session = s
                                     /\ task[q].pc \notin Replies}
    IN
    /\ task[r].pc = "idle"
    /\ session[s].contract # NoRequest
    /\ reference # 0
    /\ \E stage \in {"nonce"} \cup (IF amount * calls >= U64 THEN {"panicked"} ELSE {}) :
           task' = [task EXCEPT ![r] =
               [Idle EXCEPT !.op = "prove", !.pc = stage, !.session = s,
                            !.contract = session[s].contract, !.amount = amount,
                            !.calls = calls, !.reference_block = reference]]
    /\ rivals' = [q \in Requests |-> IF q = r THEN running
                                     ELSE IF q \in running THEN rivals[q] \cup {r}
                                     ELSE rivals[q]]
    /\ UNCHANGED <<session, lockQueue, fileVars, chainVars>>

ProveNonceLatest(r) ==
    /\ task[r].op = "prove"
    /\ task[r].pc = "nonce"
    /\ task' = [task EXCEPT ![r].pc = "write", ![r].nonce = Nonce]
    /\ UNCHANGED <<session, lockQueue, fileVars, chainVars, rivals>>

(* get_nonce_at_block(reference_block) *)
ProveNonce(r) ==
    /\ task[r].op = "prove"
    /\ task[r].pc = "nonce"
    /\ task' = [task EXCEPT ![r].pc = "write",
                            ![r].nonce = nonces[task[r].reference_block]]
    /\ UNCHANGED <<session, lockQueue, fileVars, chainVars, rivals>>

WriteTx(r) ==
    /\ task[r].pc = "write"
    /\ tx_file' = [tx_file EXCEPT ![task[r].session] = r]
    /\ Goto(r, "prove")
    /\ UNCHANGED <<session, lockQueue, proof_file, proof_facts, chainVars, rivals>>

(* The child process reads --tx-json ... *)
ProverReads(r) ==
    /\ task[r].pc = "prove"
    /\ task' = [task EXCEPT ![r].pc = "proving", ![r].tx_read = tx_file[task[r].session]]
    /\ UNCHANGED <<session, lockQueue, fileVars, chainVars, rivals>>

(* ... runs it on the state of --block-number, where the nonce must be the
   account's and the contract must exist, and writes --output ... *)
Provable(q, block) ==
    /\ task[q].nonce = nonces[block]
    /\ tx[task[q].contract].block <= block

ProverWrites(r) ==
    /\ task[r].pc = "proving"
    /\ Provable(task[r].tx_read, task[r].reference_block)
    /\ proof_file' = [proof_file EXCEPT ![task[r].session] = task[r].tx_read]
    /\ Goto(r, "facts")
    /\ UNCHANGED <<session, lockQueue, tx_file, proof_facts, chainVars, rivals>>

(* ... and the proof facts next to it. *)
ProverWritesFacts(r) ==
    /\ task[r].pc = "facts"
    /\ proof_facts' = [proof_facts EXCEPT ![task[r].session] = task[r].tx_read]
    /\ Goto(r, "read")
    /\ UNCHANGED <<session, lockQueue, tx_file, proof_file, chainVars, rivals>>

ProverStatusIgnored(r) ==
    /\ task[r].pc \in {"proving", "facts"}
    /\ proof_file[task[r].session] # NoRequest
    /\ Goto(r, "read")
    /\ UNCHANGED <<session, lockQueue, fileVars, chainVars, rivals>>

(* A failing child ends the cycle, also when an older proof file exists. *)
ProverFails(r) ==
    /\ task[r].pc \in {"proving", "facts"}
    /\ Goto(r, "error")
    /\ UNCHANGED <<session, lockQueue, fileVars, chainVars, rivals>>

(* The proof and its facts are read one after the other; the transaction to send
   is still this task's own. *)
ReadProof(r) ==
    /\ task[r].pc = "read"
    /\ task' = [task EXCEPT ![r].pc = "read_facts", ![r].proof = proof_file[task[r].session]]
    /\ UNCHANGED <<session, lockQueue, fileVars, chainVars, rivals>>

ReadFacts(r) ==
    /\ task[r].pc = "read_facts"
    /\ task' = [task EXCEPT ![r].pc = "send", ![r].facts = proof_facts[task[r].session]]
    /\ UNCHANGED <<session, lockQueue, fileVars, chainVars, rivals>>

Accept(r, n) == tx' = [tx EXCEPT ![r] = [NoTx EXCEPT !.status = "pending", !.nonce = n]]

RetryForever(r) ==
    /\ task[r].op = "prove"
    /\ task' = [task EXCEPT ![r].attempt = @ + 1]

(* Any JSON-RPC error is retried by prove-block, and may follow an acceptance
   whose answer an upstream lost; submit-proof sends once. *)
Retry(r) ==
    /\ task[r].op = "prove"
    /\ task[r].attempt < MaxAttempts
    /\ task' = [task EXCEPT ![r].attempt = @ + 1]

Respond(r) ==
    \/ Goto(r, IF task[r].op = "prove" THEN "confirm" ELSE "ok")
    \/ Retry(r)
    \/ Goto(r, "error")

SendNewNonce(r) ==
    /\ task[r].pc = "send"
    /\ NonceFree(Nonce)
    /\ Accept(r, Nonce)
    /\ Respond(r)
    /\ UNCHANGED <<session, lockQueue, fileVars, nonces, counter, landings, rivals>>

SendAccepted(r) ==
    /\ task[r].pc = "send"
    /\ NonceFree(task[r].nonce)
    /\ Accept(r, task[r].nonce)
    /\ Respond(r)
    /\ UNCHANGED <<session, lockQueue, fileVars, nonces, counter, landings, rivals>>

SendRefused(r) ==
    /\ task[r].pc = "send"
    /\ Retry(r)
    /\ UNCHANGED <<session, lockQueue, fileVars, chainVars, rivals>>

ProofIncludedUnchecked(r) ==
    /\ task[r].op = "prove"
    /\ task[r].pc = "confirm"
    /\ tx[r].block # 0
    /\ session' = [session EXCEPT ![task[r].session].last_reference_block = tx[r].block]
    /\ Goto(r, "verify")
    /\ UNCHANGED <<lockQueue, fileVars, chainVars, rivals>>

ProofIncludedLatest(r) ==
    /\ task[r].op = "prove"
    /\ task[r].pc = "confirm"
    /\ tx[r].status = "ok"
    /\ session' = [session EXCEPT ![task[r].session].last_reference_block = Block]
    /\ Goto(r, "verify")
    /\ UNCHANGED <<lockQueue, fileVars, chainVars, rivals>>

ProofIncluded(r) ==
    /\ task[r].op = "prove"
    /\ task[r].pc = "confirm"
    /\ tx[r].status = "ok"
    /\ session' = [session EXCEPT ![task[r].session].last_reference_block = tx[r].block]
    /\ Goto(r, "verify")
    /\ UNCHANGED <<lockQueue, fileVars, chainVars, rivals>>

(* Every other early return of the spawned task and of submit-proof. *)
Fails(r) ==
    /\ \/ task[r].pc \in {"nonce", "write", "prove", "read", "read_facts", "send"}
       \/ task[r].op = "prove" /\ task[r].pc = "confirm"
    /\ Goto(r, "error")
    /\ UNCHANGED <<session, lockQueue, fileVars, chainVars, rivals>>

(* The counter is read at latest and sent with the complete event as it is, or as
   0 when the call fails: nothing depends on it. *)
Verify(r) ==
    /\ task[r].pc = "verify"
    /\ Goto(r, "ok")
    /\ UNCHANGED <<session, lockQueue, fileVars, chainVars, rivals>>

-----------------------------------------------------------------------------
(* The environment. *)

(* The client of a handler that is not spawned goes away. *)
ClientDisconnect(r) ==
    /\ task[r].op \in {"deploy", "invoke", "submit"}
    /\ task[r].pc \notin Replies
    /\ Goto(r, "cancelled")
    /\ Leave(r)
    /\ UNCHANGED <<session, fileVars, chainVars, rivals>>

(* sncast's child outlives a cancelled handler. *)
SncastSubmit(r) ==
    /\ tx[r].status = "running"
    /\ NonceFree(Nonce)
    /\ Accept(r, Nonce)
    /\ UNCHANGED <<session, task, lockQueue, fileVars, nonces, counter, landings, rivals>>

SncastFail(r) ==
    /\ tx[r].status = "running"
    /\ tx' = [tx EXCEPT ![r].status = "failed"]
    /\ UNCHANGED <<session, task, lockQueue, fileVars, nonces, counter, landings, rivals>>

NodeAcceptsInvoke(r) ==
    /\ task[r].pc = "call"
    /\ tx[r].status = "none"
    /\ Accept(r, 0)
    /\ UNCHANGED <<session, task, lockQueue, fileVars, nonces, counter, landings, rivals>>

(* A block with one transaction of ours; those of the master account come in
   nonce order.  A transaction may revert, and a call does when its contract is
   not there. *)
Include(r) ==
    LET t == task[r] IN
    /\ tx[r].status = "pending"
    /\ Block < MaxBlock
    /\ t.op # "invoke" => tx[r].nonce = Nonce
    /\ nonces' = Append(nonces, IF t.op = "invoke" THEN Nonce ELSE Nonce + 1)
    /\ landings' = [landings EXCEPT ![r] = @ + 1]
    /\ \/ /\ tx' = [tx EXCEPT ![r].status = "ok", ![r].block = Block + 1]
          /\ counter' = IF t.op = "deploy" THEN counter
                        ELSE [counter EXCEPT ![t.contract] = @ + Increment(t)]
       \/ /\ tx' = [tx EXCEPT ![r].status = "reverted", ![r].block = Block + 1]
          /\ UNCHANGED counter
    /\ UNCHANGED <<session, task, lockQueue, fileVars, rivals>>

Drop(r) ==
    /\ tx[r].status = "pending"
    /\ tx' = [tx EXCEPT ![r].status = "dropped"]
    /\ UNCHANGED <<session, task, lockQueue, fileVars, nonces, counter, landings, rivals>>

(* A block of others, with or without one of the master account's transactions
   that these endpoints did not send. *)
OtherBlock ==
    /\ Block < MaxBlock
    /\ \E n \in {Nonce, Nonce + 1} : nonces' = Append(nonces, n)
    /\ UNCHANGED <<session, task, lockQueue, fileVars, tx, counter, landings, rivals>>

-----------------------------------------------------------------------------
Handler(r) ==
    \/ AcquireLock(r) \/ SncastFailed(r) \/ SncastDeployed(r)
    \/ DeployConfirmed(r) \/ DeployUnconfirmed(r) \/ StoreCounter(r)
    \/ InvokeSubmitted(r) \/ InvokeError(r) \/ InvokeConfirmed(r) \/ InvokeUnconfirmed(r)
    \/ SubmitNonce(r) \/ ProveNonce(r) \/ WriteTx(r) \/ ProverReads(r) \/ ProverWrites(r)
    \/ ProverWritesFacts(r) \/ ProverFails(r) \/ ReadProof(r) \/ ReadFacts(r)
    \/ SendAccepted(r) \/ SendRefused(r)
    \/ ProofIncluded(r) \/ Fails(r) \/ Verify(r)

Environment(r) ==
    \/ ClientDisconnect(r) \/ SncastSubmit(r) \/ SncastFail(r) \/ NodeAcceptsInvoke(r)
    \/ Include(r) \/ Drop(r)

Next ==
    \/ \E r \in Requests, s \in Sessions :
           \/ Refused(r, s) \/ DeployCounter(r, s) \/ InvokeIncrement(r, s) \/ SubmitProof(r, s)
           \/ \E amount \in Amounts, calls \in Calls : ProveBlock(r, s, amount, calls)
    \/ \E r \in Requests : Handler(r) \/ Environment(r)
    \/ OtherBlock

Spec == Init /\ [][Next]_vars

-----------------------------------------------------------------------------
(* Properties. *)

(* The sessions, tasks, files and transactions keep their types. *)
TypeOK ==
    /\ session \in [Sessions -> SessionState]
    /\ task \in [Requests -> Task]
    /\ lockQueue \in Seq(Requests)
    /\ tx_file \in [Sessions -> Requests \cup {NoRequest}]
    /\ proof_file \in [Sessions -> Requests \cup {NoRequest}]
    /\ proof_facts \in [Sessions -> Requests \cup {NoRequest}]
    /\ tx \in [Requests -> Tx]
    /\ nonces \in Seq(1..MaxBlock)
    /\ counter \in [Requests -> Nat]
    /\ landings \in [Requests -> 0..MaxBlock]
    /\ rivals \in [Requests -> SUBSET Requests]

(* A session names a contract only once it exists on the chain, at exactly the
   block the session records, whatever the child, the mempool and a
   disconnecting client do (deploy_counter). *)
SessionContractExists ==
    \A s \in Sessions : session[s].contract # NoRequest =>
        /\ tx[session[s].contract].status = "ok"
        /\ tx[session[s].contract].block = session[s].deploy_block

(* The increments of one prove-block reach the chain at most once: a
   submission that was accepted but answered with an error is repeated with
   the same nonce (the loop of 20 attempts in prove_block). *)
IncrementOnce == \A r \in Requests : landings[r] <= 1

(* What was proved is what runs: between the reference block of a proof and
   the block that includes it, the account has sent nothing else, neither
   another session's cycle nor a deployment (nonce at reference_block). *)
ProvedAccountState ==
    \A r \in Requests :
        /\ task[r].op = "prove"
        /\ tx[r].status \in {"ok", "reverted"}
        => nonces[task[r].reference_block] = nonces[tx[r].block - 1]

(* The proof a cycle submits and the facts it submits with it are of its own
   transaction, of one of a cycle of the session that overlapped it, or of one
   of a cycle that overlapped such a one (whose prover had read it before it
   ended): without overlap the files of a finished or failed cycle are never
   submitted (prove_block's check of the prover's status). *)
NoLeftoverProof ==
    \A r \in Requests :
        {task[r].proof, task[r].facts} \subseteq
            {NoRequest, r} \cup rivals[r] \cup UNION {rivals[q] : q \in rivals[r]}

(* A later prove-block starts from a reference block in which a transaction of
   the session's own took effect (deploy_counter and prove_block). *)
ReferenceIsOwn ==
    \A s \in Sessions : session[s].last_reference_block # 0 =>
        \E r \in Requests :
            /\ task[r].session = s
            /\ task[r].op \in {"deploy", "prove"}
            /\ tx[r].status = "ok"
            /\ tx[r].block = session[s].last_reference_block

(* A cycle says complete only when the chain has its increments, all of them: a
   reverted, dropped or late transaction never ends in a complete event, and
   a product that overflowed what is announced is counted in full (phase 4 of
   prove_block; sncast_invoke of the coin-flip server goes on in these cases). *)
CompleteCounted ==
    \A r \in Requests :
        task[r].op = "prove" /\ task[r].pc = "ok" =>
            /\ tx[r].status = "ok"
            /\ counter[task[r].contract] >= Increment(task[r])

-----------------------------------------------------------------------------
(* What a comment says of the program. *)

(* "Update reference block for next prove" (routes.rs:923): the session's
   contract exists in its reference block, so that the next prove can run. *)
ReferenceUsable ==
    \A s \in Sessions : session[s].contract # NoRequest =>
        session[s].last_reference_block >= session[s].deploy_block
=============================================================================
