----------------------------- MODULE E2eDrivers -----------------------------
(***************************************************************************)
(* The command-line drivers that run the whole flow against a live chain:   *)
(* the end-to-end tests of the counter, messages and coin-flip apps and the *)
(* health check.  Each is a script of steps over one account; what differs  *)
(* is what a step does when it goes wrong.  The scripts are data, run by    *)
(* the actions below, and the polling loops of snip36-core's rpc.rs are     *)
(* modelled with their deadlines.                                           *)
(*                                                                         *)
(* The chain is the blocks so far, with the account's nonce and the number  *)
(* of increments after each.  The node's "latest" may lag one block behind  *)
(* the receipts it gives out.  A transaction may be late, revert or be      *)
(* dropped, also after the program has given up its receipt and sent the    *)
(* next one, and another user of the account may send one.  A call to the   *)
(* node, sncast or the prover may never return: none has a time-out.        *)
(***************************************************************************)
EXTENDS Integers, Sequences, FiniteSets

CONSTANTS
    Rounds,         \* snos_blocks of the counter driver
    MaxAttempts,    \* submissions of a proof (20 in the code)
    MaxPolls,       \* polls of a waiting loop before its deadline
    MaxOthers       \* bound: blocks without a transaction of the driver

ASSUME DriversAssumption ==
    /\ Rounds \in Nat \ {0} /\ MaxAttempts \in Nat \ {0}
    /\ MaxPolls \in Nat /\ MaxOthers \in Nat

VARIABLES
    driver, abridged,   \* which program, and whether --prove-only (--quick)
    gateway_url,        \* a gateway is configured
    pc, failed, result, \* step of the script, FAIL_COUNT, how the program ended
    stalled,            \* a call of the program never returns
    round,              \* transactions constructed
    tx, tx_hash,        \* last transaction; whether its hash is known
    left,               \* earlier ones that are still in flight
    reference_block, nonce, attempt, polls,
    message,            \* what the message check saw
    blocks,             \* sequence of [nonce, counter]
    done,               \* transaction -> block in which it took effect, or 0
    others

inputVars == <<driver, abridged, gateway_url>>
waitVars == <<attempt, polls>>
chainVars == <<tx, left, blocks, done, others>>
vars == <<inputVars, pc, failed, result, stalled, round, tx_hash, reference_block, nonce,
          waitVars, message, chainVars>>

-----------------------------------------------------------------------------
(* Steps.  "bad" lists what a failure of the step can lead to:
   stop: fail() and bail!   bail: an error returned without fail()
   fail: fail() and go on   ignore: go on   skip: fail() and go to the summary *)

Step == [op |-> "check", kind |-> "none", bad |-> {}, no_hash |-> {}, ref |-> FALSE,
         via |-> "rpc", resend |-> FALSE]

Check(bad) == [Step EXCEPT !.bad = bad]
Send(kind, bad) == [Step EXCEPT !.op = "send", !.kind = kind, !.bad = bad]
Await(bad, no_hash, ref) == [Step EXCEPT !.op = "await", !.bad = bad,
                                         !.no_hash = no_hash, !.ref = ref]
NextBlock == [Step EXCEPT !.op = "next_block", !.bad = {"ignore"}]
Nonce(at) == [Step EXCEPT !.op = "nonce", !.kind = at, !.bad = {"bail"}]
Prove == [Step EXCEPT !.op = "prove", !.bad = {"stop", "bail"}]
Messages(absent, differs) == [Step EXCEPT !.op = "messages", !.bad = absent,
                                          !.no_hash = differs]
Submit(via, resend) == [Step EXCEPT !.op = "submit", !.kind = "proof", !.bad = {"stop"},
                                    !.via = via, !.resend = resend]
ReadCounter(bad) == [Step EXCEPT !.op = "counter", !.bad = bad]

(* apps/counter/src/e2e.rs *)
CounterPrereqs == <<Check({"bail"})>>
CounterImport == <<Check({"stop", "bail"}), Check({"stop"})>>
CounterCompile == <<Check({"stop", "bail"})>>
CounterDeclare == <<Send("declare", {"stop", "bail"}), Await({"bail"}, {"ignore"}, FALSE)>>
CounterDeploy == <<Send("deploy", {"stop", "bail"})>>
CounterDeployed == <<Await({"stop"}, {"stop"}, TRUE)>>
CounterCalldata == <<Check({"bail"}), NextBlock>>
CounterConstruct == <<Nonce("reference"), Check({"bail"})>>
CounterProve == <<Prove>>
CounterSubmit == <<Check({"stop", "bail"}), Submit("either", TRUE)>>
CounterIncluded == <<Await({"stop"}, {}, TRUE), NextBlock>>
CounterVerify == <<ReadCounter({"stop"})>>
CounterFinal == IF abridged THEN <<>> ELSE <<ReadCounter({"fail"})>>

CounterRound ==
    CounterConstruct \o CounterProve \o
        IF abridged THEN <<>> ELSE CounterSubmit \o CounterIncluded \o CounterVerify

(* CounterRound, Rounds times. *)
CounterRounds ==
    [i \in 1..(Rounds * Len(CounterRound)) |-> CounterRound[((i - 1) % Len(CounterRound)) + 1]]

CounterScript ==
    CounterPrereqs \o CounterImport \o CounterCompile \o CounterDeclare \o CounterDeploy
        \o CounterDeployed \o CounterCalldata \o CounterRounds \o CounterFinal

(* apps/counter/src/e2e_messages.rs; sncast's import result is dropped, the
   declaration's receipt too *)
CounterMsgPrereqs == <<Check({"bail"})>>
CounterMsgImport == <<Check({"stop"})>>
CounterMsgCompile == <<Check({"stop", "bail"})>>
CounterMsgDeclare == <<Check({"bail"}), Send("declare", {"stop", "bail"}),
                       Await({"ignore"}, {"ignore"}, FALSE)>>
CounterMsgDeploy == <<Send("deploy", {"stop", "bail"})>>
CounterMsgDeployed == <<Await({"stop"}, {"stop"}, TRUE)>>
CounterMsgConstruct == <<Nonce("latest"), Check({"bail"})>>
CounterMsgProve == <<Prove>>
CounterMsgVerify == <<Messages({"stop", "bail"}, {"ignore"})>>
CounterMsgSubmit == <<Check({"stop", "bail"}), Submit("either", TRUE)>>
CounterMsgIncluded == <<Await({"stop"}, {}, FALSE)>>

CounterMsgScript ==
    CounterMsgPrereqs \o CounterMsgImport \o CounterMsgCompile \o CounterMsgDeclare
        \o CounterMsgDeploy \o CounterMsgDeployed \o CounterMsgConstruct \o CounterMsgProve
        \o CounterMsgVerify \o IF abridged THEN <<>> ELSE CounterMsgSubmit \o CounterMsgIncluded

(* apps/messages/src/e2e.rs *)
MessagesPrereqs == <<Check({"bail"})>>
MessagesImport == <<Check({"stop"})>>
MessagesCompile == <<Check({"stop", "bail"})>>
MessagesDeclare == <<Check({"bail"}), Send("declare", {"stop", "bail"}),
                     Await({"ignore"}, {"ignore"}, FALSE)>>
MessagesDeploy == <<Send("deploy", {"stop", "bail"})>>
MessagesDeployed == <<Await({"stop"}, {"stop"}, TRUE)>>
MessagesConstruct == <<Nonce("latest"), Check({"bail"})>>
MessagesProve == <<Prove>>
MessagesVerify == <<Messages({"stop", "bail"}, {"ignore"})>>
MessagesSubmit == <<Check({"stop", "bail"}), Submit("either", TRUE)>>
MessagesIncluded == <<Await({"stop"}, {}, FALSE)>>

MessagesScript ==
    MessagesPrereqs \o MessagesImport \o MessagesCompile \o MessagesDeclare \o MessagesDeploy
        \o MessagesDeployed \o MessagesConstruct \o MessagesProve \o MessagesVerify
        \o IF abridged THEN <<>> ELSE MessagesSubmit \o MessagesIncluded

(* apps/coinflip/src/e2e.rs: the message must give the outcome computed here *)
CoinflipPrereqs == <<Check({"bail"})>>
CoinflipImport == <<Check({"stop"})>>
CoinflipCompile == <<Check({"stop", "bail"})>>
CoinflipDeclare == <<Check({"bail"}), Send("declare", {"stop", "bail"}),
                     Await({"bail"}, {"ignore"}, FALSE)>>
CoinflipDeploy == <<Send("deploy", {"stop", "bail"})>>
CoinflipDeployed == <<Await({"stop"}, {"stop"}, TRUE)>>
CoinflipConstruct == <<Nonce("latest"), Check({"bail"})>>
CoinflipProve == <<Prove>>
CoinflipVerify == <<Messages({"stop", "bail", "fail"}, {"fail"})>>
CoinflipSubmit == <<Check({"stop", "bail"}), Submit("rpc", FALSE)>>
CoinflipIncluded == <<Await({"stop"}, {}, FALSE)>>

CoinflipScript ==
    CoinflipPrereqs \o CoinflipImport \o CoinflipCompile \o CoinflipDeclare \o CoinflipDeploy
        \o CoinflipDeployed \o CoinflipConstruct \o CoinflipProve \o CoinflipVerify
        \o IF abridged THEN <<>> ELSE CoinflipSubmit \o CoinflipIncluded

(* apps/coinflip/src/e2e_settlement.rs *)
declare_and_deploy(declare, deploy) ==
    <<Send(declare, {"bail"}), Await({"ignore"}, {"ignore"}, FALSE),
      Send(deploy, {"bail"}), Await({"ignore"}, {"ignore"}, FALSE)>>
sncast_invoke(function) == <<Send(function, {"bail"}), Await({"bail"}, {"bail"}, FALSE)>>

SettlementPrereqs == <<Check({"bail"})>>
SettlementImport == <<Check({"stop"})>>
SettlementCompile == <<Check({"stop", "bail"})>>
SettlementDeploy == declare_and_deploy("declare", "deploy")
SettlementBank == declare_and_deploy("declare_bank", "deploy_bank")
SettlementFund == sncast_invoke("approve") \o sncast_invoke("transfer")
SettlementDeposit == <<Check({"bail"})>> \o sncast_invoke("deposit")
SettlementMatch == sncast_invoke("match_deposit") \o <<Await({"bail"}, {}, TRUE)>>
SettlementConstruct == <<Nonce("latest"), Check({"bail"})>>
SettlementProve == <<Prove>>
SettlementVerify == <<Messages({"ignore", "bail"}, {"fail"})>>
SettlementSubmit == <<Check({"bail"}), Submit("gateway", FALSE)>>
SettlementIncluded == <<Await({"stop"}, {}, FALSE)>>
SettlementSettle == sncast_invoke("settle")
SettlementBalance == <<Check({"fail"})>>

SettlementScript ==
    SettlementPrereqs \o SettlementImport \o SettlementCompile \o SettlementDeploy
        \o SettlementBank \o SettlementFund \o SettlementDeposit \o SettlementMatch
        \o SettlementConstruct \o SettlementProve \o SettlementVerify
        \o IF abridged THEN <<>>
           ELSE SettlementSubmit \o SettlementIncluded \o SettlementSettle \o SettlementBalance

(* apps/counter/src/health.rs: a failing check of the full flow returns from it *)
check_rpc == <<Check({"fail"})>>
check_balance == <<Check({"fail"})>>
check_oz_class == <<Check({"fail"})>>
HealthTools == <<Check({"skip"})>>
HealthCompile == <<Check({"skip"})>>
HealthDeclare == <<Send("declare", {"skip"})>>
HealthDeploy == <<Send("deploy", {"skip"})>>
HealthDeployed == <<Await({"skip"}, {"ignore"}, FALSE), NextBlock>>
HealthInvoke == <<Send("invoke", {"skip"})>>
HealthInvoked == <<Await({"skip"}, {"skip"}, FALSE), NextBlock>>
HealthCounter == <<ReadCounter({"fail"})>>

HealthScript ==
    check_rpc \o check_balance \o check_oz_class
        \o IF abridged THEN <<>>
           ELSE HealthTools \o HealthCompile \o HealthDeclare \o HealthDeploy \o HealthDeployed
                    \o HealthInvoke \o HealthInvoked \o HealthCounter

Drivers == {"counter", "counter_messages", "messages", "coinflip", "settlement", "health"}

Script ==
    CASE driver = "counter" -> CounterScript
      [] driver = "counter_messages" -> CounterMsgScript
      [] driver = "messages" -> MessagesScript
      [] driver = "coinflip" -> CoinflipScript
      [] driver = "settlement" -> SettlementScript
      [] driver = "health" -> HealthScript

-----------------------------------------------------------------------------
(* The chain: what a transaction needs to have taken effect before it. *)

Kinds == {"declare", "deploy", "declare_bank", "deploy_bank", "approve", "transfer",
          "deposit", "match_deposit", "settle", "invoke", "proof"}

Needs(kind) ==
    CASE kind \in {"deploy"} -> {"declare"}
      [] kind = "deploy_bank" -> {"declare_bank"}
      [] kind \in {"invoke", "proof"} -> {"deploy"}
      [] kind = "deposit" -> {"deploy_bank", "approve"}
      [] kind = "match_deposit" -> {"deposit"}
      [] kind = "settle" -> {"match_deposit"}
      [] OTHER -> {}

Block == Len(blocks)
AccountNonce == blocks[Block].nonce
Latest == {blocks[b] : b \in {Block - 1, Block} \cap 1..Block}
InFlight == left \cup (IF tx.status = "pending" THEN {tx} ELSE {})
NonceFree(n) == \A t \in InFlight : t.nonce # n

(* The nonces that follow the account's and those of transactions in flight. *)
Pending == {t.nonce + 1 : t \in {u \in InFlight : u.nonce >= AccountNonce}}
FreeNonces == {n \in {AccountNonce} \cup Pending : NonceFree(n)}

(* pre_confirmed, which may hold transactions in flight, else latest. *)
get_nonce == {b.nonce : b \in Latest} \cup Pending

(* A new transaction; the last one may still be in flight. *)
Post(kind, n) ==
    /\ tx' = [kind |-> kind, status |-> "pending", nonce |-> n, block |-> 0]
    /\ left' = InFlight

NoTx == [kind |-> "none", status |-> "none", nonce |-> 0, block |-> 0]

(* The classes may have been declared by an earlier run. *)
Init ==
    /\ driver \in Drivers /\ abridged \in BOOLEAN /\ gateway_url \in BOOLEAN
    /\ pc = 1 /\ failed = 0 /\ result = "running" /\ stalled = FALSE /\ round = 0
    /\ tx = NoTx /\ tx_hash = FALSE /\ left = {}
    /\ reference_block = 0 /\ nonce = 0 /\ attempt = 1 /\ polls = 0
    /\ message = "none"
    /\ blocks = <<[nonce |-> 1, counter |-> 0]>>
    /\ \E declared \in SUBSET {"declare", "declare_bank"} :
           done = [k \in Kinds |-> IF k \in declared THEN 1 ELSE 0]
    /\ others = 0

-----------------------------------------------------------------------------
(* The driver. *)

At(op) == result = "running" /\ pc <= Len(Script) /\ Script[pc].op = op
Now == Script[pc]
Advance == pc' = pc + 1 /\ UNCHANGED <<failed, result>>

(* One of the outcomes that the step allows for its failure. *)
Fault(bad) ==
    \E b \in bad :
        /\ pc' = CASE b \in {"fail", "ignore"} -> pc + 1
                   [] b = "skip" -> Len(Script) + 1
                   [] OTHER -> pc
        /\ failed' = IF b \in {"stop", "fail", "skip"} THEN failed + 1 ELSE failed
        /\ result' = IF b \in {"stop", "bail"} THEN "red" ELSE result

(* A tool or a read that leaves the chain alone: prerequisites, sncast account
   import, scarb build, class hash, files, balances. *)
DoCheck ==
    /\ At("check")
    /\ Advance \/ Fault(Now.bad)
    /\ UNCHANGED <<inputVars, round, tx_hash, reference_block, nonce, waitVars, message,
                   chainVars>>

(* sncast declare, deploy or invoke.  Its output may lack the hash, which only
   an invocation counts as a failure. *)
SendTransaction ==
    /\ At("send")
    /\ \E n \in FreeNonces : Post(Now.kind, n)
    /\ \/ tx_hash' = TRUE /\ Advance
       \/ /\ tx_hash' = FALSE
          /\ IF Now.kind \in {"declare", "deploy", "declare_bank", "deploy_bank"}
             THEN Advance ELSE Fault(Now.bad)
    /\ UNCHANGED <<inputVars, round, reference_block, nonce, waitVars, message, blocks, done,
                   others>>

(* No declaration, and the program goes on: get_class finds the class, sncast
   says that it is declared already, or sncast fails for another reason and any
   long hex in its output is taken for the class hash (parse_long_hex). *)
DeclareSkipped ==
    /\ At("send")
    /\ Now.kind \in {"declare", "declare_bank"}
    /\ tx_hash' = FALSE
    /\ Advance
    /\ UNCHANGED <<inputVars, round, reference_block, nonce, waitVars, message, chainVars>>

SendFails ==
    /\ At("send")
    /\ Fault(Now.bad)
    /\ UNCHANGED <<inputVars, round, tx_hash, reference_block, nonce, waitVars, message,
                   chainVars>>

NothingToAwait ==
    /\ At("await")
    /\ ~tx_hash
    /\ Fault(Now.no_hash)
    /\ UNCHANGED <<inputVars, round, tx_hash, reference_block, nonce, waitVars, message,
                   chainVars>>

ReceiptUnchecked ==
    /\ At("await")
    /\ tx_hash
    /\ polls < MaxPolls
    /\ tx.status \in {"ok", "reverted"}
    /\ Advance
    /\ polls' = 0
    /\ reference_block' = IF Now.ref THEN tx.block ELSE reference_block
    /\ UNCHANGED <<inputVars, round, tx_hash, nonce, attempt, message, chainVars>>

(* wait_for_tx: accepted on L2 in a block, and not reverted. *)
ReceiptAccepted ==
    /\ At("await")
    /\ tx_hash
    /\ polls < MaxPolls
    /\ tx.status = "ok"
    /\ Advance
    /\ polls' = 0
    /\ reference_block' = IF Now.ref THEN tx.block ELSE reference_block
    /\ UNCHANGED <<inputVars, round, tx_hash, nonce, attempt, message, chainVars>>

(* wait_for_tx: reverted, or the deadline has passed. *)
ReceiptRefused ==
    /\ At("await")
    /\ tx_hash
    /\ polls = MaxPolls \/ tx.status = "reverted"
    /\ Fault(Now.bad)
    /\ polls' = 0
    /\ UNCHANGED <<inputVars, round, tx_hash, reference_block, nonce, attempt, message,
                   chainVars>>

PollAgainForever ==
    /\ (At("await") /\ tx_hash) \/ At("next_block")
    /\ polls' = 0
    /\ UNCHANGED <<inputVars, pc, failed, result, round, tx_hash, reference_block, nonce,
                   attempt, message, chainVars>>

(* No receipt, no new block or no answer yet: sleep. *)
PollAgain ==
    /\ (At("await") /\ tx_hash) \/ At("next_block")
    /\ polls < MaxPolls
    /\ polls' = polls + 1
    /\ UNCHANGED <<inputVars, pc, failed, result, round, tx_hash, reference_block, nonce,
                   attempt, message, chainVars>>

(* wait_for_block_after; a time-out is ignored by every caller, and the health
   check calls it only when it has a receipt. *)
BlockAfter ==
    /\ At("next_block")
    /\ polls = MaxPolls \/ tx.block < Block \/ ~tx_hash
    /\ Advance
    /\ polls' = 0
    /\ UNCHANGED <<inputVars, round, tx_hash, reference_block, nonce, attempt, message,
                   chainVars>>

(* The counter driver asks for the nonce at its reference block, the others
   for the current one. *)
FetchNonce ==
    /\ At("nonce")
    /\ \/ /\ nonce' \in IF Now.kind = "reference" THEN {blocks[reference_block].nonce}
                                                 ELSE get_nonce
          /\ round' = round + 1
          /\ attempt' = 1
          /\ Advance
       \/ Fault(Now.bad) /\ UNCHANGED <<nonce, round, attempt>>
    /\ UNCHANGED <<inputVars, tx_hash, reference_block, polls, message, chainVars>>

(* The virtual OS runs the transaction on the state of the reference block. *)
Provable == nonce = blocks[reference_block].nonce /\ done["deploy"] \in 1..reference_block

RunProver ==
    /\ At("prove")
    /\ (Provable /\ Advance) \/ Fault(Now.bad)
    /\ UNCHANGED <<inputVars, round, tx_hash, reference_block, nonce, waitVars, message,
                   chainVars>>

(* raw_messages.json: absent or unreadable, as expected, or different. *)
VerifyMessages ==
    /\ At("messages")
    /\ \/ Fault(Now.bad) /\ message' = "absent"
       \/ Advance /\ message' = "match"
       \/ Fault(Now.no_hash) /\ message' = "differs"
    /\ UNCHANGED <<inputVars, round, tx_hash, reference_block, nonce, waitVars, chainVars>>

(* The submission loop.  A refusal is retried when the gateway is not ready
   ("too recent", "stored block hash: 0") and for any JSON-RPC error. *)
UsesGateway == Now.via = "gateway" \/ (Now.via = "either" /\ gateway_url)

AgainUnbounded == attempt' = attempt + 1 /\ UNCHANGED <<pc, failed, result>>

Again == attempt < MaxAttempts /\ attempt' = attempt + 1 /\ UNCHANGED <<pc, failed, result>>

SubmitNewNonce ==
    /\ At("submit")
    /\ NonceFree(AccountNonce)
    /\ Post("proof", AccountNonce)
    /\ \/ tx_hash' = TRUE /\ Advance /\ UNCHANGED attempt
       \/ (UsesGateway => Now.resend) /\ Again /\ UNCHANGED tx_hash
    /\ UNCHANGED <<inputVars, round, reference_block, nonce, polls, message, blocks, done,
                   others>>

(* Accepted; the answer may be lost, which a gateway client with resend retries
   and the others report, as an RPC client does unless it gets a JSON-RPC error. *)
SubmitAccepted ==
    /\ At("submit")
    /\ nonce = AccountNonce /\ NonceFree(nonce)
    /\ Post("proof", nonce)
    /\ \/ tx_hash' = TRUE /\ Advance /\ UNCHANGED attempt
       \/ (UsesGateway => Now.resend) /\ Again /\ UNCHANGED tx_hash
       \/ Fault(Now.bad) /\ UNCHANGED <<attempt, tx_hash>>
    /\ UNCHANGED <<inputVars, round, reference_block, nonce, polls, message, blocks, done,
                   others>>

SubmitRefused ==
    /\ At("submit")
    /\ Again \/ (Fault(Now.bad) /\ UNCHANGED attempt)
    /\ UNCHANGED <<inputVars, round, tx_hash, reference_block, nonce, polls, message, chainVars>>

(* The counter driver expects one increment for each round, the health check
   at least one. *)
Expected(value) == IF driver = "health" THEN value >= 1 ELSE value = round

VerifyCounter ==
    /\ At("counter")
    /\ \/ (\E b \in Latest : Expected(b.counter)) /\ Advance
       \/ Fault(Now.bad)
    /\ UNCHANGED <<inputVars, round, tx_hash, reference_block, nonce, waitVars, message,
                   chainVars>>

(* Exit 0 exactly when FAIL_COUNT is zero. *)
Summary ==
    /\ result = "running"
    /\ pc = Len(Script) + 1
    /\ result' = IF failed = 0 THEN "green" ELSE "red"
    /\ UNCHANGED <<inputVars, pc, failed, round, tx_hash, reference_block, nonce, waitVars,
                   message, chainVars>>

-----------------------------------------------------------------------------
(* The chain's own steps. *)

Effect(kind) == \A k \in Needs(kind) : done[k] # 0

(* t is no longer in flight; if it is the last transaction, its receipt says so. *)
Resolve(t, status, block) ==
    /\ tx' = IF t = tx THEN [tx EXCEPT !.status = status, !.block = block] ELSE tx
    /\ left' = left \ {t}

IncludeTx ==
    /\ \E t \in InFlight, ok \in BOOLEAN :
           /\ t.nonce = AccountNonce
           /\ ok => Effect(t.kind)
           /\ Resolve(t, IF ok THEN "ok" ELSE "reverted", Block + 1)
           /\ done' = [done EXCEPT ![t.kind] = IF ok THEN Block + 1 ELSE @]
           /\ blocks' = Append(blocks,
                  [nonce |-> AccountNonce + 1,
                   counter |-> blocks[Block].counter +
                                   (IF ok /\ t.kind \in {"proof", "invoke"} THEN 1 ELSE 0)])
    /\ UNCHANGED <<inputVars, pc, failed, result, stalled, round, tx_hash, reference_block, nonce,
                   waitVars, message, others>>

DropTx ==
    /\ \E t \in InFlight : Resolve(t, "dropped", 0)
    /\ UNCHANGED <<inputVars, pc, failed, result, stalled, round, tx_hash, reference_block, nonce,
                   waitVars, message, blocks, done, others>>

OtherBlock ==
    /\ others < MaxOthers
    /\ others' = others + 1
    /\ \E n \in {AccountNonce, AccountNonce + 1} :
           blocks' = Append(blocks, [blocks[Block] EXCEPT !.nonce = n])
    /\ UNCHANGED <<inputVars, pc, failed, result, stalled, round, tx, left, tx_hash,
                   reference_block, nonce, waitVars, message, done>>

-----------------------------------------------------------------------------
ProgramStep ==
    \/ DoCheck \/ SendTransaction \/ DeclareSkipped \/ SendFails
    \/ NothingToAwait \/ ReceiptAccepted \/ ReceiptRefused \/ PollAgain \/ BlockAfter
    \/ FetchNonce \/ RunProver \/ VerifyMessages \/ SubmitAccepted \/ SubmitRefused
    \/ VerifyCounter \/ Summary

DriverStep == ~stalled /\ ProgramStep /\ UNCHANGED stalled

(* The request, sncast or the prover that a step waits for never ends: the HTTP
   client, output().await and wait() are given no time-out, and wait_for_tx looks
   at its deadline only between two requests. *)
Stall ==
    /\ result = "running" /\ pc <= Len(Script)
    /\ ~stalled /\ stalled' = TRUE
    /\ UNCHANGED <<inputVars, pc, failed, result, round, tx_hash, reference_block, nonce, waitVars,
                   message, chainVars>>

Next == DriverStep \/ Stall \/ IncludeTx \/ DropTx \/ OtherBlock

Spec == Init /\ [][Next]_vars

(* The program runs while its calls return; nothing is assumed of the chain. *)
FairSpec == Spec /\ WF_vars(DriverStep)

-----------------------------------------------------------------------------
(* Properties. *)

Sent == {Script[i].kind : i \in {j \in 1..Len(Script) : Script[j].op \in {"send", "submit"}}}

(* The step, the counters and the chain keep their types. *)
TypeOK ==
    /\ driver \in Drivers /\ abridged \in BOOLEAN /\ gateway_url \in BOOLEAN
    /\ pc \in 1..(Len(Script) + 1)
    /\ failed \in Nat /\ round \in 0..Rounds
    /\ result \in {"running", "green", "red"} /\ stalled \in BOOLEAN
    /\ {tx} \cup left \subseteq
           [kind : Kinds \cup {"none"}, nonce : Nat, block : Nat,
            status : {"none", "pending", "ok", "reverted", "dropped"}]
    /\ tx_hash \in BOOLEAN
    /\ reference_block \in 0..Block /\ nonce \in Nat
    /\ attempt \in 1..MaxAttempts /\ polls \in 0..MaxPolls
    /\ message \in {"none", "absent", "match", "differs"}
    /\ blocks \in Seq([nonce : Nat, counter : Nat])
    /\ done \in [Kinds -> 0..Block] /\ others \in 0..MaxOthers

MessageDrivers == {"counter_messages", "messages", "coinflip", "settlement"}

(* What the virtual transaction's message may be in a green run: in the two
   messages drivers a difference is only logged, and in the settlement driver
   a file that is not there. *)
Tolerated ==
    CASE driver = "coinflip" -> {"match"}
      [] driver = "settlement" -> {"match", "absent"}
      [] OTHER -> {"match", "differs"}

(* A green run is the truth about the chain, also later: every transaction of
   the script took effect, although drivers ignore the receipts of declarations
   and some deployments, and the counter driver's increments are on the chain
   exactly once each.  The coin-flip driver has seen the message it expects and
   the settlement driver no other; the two messages drivers have seen one (run
   of every driver). *)
GreenMeansDone ==
    result = "green" =>
        /\ \A k \in Sent : done[k] # 0
        /\ driver = "counter" /\ ~abridged => blocks[Block].counter = Rounds
        /\ driver \in MessageDrivers => message \in Tolerated

(* However often a submission is repeated after a lost answer, each round's
   proof takes effect at most once (the loops of 20 attempts). *)
OncePerRound == driver # "health" => blocks[Block].counter <= round

(* Every driver whose calls return ends, whatever the chain does: each loop of
   calls has a deadline or a bound (wait_for_tx, wait_for_block_after,
   max_attempts).  Only a call that never returns keeps it from its end. *)
Finishes == <>(result # "running" \/ stalled)
=============================================================================
