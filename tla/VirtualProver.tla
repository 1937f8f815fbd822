--------------------------- MODULE VirtualProver ---------------------------
(***************************************************************************)
(* The virtual block prover                                                 *)
(* (crates/starknet-transaction-prover-wasm) under its two entry points, a  *)
(* web client's prove_block (crates/snip36-web-prover) and prove_transaction *)
(* called with a transaction of any form.  One transaction is validated,    *)
(* simulated by the node, executed here on what the simulation read, and    *)
(* re-run by the virtual OS against storage proofs; every step that asks    *)
(* the node asks it anew.                                                   *)
(*                                                                         *)
(* The node may reorganise the block between two requests, or answer from a *)
(* replica on the other fork: contracts in "moved", and the trie of classes *)
(* if it is there, have other contents on another fork.  The OS and the     *)
(* STARK prover are outside the repository: the OS accepts what is          *)
(* consistent with the base block's hash.                                   *)
(***************************************************************************)
EXTENDS StorageProofs

CONSTANTS
    Sender,       \* the account: every execution reads it
    Legacy,       \* Cairo 0 classes
    MaxReorgs     \* bound: how often the node changes fork

ASSUME ProverAssumption ==
    /\ Sender \in Contracts
    /\ Legacy \subseteq Classes
    /\ MaxReorgs \in Nat

VARIABLES
    request,      \* the arguments of prove_transaction
    config,       \* ProverConfig
    signed_at,    \* state whose nonce the transaction has
    header,       \* state of the base block header, 0 before it is fetched
    simulated,    \* state of the prefetched reads, and whether they suffice
    executed,     \* what the execution read
    state_diff,   \* kinds of state changes of the execution
    moved, reorgs

requestVars == <<request, config, signed_at>>
executionVars == <<header, simulated, executed, state_diff>>
nodeVars == <<fork, moved, reorgs>>
vars == <<stage, requestVars, executionVars, fetchVars, nodeVars>>

-----------------------------------------------------------------------------
Request == [block_id : {"number", "latest", "pending"},
            type : {"invoke_v3", "declare", "deploy_account"},
            proof : BOOLEAN, proof_facts : BOOLEAN,   \* field is not empty
            max_fee : {0, 1}]

Config == [validate_zero_fee_fields : BOOLEAN, prefetch_state : BOOLEAN,
           include_state_changes : BOOLEAN]

(* ProverConfig::default, which snip36-virtual-os uses. *)
DefaultConfig == [validate_zero_fee_fields |-> TRUE, prefetch_state |-> TRUE,
                  include_state_changes |-> TRUE]

WebRequest == [block_id |-> "number", type |-> "invoke_v3", proof |-> FALSE,
               proof_facts |-> FALSE, max_fee |-> 0]

Newer == 3   \* a block after the base block, which "latest" may have become
Changes == {"update", "deletion", "deployment", "declaration"}

(* A contract's leaf and cells, or the trie of classes, are the same in f and g. *)
Same(a, f, g) == f = g \/ a \notin moved
SameRoot(f, g) == f = g \/ moved = {}

Init ==
    /\ \/ stage = "prepare" /\ request = WebRequest /\ config = DefaultConfig
       \/ stage = "validate" /\ request \in Request /\ config \in Config
    /\ signed_at = 1
    /\ header = 0
    /\ simulated = [at |-> 0, complete |-> FALSE]
    /\ executed = [classes |-> {}, addresses |-> {}, storage |-> {}]
    /\ state_diff = {}
    /\ NotFetched
    /\ fork = 1 /\ moved \in SUBSET (Contracts \cup {CLASSES_TRIE}) /\ reorgs = 0

-----------------------------------------------------------------------------
(* Any request to the node may fail. *)
RpcFails(at) ==
    /\ stage = at
    /\ stage' = "rpc_error"
    /\ UNCHANGED <<requestVars, executionVars, fetchVars, nodeVars>>

(* prove_block of the web prover: the nonce at the reference block, then the
   transaction is hashed, signed and handed to run_virtual_os. *)
PrepareTransaction ==
    /\ stage = "prepare"
    /\ signed_at' = fork
    /\ stage' = "validate"
    /\ UNCHANGED <<request, config, executionVars, fetchVars, nodeVars>>

(* extract_rpc_invoke_tx and validate_transaction_input. *)
ValidInput ==
    /\ request.block_id # "pending"
    /\ request.type = "invoke_v3"
    /\ ~request.proof /\ ~request.proof_facts
    /\ config.validate_zero_fee_fields => request.max_fee = 0

Validate ==
    /\ stage = "validate"
    /\ stage' = IF ValidInput THEN "header" ELSE "invalid"
    /\ UNCHANGED <<requestVars, executionVars, fetchVars, nodeVars>>

FetchHeader ==
    /\ stage = "header"
    /\ header' = fork
    /\ stage' = "simulate"
    /\ UNCHANGED <<requestVars, simulated, executed, state_diff, fetchVars, nodeVars>>

(* Without prefetch_state the reader has nothing to serve reads from.  Asked
   for "latest" again, the node may have a new block. *)
Simulate ==
    /\ stage = "simulate"
    /\ \/ /\ config.prefetch_state
          /\ \E complete \in BOOLEAN : simulated' = [at |-> fork, complete |-> complete]
       \/ /\ config.prefetch_state
          /\ request.block_id = "latest"
          /\ simulated' = [at |-> Newer, complete |-> TRUE]
       \/ /\ ~config.prefetch_state
          /\ UNCHANGED simulated
    /\ stage' = "prefetch"
    /\ UNCHANGED <<requestVars, header, executed, state_diff, fetchVars, nodeVars>>

(* The classes of the prefetched state enter the class manager's cache; a class
   is the same on every fork, or missing, which is an error. *)
PrefetchClasses ==
    /\ stage = "prefetch"
    /\ stage' = "execute"
    /\ UNCHANGED <<requestVars, executionVars, fetchVars, nodeVars>>

(* The blockifier runs the transaction.  A read that was not prefetched is a
   state-read error: the RPC reader has no blocking reads. *)
ExecutionFails ==
    /\ stage = "execute"
    /\ stage' = "execution_error"
    /\ UNCHANGED <<requestVars, executionVars, fetchVars, nodeVars>>

Reverts ==
    /\ stage = "execute"
    /\ simulated.complete
    /\ stage' = "reverted"
    /\ UNCHANGED <<requestVars, executionVars, fetchVars, nodeVars>>

Execute ==
    /\ stage = "execute"
    /\ simulated.complete
    /\ \E reads \in Reads :
           /\ Sender \in reads.addresses /\ reads.classes # {}
           /\ executed' = reads
    /\ \E kind \in Changes : state_diff' = {"update", kind}
    /\ stage' = "classes"
    /\ UNCHANGED <<requestVars, header, simulated, fetchVars, nodeVars>>

(* get_classes, then get_storage_proofs as far as its first request. *)
GetClasses ==
    /\ stage = "classes"
    /\ IF executed.classes \cap Legacy # {}
       THEN stage' = "deprecated_class" /\ UNCHANGED fetchVars
       ELSE stage' = "fetch" /\ StartFetch(executed)
    /\ UNCHANGED <<requestVars, executionVars, nodeVars>>

(* The actions of StorageProofs. *)
Fetch ==
    /\ FetchChunk \/ FetchFails \/ ReturnProof
    /\ UNCHANGED <<requestVars, executionVars, moved, reorgs>>

-----------------------------------------------------------------------------
(* Commitment infos. *)

Position(a) == CHOOSE i \in DOMAIN query.contract_addresses : query.contract_addresses[i] = a

(* The proof has the node for this key below root r. *)
HasPath(nodes, trie, key, r) ==
    \E f \in {1, 2} : /\ <<trie, key, f>> \in nodes
                      /\ Same(IF trie = CONTRACTS_TRIE THEN key ELSE trie, f, r)

(* With state changes every node goes into one facts database; without, the
   nodes of a contract are those at its position. *)
StorageNodes(a) ==
    IF config.include_state_changes
    THEN UNION {result.contracts_storage_proofs[i] :
                    i \in DOMAIN result.contracts_storage_proofs}
    ELSE result.contracts_storage_proofs[Position(a)]

(* The contract's leaf, taken by position, and its cells are below the root. *)
Committed(a) ==
    /\ a \in ToSet(query.contract_addresses)
    /\ HasPath(result.nodes, CONTRACTS_TRIE, a, result.global_roots)
    /\ LET leaf == result.contract_leaves_data[Position(a)]
       IN  leaf.of = a /\ Same(a, leaf.at, result.global_roots)
    /\ \A cell \in executed.storage :
           cell[1] = a => HasPath(StorageNodes(a), a, cell[2], result.global_roots)

AllCommitted == \A a \in executed.addresses : Committed(a)

validate_deployments_only(diff) == diff \cap {"deployment", "declaration"} = {}

validate_virtual_os_state_diff(diff) ==
    diff \cap {"deletion", "deployment", "declaration"} = {}

(* create_commitment_infos checks the lengths of the lists it zips with the query;
   with state changes it does not look at the storage proofs by position. *)
ProofFits ==
    /\ Len(result.contract_leaves_data) = Len(query.contract_addresses)
    /\ ~config.include_state_changes =>
           Len(result.contracts_storage_proofs) = Len(query.contract_storage_keys)

(* get_storage_proofs after the fetch.  Children without a preimage get dummy
   nodes, so that the committer may or may not notice a missing path. *)
CommitmentInfos ==
    /\ stage = "commit"
    /\ \/ /\ ~ProofFits
          /\ stage' = "invalid_proof"
       \/ /\ ProofFits
          /\ config.include_state_changes
          /\ ~validate_virtual_os_state_diff(state_diff)
          /\ stage' = "invalid_diff"
       \/ /\ ProofFits
          /\ config.include_state_changes => validate_virtual_os_state_diff(state_diff)
          /\ \/ stage' = "run_os"
             \/ config.include_state_changes /\ ~AllCommitted /\ stage' = "commit_error"
    /\ UNCHANGED <<requestVars, executionVars, fetchVars, nodeVars>>

-----------------------------------------------------------------------------
(* The OS recomputes the base block's hash from its header and the roots, checks
   every read against the commitments and the nonce of the transaction. *)
OsAccepts ==
    /\ SameRoot(result.global_roots, header)
    /\ \A c \in executed.classes : HasPath(result.classes_proof, CLASSES_TRIE, c, result.global_roots)
    /\ AllCommitted
    /\ \A a \in executed.addresses : Same(a, simulated.at, header)
    /\ Same(Sender, signed_at, header)

RunOs ==
    /\ stage = "run_os"
    /\ stage' = IF OsAccepts THEN "prove" ELSE "os_error"
    /\ UNCHANGED <<requestVars, executionVars, fetchVars, nodeVars>>

Prove ==
    /\ stage = "prove"
    /\ stage' \in {"proved", "prover_error"}
    /\ UNCHANGED <<requestVars, executionVars, fetchVars, nodeVars>>

(* The node is asked nothing before the first request and after the fetch. *)
Asking == {"prepare", "header", "simulate", "prefetch", "classes", "fetch"}

Reorg ==
    /\ stage \in Asking
    /\ reorgs < MaxReorgs
    /\ reorgs' = reorgs + 1
    /\ fork' = 3 - fork
    /\ UNCHANGED <<stage, moved, requestVars, executionVars, fetchVars>>

Next ==
    \/ \E at \in Asking \ {"fetch"} : RpcFails(at)
    \/ PrepareTransaction \/ Validate \/ FetchHeader \/ Simulate \/ PrefetchClasses
    \/ ExecutionFails \/ Reverts \/ Execute \/ GetClasses \/ Fetch
    \/ CommitmentInfos \/ RunOs \/ Prove
    \/ Reorg

Spec == Init /\ [][Next]_vars

-----------------------------------------------------------------------------
(* Properties. *)

(* While the node keeps to one fork, what was executed for a given block is
   accepted: neither the committer nor the OS refuses a proof because the query,
   its chunks or the merged proof lack something that the execution read, and
   the proof always has the leaves that were asked for (prepare_query,
   fetch_proofs, create_commitment_infos). *)
HonestRunAccepted ==
    stage \in {"commit_error", "os_error", "invalid_proof"} =>
        reorgs > 0 \/ request.block_id = "latest"

(* A proof is returned only for an invoke on a finished block that neither
   deletes storage nor deploys or declares, unless the configuration turns the
   check off (validate_transaction_input, validate_virtual_os_state_diff). *)
OnlyLegalProved ==
    stage = "proved" =>
        /\ request.type = "invoke_v3" /\ request.block_id # "pending"
        /\ config.validate_zero_fee_fields => request.max_fee = 0
        /\ config.include_state_changes => state_diff = {"update"}
        /\ executed.classes \cap Legacy = {}

(* Splitting repeats nothing: a class, a contract and a storage cell that was
   read is asked for in one chunk only, and no chunk has an entry without
   keys, wherever a chunk boundary falls (split_query, collect_query).  The
   prover relies on it: answers of different chunks may come from different
   forks, and only a repeated key would bring in two states of one contract. *)
ReadsAskedOnce ==
    LET entries(c) == ToSet(chunks[c].contract_storage_keys) IN
    /\ chunks \in Seq(Query)
    /\ \A c \in DOMAIN chunks : ToSet(chunks[c].class_hashes) \subseteq executed.classes
    /\ \A c, d \in DOMAIN chunks : c # d =>
           /\ ToSet(chunks[c].class_hashes) \cap ToSet(chunks[d].class_hashes) = {}
           /\ ToSet(chunks[c].contract_addresses) \cap ToSet(chunks[d].contract_addresses) = {}
           /\ \A p \in entries(c), q \in entries(d) :
                  p.contract_address = q.contract_address =>
                      ToSet(p.storage_keys) \cap ToSet(q.storage_keys) = {}
    /\ Len(chunks) > 1 =>
           \A c \in DOMAIN chunks : \A p \in entries(c) :
               /\ p.storage_keys # <<>>
               /\ \A k \in ToSet(p.storage_keys) : <<p.contract_address, k>> \in executed.storage

(* What is proved is one state: every chunk of the storage proof that has
   something about a contract the execution read, or about its classes, agrees
   with the base block, although the header and each chunk were separate
   requests and only the first chunk's roots were kept (merge_storage_proofs). *)
MixedNeverProved ==
    stage = "proved" =>
        \A c \in DOMAIN chunks :
            /\ \A a \in executed.addresses :
                   \/ a \in ToSet(chunks[c].contract_addresses)
                   \/ \E i \in DOMAIN chunks[c].contract_storage_keys :
                          chunks[c].contract_storage_keys[i].contract_address = a
                   => Same(a, proofs[c].global_roots, header)
            /\ chunks[c].class_hashes # <<>> =>
                   Same(CLASSES_TRIE, proofs[c].global_roots, header)
=============================================================================
