--------------------------- MODULE StorageProofs ---------------------------
(***************************************************************************)
(* The storage-proof provider of the virtual block prover                   *)
(* (crates/starknet-transaction-prover-wasm/src/running/storage_proofs.rs): *)
(* what a virtual block read is turned into one proof query, which is sent  *)
(* to the node whole or, above MAX_KEYS_PER_REQUEST keys, in chunks whose    *)
(* proofs are merged.                                                       *)
(*                                                                         *)
(* The node is outside the repository: a key has a path of trie nodes, and  *)
(* the proof of a query is the union of the paths of its keys, with one     *)
(* leaf for each contract and one node map for each entry of                *)
(* contract_storage_keys, in the order of the query.                        *)
(***************************************************************************)
EXTENDS Integers, Sequences, SequencesExt, FiniteSets

CONSTANTS
    Classes,               \* class hashes a block may execute
    Contracts,             \* contract addresses, numbers: they are sorted
    Keys,                  \* storage keys
    MAX_KEYS_PER_REQUEST   \* 100 in the code

ASSUME ProofsAssumption ==
    /\ MAX_KEYS_PER_REQUEST \in Nat \ {0}
    /\ Contracts \subseteq Nat \ {0}
    /\ 0 \notin Keys \cup Classes   \* 0 names the root node of a trie
    /\ IsFiniteSet(Classes) /\ IsFiniteSet(Contracts) /\ IsFiniteSet(Keys)

VARIABLES
    stage,    \* how far the prover is; "fetch" while this component works
    query,    \* what prepare_query made of the block's reads
    chunks,   \* the requests fetch_proofs decided to send
    proofs,   \* the answers so far
    result,   \* the proof returned to get_storage_proofs
    fork      \* the fork on which the node answers for the block's number

fetchVars == <<query, chunks, proofs, result>>

-----------------------------------------------------------------------------
(* The query. *)

(* The addresses in ascending order, as the code sorts them. *)
Sorted(S) == CHOOSE s \in [1..Cardinality(S) -> S] :
                 \A i, j \in 1..Cardinality(S) : i < j => s[i] < s[j]

(* reads: executed class hashes, addresses read in any way, storage cells. *)
KeysOf(reads, a) == SetToSeq({k \in Keys : <<a, k>> \in reads.storage})

prepare_query_storage_only(reads) ==
    LET addresses == Sorted({c[1] : c \in reads.storage})
    IN  [class_hashes |-> SetToSeq(reads.classes),
         contract_addresses |-> addresses,
         contract_storage_keys |->
             [i \in DOMAIN addresses |->
                 [contract_address |-> addresses[i],
                  storage_keys |-> KeysOf(reads, addresses[i])]]]

prepare_query(reads) ==
    LET addresses == Sorted(reads.addresses)
    IN  [class_hashes |-> SetToSeq(reads.classes),
         contract_addresses |-> addresses,
         contract_storage_keys |->
             [i \in DOMAIN addresses |->
                 [contract_address |-> addresses[i],
                  storage_keys |-> KeysOf(reads, addresses[i])]]]

Query == [class_hashes : Seq(Classes), contract_addresses : Seq(Contracts),
          contract_storage_keys : Seq([contract_address : Contracts,
                                       storage_keys : Seq(Keys)])]

EmptyQuery == [class_hashes |-> <<>>, contract_addresses |-> <<>>,
               contract_storage_keys |-> <<>>]

KeysIn(csk) == FlattenSeq([i \in DOMAIN csk |-> csk[i].storage_keys])

count_total_keys(q) ==
    Len(q.class_hashes) + Len(q.contract_addresses) + Len(KeysIn(q.contract_storage_keys))

-----------------------------------------------------------------------------
(* Splitting. *)

ClassHash(h) == [type |-> "class", value |-> h]
ContractAddress(a) == [type |-> "contract", value |-> a]
StorageKey(a, k) == [type |-> "storage", value |-> <<a, k>>]

EntryItems(csk) == [j \in DOMAIN csk.storage_keys |->
                       StorageKey(csk.contract_address, csk.storage_keys[j])]

flatten_query(q) ==
    [i \in DOMAIN q.class_hashes |-> ClassHash(q.class_hashes[i])]
        \o [i \in DOMAIN q.contract_addresses |-> ContractAddress(q.contract_addresses[i])]
        \o FlattenSeq([i \in DOMAIN q.contract_storage_keys |->
                          EntryItems(q.contract_storage_keys[i])])

(* A key joins the last entry if that is its contract, or opens an entry. *)
PushKey(csk, a, k) ==
    IF csk # <<>> /\ Last(csk).contract_address = a
    THEN [csk EXCEPT ![Len(csk)].storage_keys = Append(@, k)]
    ELSE Append(csk, [contract_address |-> a, storage_keys |-> <<k>>])

CollectItem(q, item) ==
    CASE item.type = "class" ->
            [q EXCEPT !.class_hashes = Append(@, item.value)]
      [] item.type = "contract" ->
            [q EXCEPT !.contract_addresses = Append(@, item.value)]
      [] item.type = "storage" ->
            [q EXCEPT !.contract_storage_keys = PushKey(@, item.value[1], item.value[2])]

collect_query(items) ==
    LET collected[n \in 0..Len(items)] ==
            IF n = 0 THEN EmptyQuery ELSE CollectItem(collected[n - 1], items[n])
    IN  collected[Len(items)]

ChunkCount(n, max) == (n + max - 1) \div max

split_query_last_full(q, max) ==
    LET items == flatten_query(q)
        n == Len(items)
        upTo(i) == IF i * max < n THEN i * max ELSE n
    IN  [i \in 1..ChunkCount(n, max) |->
            collect_query(SubSeq(items, upTo(i) - max + 1, upTo(i)))]

split_query(q, max) ==
    LET items == flatten_query(q)
        n == Len(items)
        upTo(i) == IF i * max < n THEN i * max ELSE n
    IN  [i \in 1..ChunkCount(n, max) |->
            collect_query(SubSeq(items, (i - 1) * max + 1, upTo(i)))]

-----------------------------------------------------------------------------
(* The tries besides those of the contracts, which are named after them. *)
CONTRACTS_TRIE == 0
CLASSES_TRIE == -1

(* The node's answer on fork f: a path is the root, node 0, and the key's own
   node, whose hash depends on the fork. *)
Path(trie, key, f) == {<<trie, 0, f>>, <<trie, key, f>>}

Paths(trie, keys, f) == UNION {Path(trie, keys[i], f) : i \in DOMAIN keys}

get_storage_proof(q, f) ==
    [global_roots |-> f,
     classes_proof |-> Paths(CLASSES_TRIE, q.class_hashes, f),
     nodes |-> Paths(CONTRACTS_TRIE, q.contract_addresses, f),
     contract_leaves_data |->
         [i \in DOMAIN q.contract_addresses |-> [of |-> q.contract_addresses[i], at |-> f]],
     contracts_storage_proofs |->
         [i \in DOMAIN q.contract_storage_keys |->
             Paths(q.contract_storage_keys[i].contract_address,
                   q.contract_storage_keys[i].storage_keys, f)]]

-----------------------------------------------------------------------------
(* Merging. *)

(* The node maps of every chunk entry for the contract of entry idx. *)
MergeStorageByPosition(answers, split, original, idx) ==
    UNION {answers[c].contracts_storage_proofs[idx] :
              c \in {d \in DOMAIN split : idx \in DOMAIN split[d].contract_storage_keys}}

MergeStorage(answers, split, original, idx) ==
    UNION UNION {{answers[c].contracts_storage_proofs[j] :
                     j \in {i \in DOMAIN split[c].contract_storage_keys :
                               split[c].contract_storage_keys[i].contract_address
                                 = original.contract_storage_keys[idx].contract_address}}
                 : c \in DOMAIN split}

merge_storage_proofs(answers, split, original) ==
    [global_roots |-> answers[1].global_roots,
     classes_proof |-> UNION {answers[c].classes_proof : c \in DOMAIN answers},
     nodes |-> UNION {answers[c].nodes : c \in DOMAIN answers},
     contract_leaves_data |->
         FlattenSeq([c \in DOMAIN answers |-> answers[c].contract_leaves_data]),
     contracts_storage_proofs |->
         [idx \in DOMAIN original.contract_storage_keys |->
             MergeStorage(answers, split, original, idx)]]

-----------------------------------------------------------------------------
Reads == {r \in [classes : SUBSET Classes, addresses : SUBSET Contracts,
                 storage : SUBSET (Contracts \X Keys)] :
              \A c \in r.storage : c[1] \in r.addresses}

SingleRequestOver(q) == count_total_keys(q) <= MAX_KEYS_PER_REQUEST + 1

SingleRequest(q) == count_total_keys(q) <= MAX_KEYS_PER_REQUEST

NoProof == get_storage_proof(EmptyQuery, 0)

NotFetched ==
    query = EmptyQuery /\ chunks = <<>> /\ proofs = <<>> /\ result = NoProof

(* get_storage_proofs and fetch_proofs up to the first request. *)
StartFetch(reads) ==
    LET q == prepare_query(reads)
    IN  /\ query' = q
        /\ chunks' = IF SingleRequest(q) THEN <<q>> ELSE split_query(q, MAX_KEYS_PER_REQUEST)
        /\ UNCHANGED <<proofs, result>>

(* fetch_single_proof of the next chunk. *)
FetchChunk ==
    /\ stage = "fetch"
    /\ Len(proofs) < Len(chunks)
    /\ proofs' = Append(proofs, get_storage_proof(chunks[Len(proofs) + 1], fork))
    /\ UNCHANGED <<stage, query, chunks, result, fork>>

(* The first error ends the whole fetch. *)
FetchFails ==
    /\ stage = "fetch"
    /\ Len(proofs) < Len(chunks)
    /\ stage' = "rpc_error"
    /\ UNCHANGED <<fetchVars, fork>>

ReturnProof ==
    /\ stage = "fetch"
    /\ Len(proofs) = Len(chunks)
    /\ stage' = "commit"
    /\ result' = IF SingleRequest(query) THEN proofs[1]
                 ELSE merge_storage_proofs(proofs, chunks, query)
    /\ UNCHANGED <<query, chunks, proofs, fork>>

-----------------------------------------------------------------------------
(* Properties. *)

(* No request, whole or chunk, asks the node for more keys than it allows, and
   none is empty unless the block read nothing (split_query). *)
RequestsWithinLimit ==
    \A i \in DOMAIN chunks :
        /\ count_total_keys(chunks[i]) <= MAX_KEYS_PER_REQUEST
        /\ count_total_keys(chunks[i]) = 0 => query = EmptyQuery

(* A proof put together from chunks of one fork is the proof of the whole query: the same
   trie nodes, the leaves in the order of contract_addresses and one node map
   for each contract at its index in the query, also when a chunk boundary
   falls inside the keys of a contract or a contract has no keys
   (fetch_proofs, merge_storage_proofs).  create_commitment_infos zips these
   lists with the query by position. *)
MergedIsWhole ==
    \A f \in {1, 2} :
        (result # NoProof /\ \A c \in DOMAIN proofs : proofs[c].global_roots = f)
            => result = get_storage_proof(query, f)
=============================================================================
