------------------------ MODULE VirtualProverProofs ------------------------
(***************************************************************************)
(* Proofs about VirtualProver for every set of classes, contracts and keys, *)
(* every limit on a request and any number of reorganisations.              *)
(***************************************************************************)
EXTENDS VirtualProver, StorageProofsProofs

(* The stages that lead to a proof, in order. *)
Validated == {"header", "simulate", "prefetch", "execute", "classes", "fetch", "commit",
              "run_os", "prove", "proved"}
Executed == {"classes", "fetch", "commit", "run_os", "prove", "proved"}
ClassesKnown == {"fetch", "commit", "run_os", "prove", "proved"}
DiffChecked == {"run_os", "prove", "proved"}

(* What each check of the pipeline leaves true for the stages after it. *)
LegalInv ==
    /\ stage \in Validated => ValidInput
    /\ stage \in Executed => \E kind \in Changes : state_diff = {"update", kind}
    /\ stage \in ClassesKnown => executed.classes \cap Legacy = {}
    /\ stage \in DiffChecked /\ config.include_state_changes =>
           validate_virtual_os_state_diff(state_diff)

(* The pipeline starts before its first check. *)
LEMMA LegalInit == Init => LegalInv
BY DEF Init, LegalInv, Validated, Executed, ClassesKnown, DiffChecked

(* A stage is entered from the one before it, by the step that checks. *)
LEMMA LegalStep == LegalInv /\ [Next]_vars => LegalInv'
<1>0. SUFFICES ASSUME LegalInv, [Next]_vars PROVE LegalInv'
  OBVIOUS
<1> USE DEF LegalInv, Validated, Executed, ClassesKnown, DiffChecked
<1>1. ASSUME UNCHANGED <<requestVars, state_diff, executed>> PROVE
        /\ UNCHANGED <<request, config, state_diff, executed>>
        /\ ValidInput' = ValidInput
  BY <1>1 DEF requestVars, ValidInput
<1>2. ASSUME NEW at \in Asking \ {"fetch"}, RpcFails(at) PROVE LegalInv'
  BY <1>2 DEF RpcFails
<1>3. CASE PrepareTransaction
  BY <1>3 DEF PrepareTransaction
<1>4. CASE Validate
  BY <1>0, <1>1, <1>4 DEF Validate, executionVars
<1>5. CASE FetchHeader
  BY <1>0, <1>1, <1>5 DEF FetchHeader
<1>6. CASE Simulate
  BY <1>0, <1>1, <1>6 DEF Simulate
<1>7. CASE PrefetchClasses
  BY <1>0, <1>1, <1>7 DEF PrefetchClasses, executionVars
<1>8. CASE ExecutionFails \/ Reverts
  BY <1>8 DEF ExecutionFails, Reverts
<1>9. CASE Execute
  <2>1. stage = "execute" /\ stage' = "classes" /\ ValidInput' = ValidInput
    BY <1>9 DEF Execute, requestVars, ValidInput
  <2>2. \E kind \in Changes : state_diff' = {"update", kind}
    BY <1>9 DEF Execute
  <2> QED
    BY <1>0, <2>1, <2>2
<1>10. CASE GetClasses
  BY <1>0, <1>1, <1>10 DEF GetClasses, executionVars
<1>11. CASE Fetch
  <2>1. stage = "fetch" /\ stage' \in {"fetch", "rpc_error", "commit"}
    BY <1>11 DEF Fetch, FetchChunk, FetchFails, ReturnProof
  <2>2. UNCHANGED <<requestVars, state_diff, executed>>
    BY <1>11 DEF Fetch, executionVars
  <2> QED
    BY <1>0, <1>1, <2>1, <2>2
<1>12. CASE CommitmentInfos
  <2>1. /\ stage = "commit"
        /\ stage' \in {"invalid_proof", "invalid_diff", "run_os", "commit_error"}
        /\ stage' = "run_os" /\ config.include_state_changes =>
               validate_virtual_os_state_diff(state_diff)
    BY <1>12 DEF CommitmentInfos
  <2>2. UNCHANGED <<requestVars, state_diff, executed>>
    BY <1>12 DEF CommitmentInfos, executionVars
  <2> QED
    BY <1>0, <1>1, <2>1, <2>2
<1>13. CASE RunOs
  <2>1. stage = "run_os" /\ stage' \in {"prove", "os_error"}
    BY <1>13 DEF RunOs
  <2>2. UNCHANGED <<requestVars, state_diff, executed>>
    BY <1>13 DEF RunOs, executionVars
  <2> QED
    BY <1>0, <1>1, <2>1, <2>2
<1>14. CASE Prove
  BY <1>0, <1>1, <1>14 DEF Prove, executionVars
<1>15. CASE Reorg
  BY <1>0, <1>1, <1>15 DEF Reorg, executionVars
<1>16. CASE UNCHANGED vars
  BY <1>0, <1>1, <1>16 DEF vars, executionVars
<1> QED
  BY <1>0, <1>2, <1>3, <1>4, <1>5, <1>6, <1>7, <1>8, <1>9, <1>10, <1>11, <1>12, <1>13, <1>14,
     <1>15, <1>16 DEF Next

(* A proof is returned only for an invoke on a finished block that neither
   deletes storage nor deploys or declares (validate_transaction_input,
   validate_virtual_os_state_diff). *)
THEOREM OnlyLegalProvedHolds == Spec => []OnlyLegalProved
<1>1. LegalInv => OnlyLegalProved
  <2>0. SUFFICES ASSUME LegalInv, stage = "proved" PROVE OnlyLegalProved
    BY DEF OnlyLegalProved
  <2>1. ValidInput /\ executed.classes \cap Legacy = {}
    BY <2>0 DEF LegalInv, Validated, ClassesKnown
  <2>2. config.include_state_changes => state_diff = {"update"}
    <3>1. PICK kind \in Changes : state_diff = {"update", kind}
      BY <2>0 DEF LegalInv, Executed
    <3>2. config.include_state_changes => kind \notin {"deletion", "deployment", "declaration"}
      BY <2>0, <3>1 DEF LegalInv, DiffChecked, validate_virtual_os_state_diff
    <3> QED
      BY <3>1, <3>2 DEF Changes
  <2> QED
    BY <2>1, <2>2 DEF OnlyLegalProved, ValidInput
<1> QED
  BY <1>1, LegalInit, LegalStep, PTL DEF Spec

-----------------------------------------------------------------------------
(* Proofs put together from several requests. *)

(* A node other than a trie's root is on the path of a key that was asked for. *)
LEMMA NodeOf ==
    ASSUME NEW trie, NEW keys, NEW f, NEW t, NEW k, NEW g,
           <<t, k, g>> \in Paths(trie, keys, f), k # 0
    PROVE  t = trie /\ g = f /\ k \in ToSet(keys)
<1>1. PICK i \in DOMAIN keys : <<t, k, g>> \in Path(trie, keys[i], f)
  BY DEF Paths
<1>2. <<t, k, g>> = <<trie, 0, f>> \/ <<t, k, g>> = <<trie, keys[i], f>>
  BY <1>1 DEF Path
<1> QED
  BY <1>1, <1>2 DEF ToSet

(* The fields of a merged proof. *)
LEMMA MergedFields ==
    ASSUME NEW answers, NEW split, NEW original
    PROVE  /\ merge_storage_proofs(answers, split, original).global_roots = answers[1].global_roots
           /\ merge_storage_proofs(answers, split, original).nodes =
                  UNION {answers[c].nodes : c \in DOMAIN answers}
           /\ merge_storage_proofs(answers, split, original).contracts_storage_proofs =
                  [idx \in DOMAIN original.contract_storage_keys |->
                      MergeStorage(answers, split, original, idx)]
BY DEF merge_storage_proofs

Answers == {get_storage_proof(q, f) : q \in Query, f \in {1, 2}}

Unfetched == {"prepare", "validate", "header", "simulate", "prefetch", "execute", "classes"}
Returned == {"commit", "run_os", "prove", "proved"}

(* Chunk c has something about contract a. *)
About(c, a) ==
    \/ a \in ToSet(chunks[c].contract_addresses)
    \/ \E i \in DOMAIN chunks[c].contract_storage_keys :
           chunks[c].contract_storage_keys[i].contract_address = a

(* The answers about the contracts and classes that were read agree with the base
   block. *)
Unmixed ==
    \A c \in DOMAIN chunks :
        /\ \A a \in executed.addresses : About(c, a) => Same(a, proofs[c].global_roots, header)
        /\ chunks[c].class_hashes # <<>> => Same(CLASSES_TRIE, proofs[c].global_roots, header)

(* Each answer is the node's for its chunk, on the fork its roots name. *)
AnswersInv ==
    /\ fork \in {1, 2}
    /\ proofs \in Seq(Answers)
    /\ Len(proofs) <= Len(chunks)
    /\ \A c \in 1..Len(proofs) :
           proofs[c] = get_storage_proof(chunks[c], proofs[c].global_roots)
    /\ stage \in Unfetched => chunks = <<>> /\ proofs = <<>>

(* What get_storage_proofs returned is made of those answers. *)
ResultInv ==
    /\ stage \in ClassesKnown => /\ query = prepare_query(executed)
                                 /\ SingleRequest(query) => Len(chunks) = 1
    /\ stage \in Returned => /\ Len(proofs) = Len(chunks)
                             /\ result = IF SingleRequest(query) THEN proofs[1]
                                         ELSE merge_storage_proofs(proofs, chunks, query)
    /\ stage \in {"prove", "proved"} => Unmixed

(* Contracts that were read have addresses. *)
AddressesInv ==
    /\ executed.addresses \subseteq Contracts
    /\ executed.storage \subseteq Contracts \X Keys

(* A storage node of contract a in the proof comes from a chunk that has an entry
   for a with that key. *)
LEMMA StorageNodeOf ==
    ASSUME ReadsAskedOnce, AnswersInv, Len(proofs) = Len(chunks),
           query = prepare_query(executed),
           result = merge_storage_proofs(proofs, chunks, query),
           NEW a, a \in ToSet(query.contract_addresses),
           NEW k, k # 0, NEW f, <<a, k, f>> \in StorageNodes(a)
    PROVE  \E d \in DOMAIN chunks :
               /\ f = proofs[d].global_roots
               /\ \E j \in DOMAIN chunks[d].contract_storage_keys :
                      /\ chunks[d].contract_storage_keys[j].contract_address = a
                      /\ k \in ToSet(chunks[d].contract_storage_keys[j].storage_keys)
<1>1. result.contracts_storage_proofs =
          [idx \in DOMAIN query.contract_storage_keys |-> MergeStorage(proofs, chunks, query, idx)]
  BY MergedFields
<1>2. DOMAIN query.contract_storage_keys = DOMAIN query.contract_addresses
  BY DEF prepare_query
<1>3. Position(a) \in DOMAIN query.contract_addresses
  BY DEF Position, ToSet
<1>4. PICK idx \in DOMAIN query.contract_storage_keys :
          <<a, k, f>> \in MergeStorage(proofs, chunks, query, idx)
  <2>1. CASE config.include_state_changes
    BY <1>1, <2>1 DEF StorageNodes
  <2>2. CASE ~config.include_state_changes
    BY <1>1, <1>2, <1>3, <2>2 DEF StorageNodes
  <2> QED
    BY <2>1, <2>2
<1>5. PICK d \in DOMAIN chunks :
          \E j \in DOMAIN chunks[d].contract_storage_keys :
              <<a, k, f>> \in proofs[d].contracts_storage_proofs[j]
  BY <1>4 DEF MergeStorage
<1> PICK j \in DOMAIN chunks[d].contract_storage_keys :
          <<a, k, f>> \in proofs[d].contracts_storage_proofs[j]
  BY <1>5
<1>6. DOMAIN chunks = 1..Len(chunks)
  BY DEF ReadsAskedOnce
<1>7. proofs[d] = get_storage_proof(chunks[d], proofs[d].global_roots)
  BY <1>6 DEF AnswersInv
<1>8. <<a, k, f>> \in Paths(chunks[d].contract_storage_keys[j].contract_address,
                            chunks[d].contract_storage_keys[j].storage_keys,
                            proofs[d].global_roots)
  BY <1>5, <1>7, ProofFields
<1> QED
  BY <1>8, NodeOf

(* What the OS accepts is one state: it compares the first chunk's roots with the
   header, and a path from another chunk is of a key that only this chunk has. *)
LEMMA AcceptedUnmixed ==
    ASSUME ReadsAskedOnce, AnswersInv, AddressesInv, ResultInv, stage = "run_os", OsAccepts
    PROVE  Unmixed
<1>1. /\ query = prepare_query(executed) /\ Len(proofs) = Len(chunks)
      /\ SingleRequest(query) => Len(chunks) = 1
      /\ result = IF SingleRequest(query) THEN proofs[1]
                  ELSE merge_storage_proofs(proofs, chunks, query)
  BY DEF ResultInv, ClassesKnown, Returned
<1>2. result.global_roots = proofs[1].global_roots
  <2>1. merge_storage_proofs(proofs, chunks, query).global_roots = proofs[1].global_roots
    BY DEF merge_storage_proofs
  <2> QED
    BY <1>1, <2>1
<1>3. DOMAIN chunks = 1..Len(chunks) /\ Len(chunks) \in Nat
  BY DEF ReadsAskedOnce
<1>4. SUFFICES ASSUME NEW c \in DOMAIN chunks
               PROVE  /\ \A a \in executed.addresses :
                             About(c, a) => Same(a, proofs[c].global_roots, header)
                      /\ chunks[c].class_hashes # <<>> =>
                             Same(CLASSES_TRIE, proofs[c].global_roots, header)
  BY DEF Unmixed
<1>5. CASE moved = {}
  BY <1>5 DEF Same
<1>6. CASE c = 1 /\ moved # {}
  BY <1>2, <1>6 DEF OsAccepts, SameRoot, Same
<1>7. CASE c # 1 /\ moved # {}
  <2>1. Len(chunks) > 1 /\ ~SingleRequest(query)
    BY <1>1, <1>3, <1>7
  <2>2. result = merge_storage_proofs(proofs, chunks, query) /\ result.global_roots = header
    BY <1>1, <1>7, <2>1 DEF OsAccepts, SameRoot
  <2>3. ASSUME NEW a \in executed.addresses PROVE Committed(a) /\ a # 0 /\ a \in Contracts
    BY ProofsAssumption DEF OsAccepts, AllCommitted, AddressesInv
  <2>4. ASSUME NEW a \in executed.addresses, a \in ToSet(chunks[c].contract_addresses)
        PROVE  Same(a, proofs[c].global_roots, header)
    <3>1. PICK f \in {1, 2} : <<CONTRACTS_TRIE, a, f>> \in result.nodes /\ Same(a, f, header)
      BY <2>2, <2>3 DEF Committed, HasPath
    <3>2. PICK d \in DOMAIN proofs : <<CONTRACTS_TRIE, a, f>> \in proofs[d].nodes
      <4>1. merge_storage_proofs(proofs, chunks, query).nodes =
                UNION {proofs[e].nodes : e \in DOMAIN proofs}
        BY DEF merge_storage_proofs
      <4> QED
        BY <2>2, <3>1, <4>1
    <3>3. d \in DOMAIN chunks /\ d \in 1..Len(proofs)
      BY <1>1, <1>3, <3>2 DEF AnswersInv
    <3>4. proofs[d] = get_storage_proof(chunks[d], proofs[d].global_roots)
      BY <3>3 DEF AnswersInv
    <3>5. <<CONTRACTS_TRIE, a, f>> \in
              Paths(CONTRACTS_TRIE, chunks[d].contract_addresses, proofs[d].global_roots)
      BY <3>2, <3>4, ProofFields
    <3>6. f = proofs[d].global_roots /\ a \in ToSet(chunks[d].contract_addresses)
      BY <2>3, <3>5, NodeOf
    <3>7. d = c
      BY <2>4, <3>3, <3>6 DEF ReadsAskedOnce
    <3> QED
      BY <3>1, <3>6, <3>7
  <2>5. ASSUME NEW a \in executed.addresses, NEW i \in DOMAIN chunks[c].contract_storage_keys,
               chunks[c].contract_storage_keys[i].contract_address = a
        PROVE  Same(a, proofs[c].global_roots, header)
    <3> DEFINE p == chunks[c].contract_storage_keys[i]
    <3>1. p \in ToSet(chunks[c].contract_storage_keys) /\ p.contract_address = a
      BY <2>5 DEF ToSet
    <3>2. p.storage_keys \in Seq(Keys)
      <4>1. chunks[c] \in Query
        BY <1>3 DEF ReadsAskedOnce
      <4>2. chunks[c].contract_storage_keys \in
                Seq([contract_address : Contracts, storage_keys : Seq(Keys)])
        BY <4>1 DEF Query
      <4>3. p \in [contract_address : Contracts, storage_keys : Seq(Keys)]
        <5> HIDE DEF p
        <5>1. p = chunks[c].contract_storage_keys[i]
          BY DEF p
        <5>2. i \in 1..Len(chunks[c].contract_storage_keys)
          BY <2>5, <4>2
        <5> QED
          BY <4>2, <5>1, <5>2, ElementOfSeq
      <4> QED
        BY <4>3
    <3> HIDE DEF p
    <3>3. p.storage_keys # <<>> /\ \A k \in ToSet(p.storage_keys) : <<a, k>> \in executed.storage
      BY <2>1, <3>1 DEF ReadsAskedOnce
    <3>4. PICK k \in Keys : k \in ToSet(p.storage_keys)
      <4>1. 1 \in DOMAIN p.storage_keys /\ p.storage_keys[1] \in Keys
        BY <3>2, <3>3
      <4> QED
        BY <4>1 DEF ToSet
    <3>5. k # 0 /\ <<a, k>> \in executed.storage
      BY <3>3, <3>4, ProofsAssumption
    <3>6. HasPath(StorageNodes(a), a, k, header) /\ a \in ToSet(query.contract_addresses)
      BY <2>2, <2>3, <3>5 DEF Committed
    <3>7. PICK f \in {1, 2} : <<a, k, f>> \in StorageNodes(a) /\ Same(a, f, header)
      BY <2>3, <3>6 DEF HasPath, CONTRACTS_TRIE
    <3>8. PICK d \in DOMAIN chunks :
              /\ f = proofs[d].global_roots
              /\ \E j \in DOMAIN chunks[d].contract_storage_keys :
                     /\ chunks[d].contract_storage_keys[j].contract_address = a
                     /\ k \in ToSet(chunks[d].contract_storage_keys[j].storage_keys)
      <4>1. Len(proofs) = Len(chunks) /\ query = prepare_query(executed)
        BY <1>1
      <4> QED
        BY <2>2, <3>5, <3>6, <3>7, <4>1, StorageNodeOf
    <3>9. PICK e \in ToSet(chunks[d].contract_storage_keys) :
              e.contract_address = a /\ k \in ToSet(e.storage_keys)
      BY <3>8 DEF ToSet
    <3>10. d = c
      BY <3>1, <3>4, <3>8, <3>9 DEF ReadsAskedOnce
    <3> QED
      BY <3>7, <3>8, <3>10
  <2>6. ASSUME chunks[c].class_hashes # <<>>
        PROVE  Same(CLASSES_TRIE, proofs[c].global_roots, header)
    <3>1. PICK h \in executed.classes : h \in ToSet(chunks[c].class_hashes) /\ h # 0
      <4>1. chunks[c].class_hashes \in Seq(Classes)
        <5>1. chunks[c] \in Query
          BY <1>3 DEF ReadsAskedOnce
        <5> QED
          BY <5>1 DEF Query
      <4>2. 1 \in DOMAIN chunks[c].class_hashes /\ chunks[c].class_hashes[1] \in Classes
        BY <2>6, <4>1
      <4>3. chunks[c].class_hashes[1] \in ToSet(chunks[c].class_hashes)
        BY <4>2 DEF ToSet
      <4> QED
        BY <4>2, <4>3, ProofsAssumption DEF ReadsAskedOnce
    <3>2. PICK f \in {1, 2} :
              <<CLASSES_TRIE, h, f>> \in result.classes_proof /\ Same(CLASSES_TRIE, f, header)
      <4>1. HasPath(result.classes_proof, CLASSES_TRIE, h, header)
        BY <2>2 DEF OsAccepts
      <4>2. CLASSES_TRIE # CONTRACTS_TRIE
        BY DEF CLASSES_TRIE, CONTRACTS_TRIE
      <4> QED
        BY <4>1, <4>2 DEF HasPath
    <3>3. PICK d \in DOMAIN proofs : <<CLASSES_TRIE, h, f>> \in proofs[d].classes_proof
      <4>1. merge_storage_proofs(proofs, chunks, query).classes_proof =
                UNION {proofs[e].classes_proof : e \in DOMAIN proofs}
        BY DEF merge_storage_proofs
      <4> QED
        BY <2>2, <3>2, <4>1
    <3>4. d \in DOMAIN chunks /\ d \in 1..Len(proofs)
      BY <1>1, <1>3, <3>3 DEF AnswersInv
    <3>5. proofs[d] = get_storage_proof(chunks[d], proofs[d].global_roots)
      BY <3>4 DEF AnswersInv
    <3>6. <<CLASSES_TRIE, h, f>> \in
              Paths(CLASSES_TRIE, chunks[d].class_hashes, proofs[d].global_roots)
      BY <3>3, <3>5, ProofFields
    <3>7. f = proofs[d].global_roots /\ h \in ToSet(chunks[d].class_hashes)
      BY <3>1, <3>6, NodeOf
    <3>8. d = c
      BY <3>1, <3>4, <3>7 DEF ReadsAskedOnce
    <3> QED
      BY <3>2, <3>7, <3>8
  <2> QED
    BY <2>4, <2>5, <2>6 DEF About
<1> QED
  BY <1>5, <1>6, <1>7

(* Nothing has been asked or answered at first. *)
LEMMA MixInit == Init => AnswersInv /\ AddressesInv /\ ResultInv
<1>0. SUFFICES ASSUME Init PROVE AnswersInv /\ AddressesInv /\ ResultInv
  OBVIOUS
<1>1. /\ stage \in {"prepare", "validate"} /\ fork = 1 /\ proofs = <<>> /\ chunks = <<>>
      /\ executed = [classes |-> {}, addresses |-> {}, storage |-> {}]
  BY <1>0 DEF Init, NotFetched
<1>2. AnswersInv
  BY <1>1 DEF AnswersInv
<1>3. AddressesInv
  BY <1>1 DEF AddressesInv
<1>4. ResultInv
  BY <1>1 DEF ResultInv, ClassesKnown, Returned
<1> QED
  BY <1>2, <1>3, <1>4

(* A step that neither asks nor executes keeps what is known of the answers. *)
LEMMA MixKept ==
    ASSUME AnswersInv, AddressesInv, ResultInv,
           UNCHANGED fetchVars, fork' \in {1, 2}, UNCHANGED <<simulated, header, moved>>,
           UNCHANGED executed,
           stage' \in Unfetched => stage \in Unfetched,
           stage' \in ClassesKnown => stage \in ClassesKnown,
           stage' \in Returned => stage \in Returned,
           stage' \in {"prove", "proved"} => stage \in {"prove", "proved"} \/ Unmixed
    PROVE  AnswersInv' /\ AddressesInv' /\ ResultInv'
<1>1. UNCHANGED <<query, chunks, proofs, result>>
  BY DEF fetchVars
<1>2. AnswersInv'
  BY <1>1 DEF AnswersInv
<1>3. AddressesInv'
  BY DEF AddressesInv
<1>4. Unmixed' = Unmixed
  BY <1>1 DEF Unmixed, About, Same
<1>5. SingleRequest(query)' = SingleRequest(query)
  BY <1>1
<1>6. ResultInv'
  <2>1. stage' \in ClassesKnown => /\ query' = prepare_query(executed')
                                   /\ SingleRequest(query') => Len(chunks') = 1
    BY <1>1 DEF ResultInv
  <2>2. stage' \in Returned => /\ Len(proofs') = Len(chunks')
                               /\ result' = IF SingleRequest(query') THEN proofs'[1]
                                            ELSE merge_storage_proofs(proofs', chunks', query')
    BY <1>1 DEF ResultInv
  <2>3. stage' \in {"prove", "proved"} => Unmixed'
    BY <1>4 DEF ResultInv
  <2> QED
    BY <2>1, <2>2, <2>3 DEF ResultInv
<1> QED
  BY <1>2, <1>3, <1>6

(* Before the fetch there is nothing to know. *)
LEMMA MixEarly ==
    ASSUME AnswersInv, stage \in Unfetched, UNCHANGED fetchVars, fork' \in {1, 2},
           stage' \notin ClassesKnown, AddressesInv'
    PROVE  AnswersInv' /\ AddressesInv' /\ ResultInv'
<1>1. UNCHANGED <<chunks, proofs>>
  BY DEF fetchVars
<1>2. AnswersInv'
  BY <1>1 DEF AnswersInv
<1>3. ResultInv'
  BY DEF ResultInv, ClassesKnown, Returned
<1> QED
  BY <1>2, <1>3

(* The requests: the split, one answer more, the proof that is returned. *)
LEMMA MixFetch ==
    ASSUME ReadsAskedOnce, ReadsAskedOnce', AnswersInv, AddressesInv, ResultInv,
           GetClasses \/ Fetch
    PROVE  AnswersInv' /\ AddressesInv' /\ ResultInv'
<1>1. UNCHANGED <<executed, simulated, header, moved>>
  BY DEF GetClasses, Fetch, executionVars, nodeVars
<1>2. AddressesInv'
  BY <1>1 DEF AddressesInv
<1>3. CASE GetClasses
  <2>1. CASE executed.classes \cap Legacy # {}
    BY <1>2, <1>3, <2>1, MixEarly DEF GetClasses, nodeVars, AnswersInv, Unfetched, ClassesKnown
  <2>2. CASE executed.classes \cap Legacy = {}
    <3>1. /\ stage = "classes" /\ stage' = "fetch" /\ fork' = fork /\ StartFetch(executed)
      BY <1>3, <2>2 DEF GetClasses, nodeVars
    <3>2. proofs = <<>> /\ proofs' = <<>>
      BY <3>1 DEF AnswersInv, Unfetched, StartFetch
    <3>3. Len(chunks') \in Nat
      BY DEF ReadsAskedOnce
    <3>4. AnswersInv'
      BY <3>1, <3>2, <3>3 DEF AnswersInv, Unfetched
    <3>5. /\ query' = prepare_query(executed)
          /\ SingleRequest(query') => chunks' = <<query'>>
      BY <3>1 DEF StartFetch
    <3>6. ResultInv'
      <4>1. SingleRequest(query') => Len(chunks') = 1
        BY <3>5
      <4> QED
        BY <1>1, <3>1, <3>5, <4>1 DEF ResultInv, Returned
    <3> QED
      BY <1>2, <3>4, <3>6
  <2> QED
    BY <2>1, <2>2
<1>4. CASE Fetch
  <2>1. CASE FetchChunk
    <3> DEFINE n == Len(proofs) + 1
               answer == get_storage_proof(chunks[n], fork)
    <3>1. /\ stage = "fetch" /\ UNCHANGED <<stage, query, chunks, result, fork>>
          /\ Len(proofs) < Len(chunks) /\ proofs' = Append(proofs, answer)
      BY <2>1 DEF FetchChunk
    <3>2. proofs \in Seq(Answers) /\ Len(proofs) \in Nat /\ n \in 1..Len(chunks)
      BY <3>1 DEF AnswersInv, ReadsAskedOnce
    <3>3. answer \in Answers /\ answer.global_roots = fork
      <4>1. chunks[n] \in Query /\ fork \in {1, 2}
        BY <3>2 DEF ReadsAskedOnce, AnswersInv
      <4>2. answer \in Answers
        BY <4>1 DEF Answers
      <4>3. answer.global_roots = fork
        BY DEF get_storage_proof
      <4> QED
        BY <4>2, <4>3
    <3>4. answer = get_storage_proof(chunks[n], answer.global_roots)
      BY <3>3
    <3> HIDE DEF answer
    <3>5. /\ proofs' \in Seq(Answers) /\ Len(proofs') = n /\ proofs'[n] = answer
          /\ \A c \in 1..Len(proofs) : proofs'[c] = proofs[c]
      BY <3>1, <3>2, <3>3
    <3>6. AnswersInv'
      <4>1. ASSUME NEW c \in 1..Len(proofs')
            PROVE  proofs'[c] = get_storage_proof(chunks'[c], proofs'[c].global_roots)
        <5>1. CASE c = n
          BY <3>1, <3>4, <3>5, <5>1
        <5>2. CASE c # n
          <6>1. c \in 1..Len(proofs)
            BY <3>2, <3>5, <4>1, <5>2
          <6>2. proofs[c] = get_storage_proof(chunks[c], proofs[c].global_roots)
            BY <6>1 DEF AnswersInv
          <6> QED
            BY <3>1, <3>5, <6>1, <6>2
        <5> QED
          BY <5>1, <5>2
      <4>2. Len(proofs') <= Len(chunks')
        BY <3>1, <3>2, <3>5
      <4> QED
        BY <3>1, <3>5, <4>1, <4>2 DEF AnswersInv, Unfetched
    <3>7. ResultInv'
      <4>1. query = prepare_query(executed) /\ (SingleRequest(query) => Len(chunks) = 1)
        BY <3>1 DEF ResultInv, ClassesKnown
      <4> QED
        BY <1>1, <3>1, <4>1 DEF ResultInv, Returned
    <3> QED
      BY <1>2, <3>6, <3>7
  <2>2. CASE FetchFails
    BY <1>1, <2>2, MixKept DEF FetchFails, AnswersInv, Unfetched, ClassesKnown, Returned
  <2>3. CASE ReturnProof
    <3>1. /\ stage = "fetch" /\ stage' = "commit" /\ Len(proofs) = Len(chunks)
          /\ UNCHANGED <<query, chunks, proofs, fork>>
          /\ result' = IF SingleRequest(query) THEN proofs[1]
                       ELSE merge_storage_proofs(proofs, chunks, query)
      BY <2>3 DEF ReturnProof
    <3>2. AnswersInv'
      BY <3>1 DEF AnswersInv, Unfetched
    <3>3. ResultInv'
      <4>1. query = prepare_query(executed) /\ (SingleRequest(query) => Len(chunks) = 1)
        BY <3>1 DEF ResultInv, ClassesKnown
      <4> QED
        BY <1>1, <3>1, <4>1 DEF ResultInv
    <3> QED
      BY <1>2, <3>2, <3>3
  <2> QED
    BY <1>4, <2>1, <2>2, <2>3 DEF Fetch
<1> QED
  BY <1>3, <1>4

(* Every step keeps the answers and what was made of them. *)
LEMMA MixStep ==
    ASSUME ReadsAskedOnce, ReadsAskedOnce', AnswersInv, AddressesInv, ResultInv, [Next]_vars
    PROVE  AnswersInv' /\ AddressesInv' /\ ResultInv'
<1>1. fork \in {1, 2}
  BY DEF AnswersInv
<1>2. ASSUME NEW at \in Asking \ {"fetch"}, RpcFails(at)
      PROVE  AnswersInv' /\ AddressesInv' /\ ResultInv'
  BY <1>1, <1>2, MixKept DEF RpcFails, executionVars, nodeVars, Unfetched, ClassesKnown, Returned
<1>3. CASE \/ PrepareTransaction \/ Validate \/ FetchHeader \/ Simulate \/ PrefetchClasses
           \/ ExecutionFails \/ Reverts
  <2>1. /\ stage \in Unfetched /\ stage' \notin ClassesKnown
        /\ UNCHANGED <<fetchVars, executed, nodeVars>>
    BY <1>3 DEF PrepareTransaction, Validate, FetchHeader, Simulate, PrefetchClasses,
                ExecutionFails, Reverts, executionVars, Unfetched, ClassesKnown
  <2>2. AddressesInv'
    BY <2>1 DEF AddressesInv
  <2> QED
    BY <1>1, <2>1, <2>2, MixEarly DEF nodeVars
<1>4. CASE Execute
  <2>1. /\ stage \in Unfetched /\ stage' \notin ClassesKnown
        /\ UNCHANGED <<fetchVars, nodeVars>> /\ executed' \in Reads
    BY <1>4 DEF Execute, Unfetched, ClassesKnown
  <2>2. AddressesInv'
    BY <2>1 DEF AddressesInv, Reads
  <2> QED
    BY <1>1, <2>1, <2>2, MixEarly DEF nodeVars
<1>5. CASE GetClasses \/ Fetch
  BY <1>5, MixFetch
<1>6. CASE CommitmentInfos \/ Prove
  <2>1. /\ UNCHANGED <<executionVars, fetchVars, nodeVars>>
        /\ \/ stage = "commit" /\ stage' \in {"invalid_proof", "invalid_diff", "run_os",
                                               "commit_error"}
           \/ stage = "prove" /\ stage' \in {"proved", "prover_error"}
    BY <1>6 DEF CommitmentInfos, Prove
  <2> QED
    BY <1>1, <2>1, MixKept DEF executionVars, nodeVars, Unfetched, ClassesKnown, Returned
<1>7. CASE RunOs
  <2>1. /\ UNCHANGED <<executionVars, fetchVars, nodeVars>> /\ stage = "run_os"
        /\ stage' = IF OsAccepts THEN "prove" ELSE "os_error"
    BY <1>7 DEF RunOs
  <2>2. CASE OsAccepts
    <3>1. Unmixed
      BY <2>1, <2>2, AcceptedUnmixed
    <3>2. stage' = "prove"
      BY <2>1, <2>2
    <3> QED
      BY <1>1, <2>1, <3>1, <3>2, MixKept
      DEF executionVars, nodeVars, Unfetched, ClassesKnown, Returned
  <2>3. CASE ~OsAccepts
    BY <1>1, <2>1, <2>3, MixKept DEF executionVars, nodeVars, Unfetched, ClassesKnown, Returned
  <2> QED
    BY <2>2, <2>3
<1>8. CASE Reorg
  BY <1>1, <1>8, MixKept DEF Reorg, executionVars
<1>9. CASE UNCHANGED vars
  BY <1>1, <1>9, MixKept DEF vars, executionVars, nodeVars
<1> QED
  BY <1>2, <1>3, <1>4, <1>5, <1>6, <1>7, <1>8, <1>9 DEF Next

-----------------------------------------------------------------------------
(* What is asked for, and what is returned. *)

(* The requests are those of what was executed. *)
Requested == query = prepare_query(executed) /\ chunks = Requests(query)

(* The proof that is returned, once every request has an answer. *)
Returns ==
    /\ Len(proofs) = Len(chunks)
    /\ result = IF SingleRequest(query) THEN proofs[1]
                ELSE merge_storage_proofs(proofs, chunks, query)

(* From the fetch on, the query and the requests are those of what was executed,
   and a result is made of one answer for each request. *)
FetchInv ==
    /\ executed \in Reads
    /\ NotFetched \/ Requested
    /\ stage \in Unfetched => NotFetched
    /\ stage \in ClassesKnown => Requested
    /\ stage = "fetch" => result = NoProof
    /\ result # NoProof => Requested /\ Returns

(* Nothing is fetched at first. *)
LEMMA FetchInit == Init => FetchInv
<1> SUFFICES ASSUME Init PROVE FetchInv
  OBVIOUS
<1>1. /\ stage \in {"prepare", "validate"} /\ NotFetched
      /\ executed = [classes |-> {}, addresses |-> {}, storage |-> {}]
  BY DEF Init
<1>2. executed \in Reads
  BY <1>1 DEF Reads
<1>3. result = NoProof
  BY <1>1 DEF NotFetched
<1> QED
  BY <1>1, <1>2, <1>3 DEF FetchInv, ClassesKnown, Unfetched

(* A step that neither executes nor fetches keeps it. *)
LEMMA FetchKept ==
    ASSUME FetchInv, UNCHANGED <<fetchVars, executed>>,
           stage' \in Unfetched => stage \in Unfetched,
           stage' \in ClassesKnown => stage \in ClassesKnown,
           stage' = "fetch" => stage = "fetch"
    PROVE  FetchInv'
<1>1. UNCHANGED <<query, chunks, proofs, result, executed>>
  BY DEF fetchVars
<1>2. NotFetched' = NotFetched /\ Requested' = Requested /\ Returns' = Returns
  BY <1>1 DEF NotFetched, Requested, Returns
<1>3. result' = result /\ executed' = executed
  BY <1>1
<1> QED
  BY <1>2, <1>3 DEF FetchInv

(* Every step keeps it. *)
LEMMA FetchStep == FetchInv /\ [Next]_vars => FetchInv'
<1>0. SUFFICES ASSUME FetchInv, [Next]_vars PROVE FetchInv'
  OBVIOUS
<1>1. ASSUME NEW at \in Asking \ {"fetch"}, RpcFails(at) PROVE FetchInv'
  BY <1>0, <1>1, FetchKept DEF RpcFails, executionVars, Unfetched, ClassesKnown
<1>2. CASE \/ PrepareTransaction \/ Validate \/ FetchHeader \/ Simulate \/ PrefetchClasses
           \/ ExecutionFails \/ Reverts
  <2>1. /\ stage \in Unfetched /\ stage' \notin ClassesKnown
        /\ UNCHANGED <<fetchVars, executed>>
    BY <1>2 DEF PrepareTransaction, Validate, FetchHeader, Simulate, PrefetchClasses,
                ExecutionFails, Reverts, executionVars, Unfetched, ClassesKnown
  <2> QED
    BY <1>0, <2>1, FetchKept DEF ClassesKnown
<1>3. CASE Execute
  <2>1. /\ stage \in Unfetched /\ stage' = "classes"
        /\ UNCHANGED fetchVars /\ executed' \in Reads
    BY <1>3 DEF Execute, Unfetched
  <2>2. NotFetched'
    BY <1>0, <2>1 DEF FetchInv, NotFetched, fetchVars
  <2>3. result' = NoProof
    BY <2>2 DEF NotFetched
  <2> QED
    BY <2>1, <2>2, <2>3 DEF FetchInv, ClassesKnown
<1>4. CASE GetClasses
  <2>1. CASE executed.classes \cap Legacy # {}
    BY <1>0, <1>4, <2>1, FetchKept DEF GetClasses, executionVars, Unfetched, ClassesKnown
  <2>2. CASE executed.classes \cap Legacy = {}
    <3>1. /\ stage = "classes" /\ stage' = "fetch" /\ executed' = executed
          /\ StartFetch(executed)
      BY <1>4, <2>2 DEF GetClasses, executionVars
    <3>2. Requested'
      BY <3>1 DEF StartFetch, Requested, Requests
    <3>3. result' = NoProof
      BY <1>0, <3>1 DEF FetchInv, Unfetched, NotFetched, StartFetch
    <3>4. executed' \in Reads
      BY <1>0, <3>1 DEF FetchInv
    <3> QED
      BY <3>1, <3>2, <3>3, <3>4 DEF FetchInv, Unfetched
  <2> QED
    BY <2>1, <2>2
<1>5. CASE Fetch
  <2>0. executed' = executed
    BY <1>5 DEF Fetch, executionVars
  <2>1. CASE FetchChunk
    <3>1. /\ stage = "fetch" /\ stage' = "fetch" /\ UNCHANGED <<query, chunks, result>>
      BY <2>1 DEF FetchChunk
    <3>2. Requested /\ result = NoProof /\ executed \in Reads
      BY <1>0, <3>1 DEF FetchInv, ClassesKnown
    <3>3. Requested' /\ result' = NoProof
      BY <2>0, <3>1, <3>2 DEF Requested
    <3> QED
      BY <2>0, <3>1, <3>2, <3>3 DEF FetchInv, Unfetched
  <2>2. CASE FetchFails
    BY <1>0, <2>0, <2>2, FetchKept DEF FetchFails, Unfetched, ClassesKnown
  <2>3. CASE ReturnProof
    <3>1. /\ stage = "fetch" /\ stage' = "commit" /\ Len(proofs) = Len(chunks)
          /\ UNCHANGED <<query, chunks, proofs, fork>>
          /\ result' = IF SingleRequest(query) THEN proofs[1]
                       ELSE merge_storage_proofs(proofs, chunks, query)
      BY <2>3 DEF ReturnProof
    <3>2. Requested /\ executed \in Reads
      BY <1>0, <3>1 DEF FetchInv, ClassesKnown
    <3>3. Requested'
      BY <2>0, <3>1, <3>2 DEF Requested
    <3>4. Returns'
      BY <3>1 DEF Returns
    <3> QED
      BY <2>0, <3>1, <3>2, <3>3, <3>4 DEF FetchInv, Unfetched
  <2> QED
    BY <1>5, <2>1, <2>2, <2>3 DEF Fetch
<1>6. CASE CommitmentInfos \/ RunOs \/ Prove
  <2>1. /\ stage \in {"commit", "run_os", "prove"}
        /\ stage' \notin Unfetched /\ stage' # "fetch"
        /\ UNCHANGED <<fetchVars, executed>>
    BY <1>6 DEF CommitmentInfos, RunOs, Prove, executionVars, Unfetched
  <2> QED
    BY <1>0, <2>1, FetchKept DEF ClassesKnown
<1>7. CASE Reorg
  BY <1>0, <1>7, FetchKept DEF Reorg, executionVars
<1>8. CASE UNCHANGED vars
  BY <1>0, <1>8, FetchKept DEF vars, executionVars
<1> QED
  BY <1>0, <1>1, <1>2, <1>3, <1>4, <1>5, <1>6, <1>7, <1>8 DEF Next

(* The requests cover the query of what was executed. *)
LEMMA RequestedCover ==
    ASSUME executed \in Reads, Requested
    PROVE  /\ Cover(chunks, query) /\ query \in Query
           /\ \A a, k : HasCell(query.contract_storage_keys, a, k) <=> <<a, k>> \in executed.storage
BY RequestsCover, PrepareFacts, PreparedCells DEF Requested

(* An entry of a query asks for its keys. *)
LEMMA EntryCells ==
    ASSUME NEW q \in Query, NEW p \in ToSet(q.contract_storage_keys)
    PROVE  /\ p.contract_address \in Contracts
           /\ \A k \in ToSet(p.storage_keys) :
                  k \in Keys /\ HasCell(q.contract_storage_keys, p.contract_address, k)
           /\ NoneEmpty(q.contract_storage_keys) => p.storage_keys # <<>>
<1>1. q.contract_storage_keys \in Seq(Entry)
  BY DEF Query, Entry
<1>2. PICK i \in 1..Len(q.contract_storage_keys) : q.contract_storage_keys[i] = p
  BY <1>1, ToSetLaws
<1>3. p \in Entry
  BY <1>1, <1>2, ElementOfSeq
<1>4. p.contract_address \in Contracts /\ p.storage_keys \in Seq(Keys)
  BY <1>3 DEF Entry
<1>5. \A k \in ToSet(p.storage_keys) : k \in Keys
  BY <1>4, ToSetLaws
<1> QED
  BY <1>2, <1>4, <1>5 DEF HasCell, NoneEmpty

(* The invariant gives both properties of the requests. *)
LEMMA FetchAsksOnce == FetchInv => RequestsWithinLimit /\ ReadsAskedOnce
<1> SUFFICES ASSUME FetchInv PROVE RequestsWithinLimit /\ ReadsAskedOnce
  OBVIOUS
<1>1. CASE NotFetched
  <2>1. chunks = <<>>
    BY <1>1 DEF NotFetched
  <2> QED
    BY <2>1 DEF RequestsWithinLimit, ReadsAskedOnce
<1>2. CASE Requested
  <2>0. /\ Cover(chunks, query) /\ query \in Query
        /\ \A a, k : HasCell(query.contract_storage_keys, a, k) <=> <<a, k>> \in executed.storage
    BY <1>2, RequestedCover DEF FetchInv
  <2>1. chunks \in Seq(Query) /\ DOMAIN chunks = 1..Len(chunks)
    BY <2>0 DEF Cover
  <2>2. RequestsWithinLimit
    BY <2>0, <2>1 DEF RequestsWithinLimit, Cover
  <2>3. \A c \in DOMAIN chunks : chunks[c] \in Query
    BY <2>1
  <2>4. ASSUME NEW c \in DOMAIN chunks, NEW d \in DOMAIN chunks, c # d
        PROVE  /\ ToSet(chunks[c].class_hashes) \cap ToSet(chunks[d].class_hashes) = {}
               /\ ToSet(chunks[c].contract_addresses) \cap ToSet(chunks[d].contract_addresses) = {}
               /\ \A p \in ToSet(chunks[c].contract_storage_keys),
                     q \in ToSet(chunks[d].contract_storage_keys) :
                      p.contract_address = q.contract_address =>
                          ToSet(p.storage_keys) \cap ToSet(q.storage_keys) = {}
    <3>0. \A x \in Item : ~(Asks(chunks[c], x) /\ Asks(chunks[d], x))
      BY <2>0, <2>1, <2>4 DEF Cover
    <3>1. ASSUME NEW a, a \in ToSet(chunks[c].contract_addresses),
                 a \in ToSet(chunks[d].contract_addresses)
          PROVE  FALSE
      <4>1. a \in Contracts
        <5>1. chunks[c].contract_addresses \in Seq(Contracts)
          BY <2>3 DEF Query
        <5> QED
          BY <3>1, <5>1, ToSetLaws
      <4>2. ContractAddress(a) \in Item
        BY <4>1 DEF Item
      <4>3. Asks(chunks[c], ContractAddress(a)) /\ Asks(chunks[d], ContractAddress(a))
        BY <2>3, <3>1, AsksKinds
      <4> QED
        BY <3>0, <4>2, <4>3
    <3>2. ASSUME NEW h, h \in ToSet(chunks[c].class_hashes),
                 h \in ToSet(chunks[d].class_hashes)
          PROVE  FALSE
      <4>1. h \in Classes
        <5>1. chunks[c].class_hashes \in Seq(Classes)
          BY <2>3 DEF Query
        <5> QED
          BY <3>2, <5>1, ToSetLaws
      <4>2. ClassHash(h) \in Item
        BY <4>1 DEF Item
      <4>3. Asks(chunks[c], ClassHash(h)) /\ Asks(chunks[d], ClassHash(h))
        BY <2>3, <3>2, AsksKinds
      <4> QED
        BY <3>0, <4>2, <4>3
    <3>3. ASSUME NEW p \in ToSet(chunks[c].contract_storage_keys),
                 NEW q \in ToSet(chunks[d].contract_storage_keys),
                 p.contract_address = q.contract_address,
                 NEW k, k \in ToSet(p.storage_keys), k \in ToSet(q.storage_keys)
          PROVE  FALSE
      <4> DEFINE a == p.contract_address
      <4>1. /\ a \in Contracts /\ k \in Keys
            /\ HasCell(chunks[c].contract_storage_keys, a, k)
        BY <2>3, <3>3, EntryCells
      <4>2. HasCell(chunks[d].contract_storage_keys, a, k)
        BY <2>3, <3>3, EntryCells
      <4> HIDE DEF a
      <4>3. StorageKey(a, k) \in Item
        BY <4>1, CellItem
      <4>4. Asks(chunks[c], StorageKey(a, k)) /\ Asks(chunks[d], StorageKey(a, k))
        BY <2>3, <4>1, <4>2, AsksKinds
      <4> QED
        BY <3>0, <4>3, <4>4
    <3> QED
      BY <3>1, <3>2, <3>3
  <2>5. \A c \in DOMAIN chunks : ToSet(chunks[c].class_hashes) \subseteq executed.classes
    <3>1. ToSet(query.class_hashes) = executed.classes
      BY <1>2, PrepareFacts DEF FetchInv, Requested
    <3>2. \A h : h \in ToSet(query.class_hashes)
              <=> \E c \in 1..Len(chunks) : h \in ToSet(chunks[c].class_hashes)
      BY <2>0, CoverFields
    <3> QED
      BY <2>1, <3>1, <3>2
  <2>6. ASSUME Len(chunks) > 1, NEW c \in DOMAIN chunks,
               NEW p \in ToSet(chunks[c].contract_storage_keys)
        PROVE  /\ p.storage_keys # <<>>
               /\ \A k \in ToSet(p.storage_keys) : <<p.contract_address, k>> \in executed.storage
    <3>1. NoneEmpty(chunks[c].contract_storage_keys)
      BY <2>0, <2>1, <2>6 DEF Cover
    <3>2. p.storage_keys # <<>>
      BY <2>3, <3>1, EntryCells
    <3>3. ASSUME NEW k \in ToSet(p.storage_keys)
          PROVE  <<p.contract_address, k>> \in executed.storage
      <4>1. /\ p.contract_address \in Contracts /\ k \in Keys
            /\ HasCell(chunks[c].contract_storage_keys, p.contract_address, k)
        BY <2>3, EntryCells
      <4>2. HasCell(query.contract_storage_keys, p.contract_address, k)
        BY <2>0, <2>1, <4>1, CoverFields
      <4> QED
        BY <2>0, <4>2
    <3> QED
      BY <3>2, <3>3
  <2>7. ReadsAskedOnce
    BY <2>1, <2>4, <2>5, <2>6 DEF ReadsAskedOnce
  <2> QED
    BY <2>2, <2>7
<1> QED
  BY <1>1, <1>2 DEF FetchInv

(* No request, whole or chunk, asks the node for more keys than it allows, and
   none is empty unless the block read nothing, for every limit and every set of
   reads (prepare_query, split_query, collect_query). *)
THEOREM RequestsWithinLimitHolds == Spec => []RequestsWithinLimit
<1>1. FetchInv => RequestsWithinLimit
  BY FetchAsksOnce
<1> QED
  BY <1>1, FetchInit, FetchStep, PTL DEF Spec

(* Splitting repeats nothing, wherever a chunk boundary falls: a class, a contract
   and a storage cell that were read are asked for in one chunk only, and no chunk has
   an entry without keys (flatten_query, split_query, collect_query). *)
THEOREM ReadsAskedOnceHolds == Spec => []ReadsAskedOnce
<1>1. FetchInv => ReadsAskedOnce
  BY FetchAsksOnce
<1> QED
  BY <1>1, FetchInit, FetchStep, PTL DEF Spec

(* What is proved is one state, however the node changes fork between the header
   and the chunks: the chunks repeat nothing, so the OS's check of
   the first chunk's roots binds every other chunk (RunOs, merge_storage_proofs). *)
THEOREM MixedNeverProvedHolds == Spec => []MixedNeverProved
<1>1. ResultInv => MixedNeverProved
  BY DEF ResultInv, MixedNeverProved, Unmixed, About
<1>2. /\ ReadsAskedOnce /\ ReadsAskedOnce' /\ AnswersInv /\ AddressesInv /\ ResultInv
      /\ [Next]_vars
      => AnswersInv' /\ AddressesInv' /\ ResultInv'
  BY MixStep
<1> QED
  BY <1>1, <1>2, MixInit, ReadsAskedOnceHolds, PTL DEF Spec

-----------------------------------------------------------------------------
(* What is returned when the node keeps to one fork. *)

(* Answers of one fork give the node's proof of the whole query. *)
LEMMA WholeResult ==
    ASSUME executed \in Reads, Requested, Returns, AnswersInv,
           NEW f, \A c \in 1..Len(proofs) : proofs[c].global_roots = f
    PROVE  result = get_storage_proof(query, f)
<1>1. /\ query = prepare_query(executed) /\ chunks = Requests(query)
      /\ Len(proofs) = Len(chunks)
      /\ result = IF SingleRequest(query) THEN proofs[1]
                  ELSE merge_storage_proofs(proofs, chunks, query)
  BY DEF Requested, Returns
<1>2. AnswersOn(proofs, chunks, f)
  <2>1. DOMAIN proofs = 1..Len(proofs)
    BY DEF AnswersInv
  <2>2. \A c \in 1..Len(proofs) : proofs[c] = get_storage_proof(chunks[c], f)
    BY DEF AnswersInv
  <2> QED
    BY <1>1, <2>1, <2>2 DEF AnswersOn
<1>3. CASE SingleRequest(query)
  <2>1. chunks = <<query>>
    BY <1>1, <1>3 DEF Requests
  <2>2. Len(chunks) = 1 /\ chunks[1] = query
    BY <2>1
  <2>3. proofs[1] = get_storage_proof(chunks[1], f)
    BY <1>2, <2>2 DEF AnswersOn
  <2> QED
    BY <1>1, <1>3, <2>2, <2>3
<1>4. CASE ~SingleRequest(query)
  <2>1. merge_storage_proofs(proofs, chunks, query) = get_storage_proof(query, f)
    BY <1>1, <1>2, <1>4, MergedWhole
  <2> QED
    BY <1>1, <1>4, <2>1
<1> QED
  BY <1>3, <1>4

(* A proof put together from chunks of one fork is the proof of the whole query, for
   every limit on a request: the same nodes, the leaves in the order of the
   addresses and each contract's node map at its index (merge_storage_proofs). *)
THEOREM MergedIsWholeHolds == Spec => []MergedIsWhole
<1>1. FetchInv /\ AnswersInv => MergedIsWhole
  <2> SUFFICES ASSUME FetchInv, AnswersInv, NEW f \in {1, 2}, result # NoProof,
                      \A c \in DOMAIN proofs : proofs[c].global_roots = f
               PROVE  result = get_storage_proof(query, f)
    BY DEF MergedIsWhole
  <2>1. executed \in Reads /\ Requested /\ Returns
    BY DEF FetchInv
  <2>2. DOMAIN proofs = 1..Len(proofs)
    BY DEF AnswersInv
  <2> QED
    BY <2>1, <2>2, WholeResult
<1>2. /\ ReadsAskedOnce /\ ReadsAskedOnce' /\ AnswersInv /\ AddressesInv /\ ResultInv
      /\ [Next]_vars
      => AnswersInv' /\ AddressesInv' /\ ResultInv'
  BY MixStep
<1> QED
  BY <1>1, <1>2, MixInit, FetchInit, FetchStep, ReadsAskedOnceHolds, PTL DEF Spec

-----------------------------------------------------------------------------
(* A run on which the node keeps to one fork. *)

Honest == reorgs = 0 /\ request.block_id # "latest"

(* Every step of it saw the same state. *)
OneState ==
    /\ fork = 1 /\ signed_at = 1
    /\ stage \in {"simulate", "prefetch", "execute"} \cup Executed => header = 1
    /\ simulated.complete => simulated.at = 1
    /\ stage \in Executed => simulated.at = 1
    /\ \A c \in 1..Len(proofs) : proofs[c].global_roots = 1

(* Without a reorganisation there is one state, and nothing was refused. *)
HonestInv ==
    /\ reorgs \in Nat
    /\ Honest => OneState
    /\ HonestRunAccepted

(* The proof has everything that was executed on: the committer and the OS accept. *)
LEMMA HonestAccepted ==
    ASSUME FetchInv, AnswersInv, ResultInv, Honest, OneState, stage \in Returned
    PROVE  /\ ProofFits
           /\ AllCommitted
           /\ OsAccepts
<1>1. /\ executed \in Reads /\ Requested /\ Returns
  BY DEF FetchInv, ResultInv, Returns, Returned, ClassesKnown
<1>2. result = get_storage_proof(query, 1)
  BY <1>1, WholeResult DEF OneState
<1>3. query = prepare_query(executed)
  BY <1>1 DEF Requested
<1> DEFINE adr == query.contract_addresses
           csk == query.contract_storage_keys
<1>4. /\ ToSet(query.class_hashes) = executed.classes /\ ToSet(adr) = executed.addresses
      /\ Len(csk) = Len(adr) /\ query \in Query
      /\ \A i \in 1..Len(adr) :
             /\ csk[i].contract_address = adr[i]
             /\ ToSet(csk[i].storage_keys) = {k \in Keys : <<adr[i], k>> \in executed.storage}
  BY <1>1, <1>3, PrepareFacts
<1>5. adr \in Seq(Contracts) /\ csk \in Seq(Entry)
  BY <1>4 DEF Query, Entry
<1>6. DOMAIN adr = 1..Len(adr) /\ DOMAIN csk = 1..Len(adr)
  BY <1>4, <1>5
<1>7. /\ result.global_roots = 1
      /\ result.classes_proof = Paths(CLASSES_TRIE, query.class_hashes, 1)
      /\ result.nodes = Paths(CONTRACTS_TRIE, adr, 1)
      /\ result.contract_leaves_data = Leaves(adr, 1)
      /\ DOMAIN result.contracts_storage_proofs = 1..Len(adr)
      /\ \A i \in 1..Len(adr) :
             result.contracts_storage_proofs[i] =
                 Paths(csk[i].contract_address, csk[i].storage_keys, 1)
  BY <1>2, <1>6, ProofFields
<1>8. /\ Len(result.contract_leaves_data) = Len(adr)
      /\ \A i \in 1..Len(adr) : result.contract_leaves_data[i] = [of |-> adr[i], at |-> 1]
  BY <1>5, <1>7, LeavesType
<1>9. ASSUME NEW a \in executed.addresses PROVE Committed(a)
  <2>1. Position(a) \in 1..Len(adr) /\ adr[Position(a)] = a
    <3>1. \E i \in DOMAIN adr : adr[i] = a
      BY <1>4, <1>5, <1>6, ToSetLaws
    <3> QED
      BY <1>6, <3>1 DEF Position
  <2>2. a \in ToSet(adr)
    BY <1>4
  <2>3. HasPath(result.nodes, CONTRACTS_TRIE, a, result.global_roots)
    <3>1. <<CONTRACTS_TRIE, a, 1>> \in Path(CONTRACTS_TRIE, a, 1)
      BY DEF Path
    <3>2. <<CONTRACTS_TRIE, a, 1>> \in result.nodes
      BY <1>7, <2>2, <3>1, PathsOf
    <3> QED
      BY <1>7, <3>2 DEF HasPath, Same
  <2>4. /\ result.contract_leaves_data[Position(a)].of = a
        /\ Same(a, result.contract_leaves_data[Position(a)].at, result.global_roots)
    <3>1. result.contract_leaves_data[Position(a)] = [of |-> a, at |-> 1]
      BY <1>8, <2>1
    <3> QED
      BY <1>7, <3>1 DEF Same
  <2>5. ASSUME NEW cell \in executed.storage, cell[1] = a
        PROVE  HasPath(StorageNodes(a), a, cell[2], result.global_roots)
    <3> DEFINE k == cell[2]
               i == Position(a)
    <3>1. <<a, k>> \in executed.storage /\ k \in Keys
      <4>1. cell \in Contracts \X Keys
        BY <1>1 DEF Reads
      <4>2. cell = <<cell[1], cell[2]>> /\ k \in Keys
        BY <4>1
      <4> QED
        BY <2>5, <4>2
    <3> HIDE DEF k, i
    <3>2. i \in 1..Len(adr) /\ adr[i] = a
      BY <2>1 DEF i
    <3>3. k \in ToSet(csk[i].storage_keys) /\ csk[i].contract_address = a
      BY <1>4, <3>1, <3>2
    <3>4. <<a, k, 1>> \in Path(a, k, 1)
      BY DEF Path
    <3>5. <<a, k, 1>> \in result.contracts_storage_proofs[i]
      BY <1>7, <3>2, <3>3, <3>4, PathsOf
    <3>6. <<a, k, 1>> \in StorageNodes(a)
      BY <1>7, <3>2, <3>5 DEF StorageNodes, i
    <3>7. HasPath(StorageNodes(a), a, k, result.global_roots)
      BY <1>7, <3>6 DEF HasPath, Same
    <3> QED
      BY <3>7 DEF k
  <2> QED
    BY <2>2, <2>3, <2>4, <2>5 DEF Committed
<1>10. AllCommitted
  BY <1>9 DEF AllCommitted
<1>11. \A c \in executed.classes :
           HasPath(result.classes_proof, CLASSES_TRIE, c, result.global_roots)
  <2> TAKE c \in executed.classes
  <2>1. <<CLASSES_TRIE, c, 1>> \in Path(CLASSES_TRIE, c, 1)
    BY DEF Path
  <2>2. <<CLASSES_TRIE, c, 1>> \in result.classes_proof
    BY <1>4, <1>7, <2>1, PathsOf
  <2> QED
    BY <1>7, <2>2 DEF HasPath, Same
<1>12. header = 1 /\ simulated.at = 1 /\ signed_at = 1
  BY DEF OneState, Returned, Executed
<1>13. OsAccepts
  BY <1>7, <1>10, <1>11, <1>12 DEF OsAccepts, SameRoot, Same
<1>14. ProofFits
  <2>1. result.contracts_storage_proofs =
            [i \in DOMAIN csk |-> Paths(csk[i].contract_address, csk[i].storage_keys, 1)]
    BY <1>2 DEF get_storage_proof
  <2>2. Len(result.contracts_storage_proofs) = Len(csk)
    BY <1>4, <1>6, <2>1
  <2> QED
    BY <1>8, <2>2 DEF ProofFits
<1> QED
  BY <1>10, <1>13, <1>14

(* The first request sees the first fork. *)
LEMMA HonestInit == Init => HonestInv
<1> SUFFICES ASSUME Init PROVE HonestInv
  OBVIOUS
<1>1. /\ stage \in {"prepare", "validate"} /\ fork = 1 /\ signed_at = 1 /\ reorgs = 0
      /\ proofs = <<>> /\ simulated = [at |-> 0, complete |-> FALSE]
  BY DEF Init, NotFetched
<1>2. OneState
  BY <1>1 DEF OneState, Executed
<1> QED
  BY <1>1, <1>2 DEF HonestInv, HonestRunAccepted

(* A step that asks nothing and refuses nothing keeps the one state. *)
LEMMA HonestKept ==
    ASSUME HonestInv, UNCHANGED <<request, signed_at, header, simulated, proofs, fork, reorgs>>,
           stage' \in {"simulate", "prefetch", "execute"} \cup Executed =>
               stage \in {"simulate", "prefetch", "execute"} \cup Executed,
           stage' \in Executed => stage \in Executed \/ simulated.complete,
           stage' \in {"commit_error", "os_error", "invalid_proof"} =>
               \/ stage \in {"commit_error", "os_error", "invalid_proof"}
               \/ ~Honest
    PROVE  HonestInv'
<1>1. Honest' = Honest
  BY DEF Honest
<1>2. ASSUME Honest' PROVE OneState'
  <2>1. OneState
    BY <1>1, <1>2 DEF HonestInv
  <2> QED
    BY <2>1 DEF OneState
<1>3. HonestRunAccepted'
  <2> SUFFICES ASSUME stage' \in {"commit_error", "os_error", "invalid_proof"}
               PROVE  reorgs > 0 \/ request.block_id = "latest"
    BY DEF HonestRunAccepted
  <2>1. CASE ~Honest
    BY <2>1 DEF Honest, HonestInv
  <2>2. CASE stage \in {"commit_error", "os_error", "invalid_proof"}
    BY <2>2 DEF HonestInv, HonestRunAccepted
  <2> QED
    BY <2>1, <2>2
<1>4. reorgs' \in Nat
  BY DEF HonestInv
<1> QED
  BY <1>2, <1>3, <1>4 DEF HonestInv

(* Every step keeps it. *)
LEMMA HonestStep ==
    ASSUME FetchInv, AnswersInv, ResultInv, HonestInv, [Next]_vars
    PROVE  HonestInv'
<1> USE DEF Executed
<1>1. ASSUME NEW at \in Asking \ {"fetch"}, RpcFails(at) PROVE HonestInv'
  BY <1>1, HonestKept DEF RpcFails, requestVars, executionVars, fetchVars, nodeVars
<1>2. CASE PrepareTransaction
  <2>1. /\ stage' = "validate" /\ signed_at' = fork
        /\ UNCHANGED <<request, header, simulated, proofs, fork, reorgs>>
    BY <1>2 DEF PrepareTransaction, executionVars, fetchVars, nodeVars
  <2>2. ASSUME Honest' PROVE OneState'
    <3>1. Honest
      BY <2>1, <2>2 DEF Honest
    <3> QED
      BY <2>1, <3>1 DEF HonestInv, OneState
  <2> QED
    BY <2>1, <2>2 DEF HonestInv, HonestRunAccepted
<1>3. CASE Validate \/ PrefetchClasses \/ ExecutionFails \/ Reverts
  BY <1>3, HonestKept DEF Validate, PrefetchClasses, ExecutionFails, Reverts, requestVars,
                          executionVars, fetchVars, nodeVars
<1>4. CASE FetchHeader
  <2>1. /\ stage' = "simulate" /\ header' = fork
        /\ UNCHANGED <<request, signed_at, simulated, proofs, fork, reorgs>>
    BY <1>4 DEF FetchHeader, requestVars, fetchVars, nodeVars
  <2>2. ASSUME Honest' PROVE OneState'
    <3>1. Honest
      BY <2>1, <2>2 DEF Honest
    <3> QED
      BY <2>1, <3>1 DEF HonestInv, OneState
  <2> QED
    BY <2>1, <2>2 DEF HonestInv, HonestRunAccepted
<1>5. CASE Simulate
  <2>1. /\ stage = "simulate" /\ stage' = "prefetch"
        /\ UNCHANGED <<request, signed_at, header, proofs, fork, reorgs>>
    BY <1>5 DEF Simulate, requestVars, fetchVars, nodeVars
  <2>2. ASSUME Honest' PROVE OneState'
    <3>1. Honest /\ OneState
      BY <2>1, <2>2 DEF Honest, HonestInv
    <3>2. simulated'.complete => simulated'.at = 1
      BY <1>5, <3>1 DEF Simulate, Honest, OneState
    <3> QED
      BY <2>1, <3>1, <3>2 DEF OneState
  <2> QED
    BY <2>1, <2>2 DEF HonestInv, HonestRunAccepted
<1>6. CASE Execute
  BY <1>6, HonestKept DEF Execute, requestVars, fetchVars, nodeVars
<1>7. CASE GetClasses
  <2>1. /\ stage = "classes" /\ stage' \in {"deprecated_class", "fetch"}
        /\ UNCHANGED <<request, signed_at, header, simulated, fork, reorgs>>
    BY <1>7 DEF GetClasses, requestVars, executionVars, nodeVars
  <2>2. proofs' = proofs
    BY <1>7 DEF GetClasses, StartFetch, fetchVars
  <2> QED
    BY <2>1, <2>2, HonestKept
<1>8. CASE Fetch
  <2>0. UNCHANGED <<request, signed_at, header, simulated, reorgs, fork>>
    BY <1>8 DEF Fetch, requestVars, executionVars, FetchChunk, FetchFails, ReturnProof
  <2>1. CASE FetchChunk
    <3> DEFINE n == Len(proofs) + 1
               answer == get_storage_proof(chunks[n], fork)
    <3>1. /\ stage = "fetch" /\ stage' = "fetch" /\ proofs' = Append(proofs, answer)
      BY <2>1 DEF FetchChunk
    <3>2. proofs \in Seq(Answers) /\ Len(proofs) \in Nat
      BY DEF AnswersInv
    <3>3. answer.global_roots = fork
      BY ProofFields
    <3> HIDE DEF answer
    <3>4. /\ Len(proofs') = n /\ proofs'[n] = answer
          /\ \A c \in 1..Len(proofs) : proofs'[c] = proofs[c]
      BY <3>1, <3>2
    <3>5. \A c \in 1..n : c \in 1..Len(proofs) \/ c = n
      BY <3>2
    <3>6. ASSUME Honest' PROVE OneState'
      <4>1. Honest /\ OneState
        BY <2>0, <3>6 DEF Honest, HonestInv
      <4>2. \A c \in 1..Len(proofs') : proofs'[c].global_roots = 1
        BY <3>3, <3>4, <3>5, <4>1 DEF OneState
      <4> QED
        BY <2>0, <3>1, <4>1, <4>2 DEF OneState
    <3> QED
      BY <2>0, <3>1, <3>6 DEF HonestInv, HonestRunAccepted
  <2>2. CASE FetchFails
    BY <2>0, <2>2, HonestKept DEF FetchFails, fetchVars
  <2>3. CASE ReturnProof
    BY <2>0, <2>3, HonestKept DEF ReturnProof
  <2> QED
    BY <1>8, <2>1, <2>2, <2>3 DEF Fetch
<1>9. CASE CommitmentInfos
  <2>1. /\ stage = "commit" /\ stage \in Returned
        /\ UNCHANGED <<request, signed_at, header, simulated, proofs, fork, reorgs>>
        /\ stage' \in {"invalid_proof", "invalid_diff", "run_os", "commit_error"}
    BY <1>9 DEF CommitmentInfos, Returned, requestVars, executionVars, fetchVars, nodeVars
  <2>2. stage' = "invalid_proof" => ~ProofFits
    BY <1>9 DEF CommitmentInfos
  <2>3. stage' = "commit_error" => ~AllCommitted
    BY <1>9 DEF CommitmentInfos
  <2>4. Honest => stage' \notin {"commit_error", "os_error", "invalid_proof"}
    BY <2>1, <2>2, <2>3, HonestAccepted DEF HonestInv
  <2> QED
    BY <2>1, <2>4, HonestKept
<1>10. CASE RunOs
  <2>1. /\ stage = "run_os" /\ stage \in Returned
        /\ UNCHANGED <<request, signed_at, header, simulated, proofs, fork, reorgs>>
        /\ stage' = IF OsAccepts THEN "prove" ELSE "os_error"
    BY <1>10 DEF RunOs, Returned, requestVars, executionVars, fetchVars, nodeVars
  <2>2. Honest => OsAccepts
    BY <2>1, HonestAccepted DEF HonestInv
  <2>3. Honest => stage' \notin {"commit_error", "os_error", "invalid_proof"}
    BY <2>1, <2>2
  <2>4. stage' \in {"prove", "os_error"}
    BY <2>1
  <2> QED
    BY <2>1, <2>3, <2>4, HonestKept
<1>11. CASE Prove
  BY <1>11, HonestKept DEF Prove, requestVars, executionVars, fetchVars, nodeVars
<1>12. CASE Reorg
  <2>1. stage' = stage /\ reorgs' = reorgs + 1 /\ stage \in Asking
    BY <1>12 DEF Reorg
  <2>2. reorgs' \in Nat /\ reorgs' > 0
    BY <2>1 DEF HonestInv
  <2>3. ~Honest'
    BY <2>2 DEF Honest
  <2> QED
    BY <2>2, <2>3 DEF HonestInv, HonestRunAccepted
<1>13. CASE UNCHANGED vars
  BY <1>13, HonestKept DEF vars, requestVars, executionVars, fetchVars, nodeVars
<1> QED
  BY <1>1, <1>2, <1>3, <1>4, <1>5, <1>6, <1>7, <1>8, <1>9, <1>10, <1>11, <1>12, <1>13 DEF Next

(* While the node keeps to one fork, what was executed for a given block is accepted:
   neither the committer nor the OS refuses a proof for something the query, its
   chunks or the merged proof lack, for every set of reads and every limit on a
   request (prepare_query, fetch_proofs, create_commitment_infos). *)
THEOREM HonestRunAcceptedHolds == Spec => []HonestRunAccepted
<1>1. HonestInv => HonestRunAccepted
  BY DEF HonestInv
<1>2. /\ ReadsAskedOnce /\ ReadsAskedOnce' /\ AnswersInv /\ AddressesInv /\ ResultInv
      /\ [Next]_vars
      => AnswersInv' /\ AddressesInv' /\ ResultInv'
  BY MixStep
<1>3. FetchInv /\ AnswersInv /\ ResultInv /\ HonestInv /\ [Next]_vars => HonestInv'
  BY HonestStep
<1> QED
  BY <1>1, <1>2, <1>3, MixInit, FetchInit, FetchStep, HonestInit, ReadsAskedOnceHolds, PTL
  DEF Spec

=============================================================================
