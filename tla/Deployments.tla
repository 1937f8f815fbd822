---------------------------- MODULE Deployments ----------------------------
(***************************************************************************)
(* POST deploy and POST bank/deploy of the coin-flip server: each returns   *)
(* the stored deployment of its kind or deploys a contract, stores it and   *)
(* writes both deployments to deployments.json, which a restart reads back  *)
(* (apps/coinflip/src/routes.rs, state.rs).  GET bank/status keeps the read *)
(* lock of the stored bank while it asks the node for the balance.          *)
(*                                                                         *)
(* A request deploys at most one contract, so the contract is named by the  *)
(* request.  Everything the handler awaits is a separate step, and a call   *)
(* to the node or to sncast may never return.                               *)
(***************************************************************************)
EXTENDS Integers, Sequences, FiniteSets, FifoLock

CONSTANTS
    Requests,    \* HTTP requests, each used once
    None,        \* no deployment
    MaxCrashes,  \* bound: crashes of the server
    MaxStalls,   \* bound: requests with a call that never returns
    DiskFails    \* writing the file may fail (the result is ignored)

(* None and the content of a file that does not parse are no deployments. *)
ASSUME DeploymentsAssumption ==
    /\ None \notin Requests
    /\ "torn" \notin Requests \cup {None}
    /\ MaxCrashes \in Nat /\ MaxStalls \in Nat

Kinds == {"coinflip", "bank"}
Endpoints == Kinds \cup {"status"}
Deployed == [Kinds -> Requests \cup {None}]     \* PersistedDeployments
Nothing == [k \in Kinds |-> None]               \* its Default

(* A file that does not parse: truncated, or a mixture of two writes. *)
Torn == [k \in Kinds |-> "torn"]

VARIABLES
    slot,       \* kind -> stored deployment (state.coinflip, state.bank)
    file,       \* content of deployments.json, or Torn
    pc,         \* request -> stage of its handler
    kind,       \* request -> which endpoint it called
    answer,     \* request -> the contract it returned
    snapshot,   \* request -> what save_deployments has read so far
    lockQueue,  \* requests queued on sncast_lock, its holder first
    onChain,    \* contracts that exist on the chain
    disturbed,  \* history: two saves overlapped, one was cut off or failed
    crashes,
    stalled     \* requests whose call to the outside never returns

faults == <<crashes, stalled>>
vars == <<slot, file, pc, kind, answer, snapshot, lockQueue, onChain, disturbed, faults>>

Replies == {"done", "error", "cancelled"}
Waiting == {"lock", "approveLock", "fundLock"}
Holding == {"deploy", "approve", "fund"}
Reading == {"readCoinflip", "readBank"}
Saving == Reading \cup {"open", "write"}

Init ==
    /\ slot = Nothing
    /\ file = Torn                          \* there is no file yet
    /\ pc = [r \in Requests |-> "idle"]
    /\ kind = [r \in Requests |-> "coinflip"]
    /\ answer = [r \in Requests |-> None]
    /\ snapshot = [r \in Requests |-> Nothing]
    /\ lockQueue = <<>>
    /\ onChain = {}
    /\ disturbed = FALSE
    /\ crashes = 0
    /\ stalled = {}

Goto(r, stage) == pc' = [pc EXCEPT ![r] = stage]
Leave(r) == lockQueue' = Leaving(lockQueue, r)
Enter(r) == lockQueue' = Append(lockQueue, r)

(* The guard is dropped at the end of one call and taken again in the next. *)
Rejoin(r) == lockQueue' = Append(Leaving(lockQueue, r), r)

-----------------------------------------------------------------------------
(* The RwLocks of the slots are fair: a reader queues behind a waiting writer. *)
Readable(k) == \A q \in Requests : ~(pc[q] = "store" /\ kind[q] = k)

(* bank_status holds the bank's lock during its call, and save_deployments
   holds the first lock while it waits for the second: both guards live until
   the end of their statement. *)
Writable(k) == \A q \in Requests : pc[q] # (IF k = "bank" THEN "status" ELSE "readBank")

Request(r, e) ==
    /\ pc[r] = "idle"
    /\ Goto(r, "read")
    /\ kind' = [kind EXCEPT ![r] = e]
    /\ UNCHANGED <<slot, file, answer, snapshot, lockQueue, onChain, disturbed, faults>>

(* The check at the top of the handler, and its use after the await of the
   lock, are two steps: the handler does not look again. *)
ReturnExisting(r) ==
    /\ pc[r] = "read"
    /\ kind[r] \in Kinds
    /\ Readable(kind[r])
    /\ slot[kind[r]] # None
    /\ Goto(r, "done")
    /\ answer' = [answer EXCEPT ![r] = slot[kind[r]]]
    /\ UNCHANGED <<slot, file, kind, snapshot, lockQueue, onChain, disturbed, faults>>

StartDeploy(r) ==
    /\ pc[r] = "read"
    /\ kind[r] \in Kinds
    /\ Readable(kind[r])
    /\ slot[kind[r]] = None
    /\ Goto(r, "lock")
    /\ Enter(r)
    /\ UNCHANGED <<slot, file, kind, answer, snapshot, onChain, disturbed, faults>>

(* GET bank/status: the node is asked only when a bank is stored. *)
BankStatus(r) ==
    /\ pc[r] = "read"
    /\ kind[r] = "status"
    /\ Readable("bank")
    /\ Goto(r, IF slot.bank = None THEN "done" ELSE "status")
    /\ UNCHANGED <<slot, file, kind, answer, snapshot, lockQueue, onChain, disturbed, faults>>

(* The balance, or none when the call failed. *)
BankBalance(r) ==
    /\ pc[r] = "status"
    /\ Goto(r, "done")
    /\ answer' = [answer EXCEPT ![r] = slot.bank]
    /\ UNCHANGED <<slot, file, kind, snapshot, lockQueue, onChain, disturbed, faults>>

AcquireLock(r) ==
    /\ pc[r] \in Waiting
    /\ Head(lockQueue) = r
    /\ Goto(r, CASE pc[r] = "lock" -> "deploy"
                 [] pc[r] = "approveLock" -> "approve"
                 [] pc[r] = "fundLock" -> "fund")
    /\ UNCHANGED <<slot, file, kind, answer, snapshot, lockQueue, onChain, disturbed, faults>>

DeployUnconfirmed(r) ==
    /\ pc[r] = "deploy"
    /\ \E c \in {onChain, onChain \cup {r}} : onChain' = c
    /\ IF kind[r] = "bank" THEN Goto(r, "approveLock") /\ Rejoin(r)
                           ELSE Goto(r, "store") /\ Leave(r)
    /\ UNCHANGED <<slot, file, kind, answer, snapshot, disturbed, faults>>

(* declare and deploy ended and wait_for_tx returned the deploy receipt. *)
DeployConfirmed(r) ==
    /\ pc[r] = "deploy"
    /\ onChain' = onChain \cup {r}
    /\ IF kind[r] = "bank" THEN Goto(r, "approveLock") /\ Rejoin(r)
                           ELSE Goto(r, "store") /\ Leave(r)
    /\ UNCHANGED <<slot, file, kind, answer, snapshot, disturbed, faults>>

DeployFailsHolding(r) ==
    /\ pc[r] = "deploy"
    /\ \E c \in {onChain, onChain \cup {r}} : onChain' = c
    /\ Goto(r, "error")
    /\ UNCHANGED <<slot, file, kind, answer, snapshot, lockQueue, disturbed, faults>>

(* No class hash, no address, no transaction hash, or no receipt in time: the
   contract may exist all the same. *)
DeployFails(r) ==
    /\ pc[r] = "deploy"
    /\ \E c \in {onChain, onChain \cup {r}} : onChain' = c
    /\ Goto(r, "error")
    /\ Leave(r)
    /\ UNCHANGED <<slot, file, kind, answer, snapshot, disturbed, faults>>

(* sncast_invoke approve, then transfer: Ok whether or not the transaction
   succeeded, and nothing in the server looks at its outcome. *)
Approve(r) ==
    /\ pc[r] = "approve"
    /\ Goto(r, "fundLock")
    /\ Rejoin(r)
    /\ UNCHANGED <<slot, file, kind, answer, snapshot, onChain, disturbed, faults>>

Fund(r) ==
    /\ pc[r] = "fund"
    /\ Goto(r, "store")
    /\ Leave(r)
    /\ UNCHANGED <<slot, file, kind, answer, snapshot, onChain, disturbed, faults>>

(* sncast_invoke is an error only when sncast cannot be started. *)
InvokeFails(r) ==
    /\ pc[r] \in {"approve", "fund"}
    /\ Goto(r, "error")
    /\ Leave(r)
    /\ UNCHANGED <<slot, file, kind, answer, snapshot, onChain, disturbed, faults>>

(* The client goes away: the handler is dropped at its await, also between
   storing the deployment and saving it.  fs::write is not an await. *)
ClientDisconnect(r) ==
    /\ pc[r] \notin Replies \cup {"idle", "open", "write"}
    /\ onChain' \in {onChain, IF pc[r] = "deploy" THEN onChain \cup {r} ELSE onChain}
    /\ disturbed' = (disturbed \/ pc[r] \in Reading)
    /\ Goto(r, "cancelled")
    /\ Leave(r)
    /\ UNCHANGED <<slot, file, kind, answer, snapshot, faults>>

-----------------------------------------------------------------------------
(* Store the deployment, then save_deployments. *)
Store(r) ==
    /\ pc[r] = "store"
    /\ Writable(kind[r])
    /\ slot' = [slot EXCEPT ![kind[r]] = r]
    /\ Goto(r, "readCoinflip")
    /\ disturbed' = (disturbed \/ \E q \in Requests : pc[q] \in Saving)
    /\ UNCHANGED <<file, kind, answer, snapshot, lockQueue, onChain, faults>>

ReadCoinflip(r) ==
    /\ pc[r] = "readCoinflip"
    /\ Readable("coinflip")
    /\ snapshot' = [snapshot EXCEPT ![r].coinflip = slot.coinflip]
    /\ Goto(r, "readBank")
    /\ UNCHANGED <<slot, file, kind, answer, lockQueue, onChain, disturbed, faults>>

ReadBankSkipped(r) ==
    /\ pc[r] = "readBank"
    /\ Readable("bank")
    /\ Goto(r, "open")
    /\ UNCHANGED <<slot, file, kind, answer, snapshot, lockQueue, onChain, disturbed, faults>>

ReadBank(r) ==
    /\ pc[r] = "readBank"
    /\ Readable("bank")
    /\ snapshot' = [snapshot EXCEPT ![r].bank = slot.bank]
    /\ Goto(r, "open")
    /\ UNCHANGED <<slot, file, kind, answer, lockQueue, onChain, disturbed, faults>>

(* fs::write truncates the file ... *)
Open(r) ==
    /\ pc[r] = "open"
    /\ file' = Torn
    /\ Goto(r, "write")
    /\ UNCHANGED <<slot, kind, answer, snapshot, lockQueue, onChain, disturbed, faults>>

(* ... and writes from offset 0: over a longer content that another save wrote
   meanwhile it leaves that content's tail. *)
Size(d) == Cardinality({k \in Kinds : d[k] # None})

Write(r) ==
    /\ pc[r] = "write"
    /\ file' = IF file # Torn /\ Size(snapshot[r]) < Size(file) THEN Torn ELSE snapshot[r]
    /\ Goto(r, "done")
    /\ answer' = [answer EXCEPT ![r] = r]
    /\ UNCHANGED <<slot, kind, snapshot, lockQueue, onChain, disturbed, faults>>

(* The directory or the file cannot be written: ignored. *)
WriteFails(r) ==
    /\ DiskFails
    /\ pc[r] \in {"open", "write"}
    /\ disturbed' = TRUE
    /\ Goto(r, "done")
    /\ answer' = [answer EXCEPT ![r] = r]
    /\ UNCHANGED <<slot, file, kind, snapshot, lockQueue, onChain, faults>>

LoadUnparsed == file

(* load_deployments: a file that is missing or does not parse is the default. *)
Load == IF file = Torn THEN Nothing ELSE file

Crash ==
    /\ crashes < MaxCrashes
    /\ crashes' = crashes + 1
    /\ slot' = Load
    /\ onChain' \in {onChain, onChain \cup {r \in Requests : pc[r] = "deploy"}}
    /\ pc' = [r \in Requests |-> IF pc[r] \in Replies \cup {"idle"} THEN pc[r]
                                 ELSE "cancelled"]
    /\ lockQueue' = <<>>
    /\ UNCHANGED <<file, kind, answer, snapshot, disturbed, stalled>>

(* A call to the node or to sncast never returns: neither reqwest's client nor
   output().await has a time-out. *)
Stall(r) ==
    /\ Cardinality(stalled) < MaxStalls
    /\ pc[r] \in Holding \cup {"status"}
    /\ stalled' = stalled \cup {r}
    /\ UNCHANGED <<slot, file, pc, kind, answer, snapshot, lockQueue, onChain, disturbed, crashes>>

-----------------------------------------------------------------------------
Handler(r) ==
    /\ r \notin stalled
    /\ \/ ReturnExisting(r) \/ StartDeploy(r) \/ BankStatus(r) \/ BankBalance(r)
       \/ AcquireLock(r) \/ DeployConfirmed(r) \/ DeployFails(r)
       \/ Approve(r) \/ Fund(r) \/ InvokeFails(r)
       \/ Store(r) \/ ReadCoinflip(r) \/ ReadBank(r)
       \/ Open(r) \/ Write(r) \/ WriteFails(r)

Next ==
    \/ \E r \in Requests, e \in Endpoints : Request(r, e)
    \/ \E r \in Requests : Handler(r) \/ ClientDisconnect(r) \/ Stall(r)
    \/ Crash

Spec == Init /\ [][Next]_vars

(* The runtime polls a handler whose call has returned or whose lock is free.
   A call that never returns is a Stall. *)
FairSpec == Spec /\ \A r \in Requests : WF_vars(Handler(r))

-----------------------------------------------------------------------------
(* Properties. *)

(* The shared state of the deploy endpoints keeps its type (state.rs). *)
TypeOK ==
    /\ slot \in Deployed
    /\ file \in Deployed \cup {Torn}
    /\ pc \in [Requests -> {"idle", "read", "status", "store"} \cup Waiting \cup Holding
                            \cup Saving \cup Replies]
    /\ kind \in [Requests -> Endpoints]
    /\ answer \in [Requests -> Requests \cup {None}]
    /\ snapshot \in [Requests -> Deployed]
    /\ lockQueue \in Seq(Requests)
    /\ onChain \subseteq Requests
    /\ disturbed \in BOOLEAN
    /\ crashes \in 0..MaxCrashes
    /\ stalled \subseteq Requests

(* What the server stores, saves, reads back after a crash or returns to a
   client is a contract of that kind that exists on the chain. *)
StoredOnChain ==
    /\ \A d \in {slot, Load} : \A k \in Kinds :
           d[k] # None => d[k] \in onChain /\ kind[d[k]] = k
    /\ \A r \in Requests : answer[r] # None => answer[r] \in onChain

(* While a declare, deploy, approve or transfer of the master account runs, its
   request heads the queue of sncast_lock. *)
LockDiscipline ==
    /\ \A r \in Requests : pc[r] \in Holding => lockQueue # <<>> /\ Head(lockQueue) = r
    /\ \A i \in 1..Len(lockQueue) : pc[lockQueue[i]] \in Waiting \cup Holding

(* Saves that neither overlap nor are cut off persist everything: with nothing in
   progress, a restart finds the deployments the server has in memory, whatever crashes
   and failed requests there were before (save_deployments, load_deployments). *)
SequentialSavesPersist ==
    ~disturbed /\ (\A r \in Requests : pc[r] \notin Saving) => Load = slot

(* A request waits for ever only for a call that never returns: its own, that of
   the holder of sncast_lock, or that of a bank_status which keeps the bank's
   read lock and with it every writer, every reader behind that writer and a
   save that holds the other lock.  No failing step and no order of the three
   locks does it otherwise. *)
Answered ==
    \A r \in Requests :
        pc[r] # "idle" ~>
            \/ pc[r] \in Replies
            \/ r \in stalled
            \/ pc[r] \in Waiting /\ Head(lockQueue) \in stalled
            \/ /\ pc[r] \in Reading \cup {"read", "store"}
               /\ \E q \in stalled : pc[q] = "status"

(* "Declare + deploy the CoinFlip contract (one-time, idempotent)"
   (routes.rs:65): two requests for the same kind return the same contract. *)
Idempotent ==
    \A q, r \in Requests :
        /\ kind[q] = kind[r]
        /\ kind[r] \in Kinds
        /\ answer[q] # None
        /\ answer[r] # None
        => answer[q] = answer[r]
=============================================================================
