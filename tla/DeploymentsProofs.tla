------------------------- MODULE DeploymentsProofs -------------------------
(***************************************************************************)
(* Proofs about Deployments for every number of requests and crashes.       *)
(***************************************************************************)
EXTENDS Deployments, FifoLockProofs, TLAPS

Stages == {"idle", "read", "status", "store"} \cup Waiting \cup Holding \cup Saving \cup Replies

(* The stages of a request that deploys. *)
Deploying == {"store"} \cup Waiting \cup Holding \cup Saving

(* The parts of TypeOK that are proved separately. *)
PcType ==
    /\ pc \in [Requests -> Stages] /\ kind \in [Requests -> Endpoints]
    /\ \A r \in Requests : pc[r] \in Deploying => kind[r] \in Kinds
DeployedType ==
    /\ slot \in Deployed
    /\ file \in Deployed \cup {Torn}
    /\ snapshot \in [Requests -> Deployed]
    /\ answer \in [Requests -> Requests \cup {None}]

(* A handler goes on to another stage; the others stay where they are. *)
LEMMA GotoEffect ==
    ASSUME pc \in [Requests -> Stages], NEW r \in Requests, NEW stage \in Stages, Goto(r, stage)
    PROVE  /\ pc' \in [Requests -> Stages] /\ pc'[r] = stage
           /\ \A q \in Requests : q # r => pc'[q] = pc[q]
BY DEF Goto

(* The stage and endpoint of every request are legal after every step. *)
LEMMA PcStep == PcType /\ [Next]_vars => PcType'
<1>0. SUFFICES ASSUME PcType, [Next]_vars PROVE PcType'
  OBVIOUS
<1>1. ASSUME NEW r \in Requests, NEW e \in Endpoints, Request(r, e) PROVE PcType'
  BY <1>0, <1>1 DEF Request, PcType, Goto, Stages, Deploying, Endpoints, Waiting, Holding,
     Saving, Reading, Replies
<1>2. ASSUME NEW r \in Requests, ReturnExisting(r) PROVE PcType'
  BY <1>0, <1>2 DEF ReturnExisting, PcType, Goto, Stages, Deploying, Endpoints, Waiting,
     Holding, Saving, Reading, Replies
<1>3. ASSUME NEW r \in Requests, StartDeploy(r) PROVE PcType'
  BY <1>0, <1>3 DEF StartDeploy, PcType, Goto, Stages, Deploying, Endpoints, Waiting, Holding,
     Saving, Reading, Replies
<1>4. ASSUME NEW r \in Requests, BankStatus(r) PROVE PcType'
  BY <1>0, <1>4 DEF BankStatus, PcType, Goto, Stages, Deploying, Endpoints, Waiting, Holding,
     Saving, Reading, Replies
<1>5. ASSUME NEW r \in Requests, BankBalance(r) PROVE PcType'
  BY <1>0, <1>5 DEF BankBalance, PcType, Goto, Stages, Deploying, Endpoints, Waiting, Holding,
     Saving, Reading, Replies
<1>6. ASSUME NEW r \in Requests, AcquireLock(r) PROVE PcType'
  BY <1>0, <1>6 DEF AcquireLock, PcType, Goto, Stages, Deploying, Endpoints, Waiting, Holding,
     Saving, Reading, Replies
<1>7. ASSUME NEW r \in Requests, DeployConfirmed(r) PROVE PcType'
  BY <1>0, <1>7 DEF DeployConfirmed, PcType, Goto, Stages, Deploying, Endpoints, Waiting,
     Holding, Saving, Reading, Replies
<1>8. ASSUME NEW r \in Requests, DeployFails(r) PROVE PcType'
  BY <1>0, <1>8 DEF DeployFails, PcType, Goto, Stages, Deploying, Endpoints, Waiting, Holding,
     Saving, Reading, Replies
<1>9. ASSUME NEW r \in Requests, Approve(r) PROVE PcType'
  BY <1>0, <1>9 DEF Approve, PcType, Goto, Stages, Deploying, Endpoints, Waiting, Holding,
     Saving, Reading, Replies
<1>10. ASSUME NEW r \in Requests, Fund(r) PROVE PcType'
  BY <1>0, <1>10 DEF Fund, PcType, Goto, Stages, Deploying, Endpoints, Waiting, Holding, Saving,
     Reading, Replies
<1>11. ASSUME NEW r \in Requests, InvokeFails(r) PROVE PcType'
  BY <1>0, <1>11 DEF InvokeFails, PcType, Goto, Stages, Deploying, Endpoints, Waiting, Holding,
     Saving, Reading, Replies
<1>12. ASSUME NEW r \in Requests, Store(r) PROVE PcType'
  BY <1>0, <1>12 DEF Store, PcType, Goto, Stages, Deploying, Endpoints, Waiting, Holding,
     Saving, Reading, Replies
<1>13. ASSUME NEW r \in Requests, ReadCoinflip(r) PROVE PcType'
  BY <1>0, <1>13 DEF ReadCoinflip, PcType, Goto, Stages, Deploying, Endpoints, Waiting, Holding,
     Saving, Reading, Replies
<1>14. ASSUME NEW r \in Requests, ReadBank(r) PROVE PcType'
  BY <1>0, <1>14 DEF ReadBank, PcType, Goto, Stages, Deploying, Endpoints, Waiting, Holding,
     Saving, Reading, Replies
<1>15. ASSUME NEW r \in Requests, Open(r) PROVE PcType'
  BY <1>0, <1>15 DEF Open, PcType, Goto, Stages, Deploying, Endpoints, Waiting, Holding, Saving,
     Reading, Replies
<1>16. ASSUME NEW r \in Requests, Write(r) PROVE PcType'
  BY <1>0, <1>16 DEF Write, PcType, Goto, Stages, Deploying, Endpoints, Waiting, Holding,
     Saving, Reading, Replies
<1>17. ASSUME NEW r \in Requests, WriteFails(r) PROVE PcType'
  BY <1>0, <1>17 DEF WriteFails, PcType, Goto, Stages, Deploying, Endpoints, Waiting, Holding,
     Saving, Reading, Replies
<1>18. ASSUME NEW r \in Requests, ClientDisconnect(r) PROVE PcType'
  BY <1>0, <1>18 DEF ClientDisconnect, PcType, Goto, Stages, Deploying, Endpoints, Waiting,
     Holding, Saving, Reading, Replies
<1>19. ASSUME NEW r \in Requests, Stall(r) PROVE PcType'
  BY <1>0, <1>19 DEF Stall, PcType, Goto, Stages, Deploying, Endpoints, Waiting, Holding,
     Saving, Reading, Replies
<1>20. ASSUME Crash PROVE PcType'
  BY <1>0, <1>20 DEF Crash, PcType, Goto, Stages, Deploying, Endpoints, Waiting, Holding,
     Saving, Reading, Replies
<1>21. CASE UNCHANGED vars
  BY <1>0, <1>21 DEF vars, PcType, Goto, Stages, Deploying, Endpoints, Waiting, Holding, Saving,
     Reading, Replies
<1> QED
  BY <1>0, <1>1, <1>2, <1>3, <1>4, <1>5, <1>6, <1>7, <1>8, <1>9, <1>10, <1>11, <1>12, <1>13,
     <1>14, <1>15, <1>16, <1>17, <1>18, <1>19, <1>20, <1>21 DEF Next, Handler

(* What a restart reads is a pair of deployments. *)
LEMMA LoadType == DeployedType => Load \in Deployed
BY DEF DeployedType, Load, Deployed, Nothing, Torn

(* What is stored, saved and answered are deployments. *)
LEMMA DeployedStep == PcType /\ DeployedType /\ [Next]_vars => DeployedType'
<1>0. SUFFICES ASSUME PcType, DeployedType, [Next]_vars PROVE DeployedType'
  OBVIOUS
<1>1. ASSUME NEW r \in Requests, ReturnExisting(r) PROVE DeployedType'
  BY <1>0, <1>1 DEF ReturnExisting, DeployedType, Deployed
<1>2. ASSUME NEW r \in Requests, Store(r) PROVE DeployedType'
  BY <1>0, <1>2 DEF Store, PcType, Deploying, DeployedType, Deployed
<1>3. ASSUME NEW r \in Requests, ReadCoinflip(r) \/ ReadBank(r) PROVE DeployedType'
  BY <1>0, <1>3 DEF ReadCoinflip, ReadBank, DeployedType, Deployed, Kinds
<1>4. ASSUME NEW r \in Requests, Open(r) \/ Write(r) \/ WriteFails(r) PROVE DeployedType'
  BY <1>0, <1>4 DEF Open, Write, WriteFails, DeployedType
<1>5. ASSUME Crash PROVE DeployedType'
  BY <1>0, <1>5, LoadType DEF Crash, DeployedType
<1>6. CASE UNCHANGED <<slot, file, snapshot, answer>>
  BY <1>0, <1>6 DEF DeployedType
<1>7. ASSUME NEW r \in Requests, NEW e \in Endpoints,
             \/ Request(r, e) \/ StartDeploy(r) \/ BankStatus(r) \/ Stall(r) \/ AcquireLock(r)
             \/ DeployConfirmed(r) \/ DeployFails(r) \/ Approve(r) \/ Fund(r) \/ InvokeFails(r) \/ ClientDisconnect(r) \/ UNCHANGED vars
      PROVE  UNCHANGED <<slot, file, snapshot, answer>>
  BY <1>7 DEF Request, StartDeploy, BankStatus, Stall, AcquireLock, DeployConfirmed,
              DeployFails, Approve, Fund, InvokeFails, ClientDisconnect, vars
<1>8. "bank" \in Endpoints
  BY DEF Endpoints, Kinds
<1>9. ASSUME NEW r \in Requests, BankBalance(r) PROVE DeployedType'
  BY <1>0, <1>9 DEF BankBalance, DeployedType, Deployed, Kinds
<1> QED
  BY <1>0, <1>1, <1>2, <1>3, <1>4, <1>5, <1>6, <1>7, <1>8, <1>9 DEF Next, Handler, vars

(* The queue of sncast_lock holds exactly the requests that wait for it or hold
   it, each once, and a holder is its head. *)
LockInv ==
    /\ lockQueue \in Seq(Requests) /\ Unrepeated(lockQueue)
    /\ \A r \in Requests : Queued(lockQueue, r) <=> pc[r] \in Waiting \cup Holding
    /\ \A r \in Requests : pc[r] \in Holding => HoldsLock(lockQueue, r)

(* There is one holder. *)
LEMMA OneHolder ==
    ASSUME LockInv, NEW r \in Requests, NEW q \in Requests, pc[r] \in Holding, pc[q] \in Holding
    PROVE  q = r
BY DEF LockInv, HoldsLock

(* A request enters the queue, gets the lock, leaves, or leaves and asks again. *)
LEMMA EnterStep ==
    ASSUME LockInv, NEW r \in Requests, Enter(r), pc[r] \notin Waiting \cup Holding,
           pc'[r] \in Waiting, \A q \in Requests : q # r => pc'[q] = pc[q]
    PROVE  LockInv'
<1>1. ~Queued(lockQueue, r) /\ lockQueue' = Append(lockQueue, r)
  BY DEF LockInv, Enter
<1>2. /\ lockQueue' \in Seq(Requests) /\ Unrepeated(lockQueue')
      /\ \A x : Queued(lockQueue', x) <=> Queued(lockQueue, x) \/ x = r
      /\ \A x : HoldsLock(lockQueue, x) => HoldsLock(lockQueue', x)
  BY <1>1, EnterQueue DEF LockInv
<1>3. pc'[r] \notin Holding
  BY DEF Waiting, Holding
<1> QED
  BY <1>2, <1>3 DEF LockInv

(* A request that leaves the queue neither waits nor holds afterwards. *)
LEMMA LeaveStep ==
    ASSUME LockInv, NEW r \in Requests, Leave(r),
           pc'[r] \notin Waiting \cup Holding, \A q \in Requests : q # r => pc'[q] = pc[q]
    PROVE  LockInv'
<1>1. /\ lockQueue' \in Seq(Requests) /\ Unrepeated(lockQueue')
      /\ \A x : Queued(lockQueue', x) <=> Queued(lockQueue, x) /\ x # r
      /\ \A x : HoldsLock(lockQueue, x) /\ x # r => HoldsLock(lockQueue', x)
  BY LeaveType, LeaveQueue DEF LockInv, Leave
<1> QED
  BY <1>1 DEF LockInv

(* A holder that queues up again waits for its second turn. *)
LEMMA RejoinStep ==
    ASSUME LockInv, NEW r \in Requests, Rejoin(r), pc[r] \in Holding,
           pc'[r] \in Waiting, \A q \in Requests : q # r => pc'[q] = pc[q]
    PROVE  LockInv'
<1> DEFINE left == Leaving(lockQueue, r)
<1>1. /\ left \in Seq(Requests) /\ Unrepeated(left)
      /\ \A x : Queued(left, x) <=> Queued(lockQueue, x) /\ x # r
  BY LeaveType, LeaveQueue DEF LockInv
<1>2. lockQueue' = Append(left, r)
  BY DEF Rejoin
<1> HIDE DEF left
<1>3. /\ lockQueue' \in Seq(Requests) /\ Unrepeated(lockQueue')
      /\ \A x : Queued(lockQueue', x) <=> Queued(left, x) \/ x = r
  BY <1>1, <1>2, EnterQueue
<1>4. \A q \in Requests : pc'[q] \notin Holding
  BY OneHolder DEF Waiting, Holding
<1> QED
  BY <1>1, <1>3, <1>4 DEF LockInv

(* The head of the queue, and only it, begins to hold the lock. *)
LEMMA AcquireStep ==
    ASSUME LockInv, NEW r \in Requests, UNCHANGED lockQueue, pc[r] \in Waiting,
           Head(lockQueue) = r, pc'[r] \in Holding, \A q \in Requests : q # r => pc'[q] = pc[q]
    PROVE  LockInv'
<1>1. Queued(lockQueue, r)
  BY DEF LockInv
<1>2. HoldsLock(lockQueue, r)
  BY <1>1 DEF LockInv, Queued, HoldsLock
<1> QED
  BY <1>1, <1>2 DEF LockInv

(* A step that changes nobody's claim leaves the lock alone. *)
LEMMA OutsideStep ==
    ASSUME LockInv, UNCHANGED lockQueue,
           \A q \in Requests : /\ pc'[q] \in Waiting <=> pc[q] \in Waiting
                               /\ pc'[q] \in Holding <=> pc[q] \in Holding
    PROVE  LockInv'
BY DEF LockInv

(* Every step keeps the queue in agreement with the stages. *)
LEMMA LockStep == PcType /\ LockInv /\ [Next]_vars => LockInv'
<1>0. SUFFICES ASSUME PcType, LockInv, [Next]_vars PROVE LockInv'
  OBVIOUS
<1>1. ASSUME NEW r \in Requests, ReturnExisting(r) PROVE LockInv'
  <2>1. pc'[r] = "done" /\ \A q \in Requests : q # r => pc'[q] = pc[q]
    BY <1>0, <1>1 DEF ReturnExisting, PcType, Goto
  <2> QED
    BY <1>0, <1>1, <2>1, OutsideStep DEF ReturnExisting, Waiting, Holding
<1>2. ASSUME NEW r \in Requests, StartDeploy(r) PROVE LockInv'
  <2>1. pc'[r] = "lock" /\ \A q \in Requests : q # r => pc'[q] = pc[q]
    BY <1>0, <1>2 DEF StartDeploy, PcType, Goto
  <2> QED
    BY <1>0, <1>2, <2>1, EnterStep DEF StartDeploy, Waiting, Holding
<1>3. ASSUME NEW r \in Requests, AcquireLock(r) PROVE LockInv'
  <2>1. pc'[r] \in Holding /\ \A q \in Requests : q # r => pc'[q] = pc[q]
    BY <1>0, <1>3 DEF AcquireLock, PcType, Goto, Waiting, Holding
  <2> QED
    BY <1>0, <1>3, <2>1, AcquireStep DEF AcquireLock
<1>4. ASSUME NEW r \in Requests, DeployConfirmed(r) PROVE LockInv'
  <2>1. CASE kind[r] = "bank"
    <3>1. pc'[r] = "approveLock" /\ \A q \in Requests : q # r => pc'[q] = pc[q]
      BY <1>0, <1>4, <2>1 DEF DeployConfirmed, PcType, Goto
    <3> QED
      BY <1>0, <1>4, <2>1, <3>1, RejoinStep DEF DeployConfirmed, Waiting, Holding
  <2>2. CASE kind[r] # "bank"
    <3>1. pc'[r] = "store" /\ \A q \in Requests : q # r => pc'[q] = pc[q]
      BY <1>0, <1>4, <2>2 DEF DeployConfirmed, PcType, Goto
    <3> QED
      BY <1>0, <1>4, <2>2, <3>1, LeaveStep DEF DeployConfirmed, Waiting, Holding
  <2> QED
    BY <2>1, <2>2
<1>5. ASSUME NEW r \in Requests, DeployFails(r) PROVE LockInv'
  <2>1. pc'[r] = "error" /\ \A q \in Requests : q # r => pc'[q] = pc[q]
    BY <1>0, <1>5 DEF DeployFails, PcType, Goto
  <2> QED
    BY <1>0, <1>5, <2>1, LeaveStep DEF DeployFails, Waiting, Holding
<1>6. ASSUME NEW r \in Requests, Approve(r) PROVE LockInv'
  <2>1. pc'[r] = "fundLock" /\ \A q \in Requests : q # r => pc'[q] = pc[q]
    BY <1>0, <1>6 DEF Approve, PcType, Goto
  <2> QED
    BY <1>0, <1>6, <2>1, RejoinStep DEF Approve, Waiting, Holding
<1>7. ASSUME NEW r \in Requests, Fund(r) PROVE LockInv'
  <2>1. pc'[r] = "store" /\ \A q \in Requests : q # r => pc'[q] = pc[q]
    BY <1>0, <1>7 DEF Fund, PcType, Goto
  <2> QED
    BY <1>0, <1>7, <2>1, LeaveStep DEF Fund, Waiting, Holding
<1>8. ASSUME NEW r \in Requests, InvokeFails(r) PROVE LockInv'
  <2>1. pc'[r] = "error" /\ \A q \in Requests : q # r => pc'[q] = pc[q]
    BY <1>0, <1>8 DEF InvokeFails, PcType, Goto
  <2> QED
    BY <1>0, <1>8, <2>1, LeaveStep DEF InvokeFails, Waiting, Holding
<1>9. ASSUME NEW r \in Requests, Store(r) PROVE LockInv'
  <2>1. pc'[r] = "readCoinflip" /\ \A q \in Requests : q # r => pc'[q] = pc[q]
    BY <1>0, <1>9 DEF Store, PcType, Goto
  <2> QED
    BY <1>0, <1>9, <2>1, OutsideStep DEF Store, Waiting, Holding
<1>10. ASSUME NEW r \in Requests, ReadCoinflip(r) PROVE LockInv'
  <2>1. pc'[r] = "readBank" /\ \A q \in Requests : q # r => pc'[q] = pc[q]
    BY <1>0, <1>10 DEF ReadCoinflip, PcType, Goto
  <2> QED
    BY <1>0, <1>10, <2>1, OutsideStep DEF ReadCoinflip, Waiting, Holding
<1>11. ASSUME NEW r \in Requests, ReadBank(r) PROVE LockInv'
  <2>1. pc'[r] = "open" /\ \A q \in Requests : q # r => pc'[q] = pc[q]
    BY <1>0, <1>11 DEF ReadBank, PcType, Goto
  <2> QED
    BY <1>0, <1>11, <2>1, OutsideStep DEF ReadBank, Waiting, Holding
<1>12. ASSUME NEW r \in Requests, Open(r) PROVE LockInv'
  <2>1. pc'[r] = "write" /\ \A q \in Requests : q # r => pc'[q] = pc[q]
    BY <1>0, <1>12 DEF Open, PcType, Goto
  <2> QED
    BY <1>0, <1>12, <2>1, OutsideStep DEF Open, Waiting, Holding
<1>13. ASSUME NEW r \in Requests, Write(r) PROVE LockInv'
  <2>1. pc'[r] = "done" /\ \A q \in Requests : q # r => pc'[q] = pc[q]
    BY <1>0, <1>13 DEF Write, PcType, Goto
  <2> QED
    BY <1>0, <1>13, <2>1, OutsideStep DEF Write, Waiting, Holding
<1>14. ASSUME NEW r \in Requests, WriteFails(r) PROVE LockInv'
  <2>1. pc'[r] = "done" /\ \A q \in Requests : q # r => pc'[q] = pc[q]
    BY <1>0, <1>14 DEF WriteFails, PcType, Goto
  <2> QED
    BY <1>0, <1>14, <2>1, OutsideStep DEF WriteFails, Waiting, Holding
<1>15. ASSUME NEW r \in Requests, ClientDisconnect(r) PROVE LockInv'
  <2>1. pc'[r] = "cancelled" /\ \A q \in Requests : q # r => pc'[q] = pc[q]
    BY <1>0, <1>15 DEF ClientDisconnect, PcType, Goto
  <2> QED
    BY <1>0, <1>15, <2>1, LeaveStep DEF ClientDisconnect, Waiting, Holding
<1>18. ASSUME NEW r \in Requests, NEW e \in Endpoints, Request(r, e) PROVE LockInv'
  <2>1. pc[r] = "idle" /\ pc'[r] = "read" /\ \A q \in Requests : q # r => pc'[q] = pc[q]
    BY <1>0, <1>18 DEF Request, PcType, Goto
  <2> QED
    BY <1>0, <1>18, <2>1, OutsideStep DEF Request, Waiting, Holding
<1>19. ASSUME NEW r \in Requests, BankStatus(r) PROVE LockInv'
  <2>1. /\ pc[r] = "read" /\ pc'[r] \in {"done", "status"}
        /\ \A q \in Requests : q # r => pc'[q] = pc[q]
    BY <1>0, <1>19 DEF BankStatus, PcType, Goto
  <2> QED
    BY <1>0, <1>19, <2>1, OutsideStep DEF BankStatus, Waiting, Holding
<1>20. ASSUME NEW r \in Requests, BankBalance(r) PROVE LockInv'
  <2>1. pc[r] = "status" /\ pc'[r] = "done" /\ \A q \in Requests : q # r => pc'[q] = pc[q]
    BY <1>0, <1>20 DEF BankBalance, PcType, Goto
  <2> QED
    BY <1>0, <1>20, <2>1, OutsideStep DEF BankBalance, Waiting, Holding
<1>21. ASSUME NEW r \in Requests, Stall(r) PROVE LockInv'
  BY <1>0, <1>21, OutsideStep DEF Stall
<1>16. ASSUME Crash PROVE LockInv'
  <2>1. lockQueue' = <<>> /\ \A q \in Requests : pc'[q] \notin Waiting \cup Holding
    BY <1>0, <1>16 DEF Crash, PcType, Waiting, Holding, Replies
  <2>2. lockQueue' \in Seq(Requests) /\ Unrepeated(lockQueue') /\ \A x : ~Queued(lockQueue', x)
    BY <2>1 DEF Unrepeated, Queued
  <2> QED
    BY <2>1, <2>2 DEF LockInv
<1>17. CASE UNCHANGED vars
  BY <1>0, <1>17, OutsideStep DEF vars
<1> QED
  BY <1>0, <1>1, <1>2, <1>3, <1>4, <1>5, <1>6, <1>7, <1>8, <1>9, <1>10, <1>11, <1>12, <1>13,
     <1>14, <1>15, <1>16, <1>17, <1>18, <1>19, <1>20, <1>21 DEF Next, Handler

-----------------------------------------------------------------------------
(* What is stored exists. *)

(* A request at one of these stages has its deploy receipt. *)
HasReceipt == {"store", "approveLock", "approve", "fundLock", "fund"} \cup Saving

(* Deployments d, on a chain with these contracts of these kinds. *)
Good(d, contracts, kinds) ==
    \A k \in Kinds : d[k] # None => d[k] \in contracts /\ kinds[d[k]] = k

ReceiptInv ==
    /\ onChain \subseteq Requests
    /\ \A r \in onChain : pc[r] # "idle"
    /\ \A r \in Requests : pc[r] \in HasReceipt => r \in onChain

StoredInv ==
    /\ Good(slot, onChain, kind) /\ Good(Load, onChain, kind)
    /\ \A r \in Requests : Good(snapshot[r], onChain, kind)
    /\ \A r \in Requests : answer[r] # None => answer[r] \in onChain

(* A contract never disappears and never changes its kind: the endpoint of a
   request is set when it starts, before it deploys. *)
LEMMA ChainStep ==
    ASSUME PcType, ReceiptInv, [Next]_vars
    PROVE  onChain \subseteq onChain' /\ \A c \in onChain : kind'[c] = kind[c]
<1>1. ASSUME NEW r \in Requests, NEW k \in Endpoints, Request(r, k)
      PROVE  onChain \subseteq onChain' /\ \A c \in onChain : kind'[c] = kind[c]
  <2>1. UNCHANGED onChain /\ kind' = [kind EXCEPT ![r] = k] /\ r \notin onChain
    BY <1>1 DEF Request, ReceiptInv
  <2> QED
    BY <2>1 DEF PcType, ReceiptInv
<1>2. ASSUME NEW r \in Requests, Handler(r) \/ ClientDisconnect(r) \/ Stall(r)
      PROVE  onChain \subseteq onChain' /\ UNCHANGED kind
  BY <1>2 DEF Handler, ClientDisconnect, Stall, ReturnExisting, StartDeploy, BankStatus,
              BankBalance, AcquireLock, DeployConfirmed, DeployFails, Approve, Fund, InvokeFails,
              Store, ReadCoinflip, ReadBank, Open, Write, WriteFails
<1>3. Crash => onChain \subseteq onChain' /\ UNCHANGED kind
  BY DEF Crash
<1>4. UNCHANGED vars => UNCHANGED <<onChain, kind>>
  BY DEF vars
<1> QED
  BY <1>1, <1>2, <1>3, <1>4 DEF Next

(* Every step keeps that a confirmed deployment is on the chain. *)
LEMMA ReceiptStep == PcType /\ ReceiptInv /\ [Next]_vars => ReceiptInv'
<1>0. SUFFICES ASSUME PcType, ReceiptInv, [Next]_vars PROVE ReceiptInv'
  OBVIOUS
<1>1. ASSUME NEW r \in Requests, NEW e \in Endpoints, Request(r, e) PROVE ReceiptInv'
  BY <1>0, <1>1 DEF Request, PcType, ReceiptInv, Goto, HasReceipt, Waiting, Holding, Saving,
     Reading, Replies
<1>2. ASSUME NEW r \in Requests, ReturnExisting(r) PROVE ReceiptInv'
  BY <1>0, <1>2 DEF ReturnExisting, PcType, ReceiptInv, Goto, HasReceipt, Waiting, Holding,
     Saving, Reading, Replies
<1>3. ASSUME NEW r \in Requests, StartDeploy(r) PROVE ReceiptInv'
  BY <1>0, <1>3 DEF StartDeploy, PcType, ReceiptInv, Goto, HasReceipt, Waiting, Holding, Saving,
     Reading, Replies
<1>4. ASSUME NEW r \in Requests, BankStatus(r) PROVE ReceiptInv'
  BY <1>0, <1>4 DEF BankStatus, PcType, ReceiptInv, Goto, HasReceipt, Waiting, Holding, Saving,
     Reading, Replies
<1>5. ASSUME NEW r \in Requests, BankBalance(r) PROVE ReceiptInv'
  BY <1>0, <1>5 DEF BankBalance, PcType, ReceiptInv, Goto, HasReceipt, Waiting, Holding, Saving,
     Reading, Replies
<1>6. ASSUME NEW r \in Requests, AcquireLock(r) PROVE ReceiptInv'
  BY <1>0, <1>6 DEF AcquireLock, PcType, ReceiptInv, Goto, HasReceipt, Waiting, Holding, Saving,
     Reading, Replies
<1>7. ASSUME NEW r \in Requests, DeployConfirmed(r) PROVE ReceiptInv'
  BY <1>0, <1>7 DEF DeployConfirmed, PcType, ReceiptInv, Goto, HasReceipt, Waiting, Holding,
     Saving, Reading, Replies
<1>8. ASSUME NEW r \in Requests, DeployFails(r) PROVE ReceiptInv'
  BY <1>0, <1>8 DEF DeployFails, PcType, ReceiptInv, Goto, HasReceipt, Waiting, Holding, Saving,
     Reading, Replies
<1>9. ASSUME NEW r \in Requests, Approve(r) PROVE ReceiptInv'
  BY <1>0, <1>9 DEF Approve, PcType, ReceiptInv, Goto, HasReceipt, Waiting, Holding, Saving,
     Reading, Replies
<1>10. ASSUME NEW r \in Requests, Fund(r) PROVE ReceiptInv'
  BY <1>0, <1>10 DEF Fund, PcType, ReceiptInv, Goto, HasReceipt, Waiting, Holding, Saving,
     Reading, Replies
<1>11. ASSUME NEW r \in Requests, InvokeFails(r) PROVE ReceiptInv'
  BY <1>0, <1>11 DEF InvokeFails, PcType, ReceiptInv, Goto, HasReceipt, Waiting, Holding,
     Saving, Reading, Replies
<1>12. ASSUME NEW r \in Requests, Store(r) PROVE ReceiptInv'
  BY <1>0, <1>12 DEF Store, PcType, ReceiptInv, Goto, HasReceipt, Waiting, Holding, Saving,
     Reading, Replies
<1>13. ASSUME NEW r \in Requests, ReadCoinflip(r) PROVE ReceiptInv'
  BY <1>0, <1>13 DEF ReadCoinflip, PcType, ReceiptInv, Goto, HasReceipt, Waiting, Holding,
     Saving, Reading, Replies
<1>14. ASSUME NEW r \in Requests, ReadBank(r) PROVE ReceiptInv'
  BY <1>0, <1>14 DEF ReadBank, PcType, ReceiptInv, Goto, HasReceipt, Waiting, Holding, Saving,
     Reading, Replies
<1>15. ASSUME NEW r \in Requests, Open(r) PROVE ReceiptInv'
  BY <1>0, <1>15 DEF Open, PcType, ReceiptInv, Goto, HasReceipt, Waiting, Holding, Saving,
     Reading, Replies
<1>16. ASSUME NEW r \in Requests, Write(r) PROVE ReceiptInv'
  BY <1>0, <1>16 DEF Write, PcType, ReceiptInv, Goto, HasReceipt, Waiting, Holding, Saving,
     Reading, Replies
<1>17. ASSUME NEW r \in Requests, WriteFails(r) PROVE ReceiptInv'
  BY <1>0, <1>17 DEF WriteFails, PcType, ReceiptInv, Goto, HasReceipt, Waiting, Holding, Saving,
     Reading, Replies
<1>18. ASSUME NEW r \in Requests, ClientDisconnect(r) PROVE ReceiptInv'
  BY <1>0, <1>18 DEF ClientDisconnect, PcType, ReceiptInv, Goto, HasReceipt, Waiting, Holding,
     Saving, Reading, Replies
<1>19. ASSUME NEW r \in Requests, Stall(r) PROVE ReceiptInv'
  BY <1>0, <1>19 DEF Stall, PcType, ReceiptInv, Goto, HasReceipt, Waiting, Holding, Saving,
     Reading, Replies
<1>20. ASSUME Crash PROVE ReceiptInv'
  BY <1>0, <1>20 DEF Crash, PcType, ReceiptInv, Goto, HasReceipt, Waiting, Holding, Saving,
     Reading, Replies
<1>21. CASE UNCHANGED vars
  BY <1>0, <1>21 DEF vars, PcType, ReceiptInv, Goto, HasReceipt, Waiting, Holding, Saving,
     Reading, Replies
<1> QED
  BY <1>0, <1>1, <1>2, <1>3, <1>4, <1>5, <1>6, <1>7, <1>8, <1>9, <1>10, <1>11, <1>12, <1>13,
     <1>14, <1>15, <1>16, <1>17, <1>18, <1>19, <1>20, <1>21 DEF Next, Handler

(* Good deployments stay good. *)
LEMMA GoodKept ==
    ASSUME PcType, ReceiptInv, [Next]_vars, NEW d, Good(d, onChain, kind)
    PROVE  Good(d, onChain', kind')
BY ChainStep DEF Good

(* Every step keeps that a stored address was deployed. *)
LEMMA StoredStep ==
    ASSUME PcType, DeployedType, ReceiptInv, StoredInv, [Next]_vars
    PROVE  StoredInv'
<1>0. /\ Good(slot, onChain', kind') /\ Good(Load, onChain', kind')
      /\ \A r \in Requests : Good(snapshot[r], onChain', kind')
      /\ \A r \in Requests : answer[r] # None => answer[r] \in onChain'
      /\ Good(Nothing, onChain', kind')
  <2>1. Good(Nothing, onChain', kind')
    BY DEF Good, Nothing
  <2> QED
    BY <2>1, GoodKept, ChainStep DEF StoredInv
<1>1. Good(slot', onChain', kind')
  <2>1. CASE UNCHANGED slot
    BY <1>0, <2>1
  <2>2. CASE Crash
    BY <1>0, <2>2 DEF Crash
  <2>3. ASSUME NEW r \in Requests, Store(r) PROVE Good(slot', onChain', kind')
    <3>1. /\ slot' = [slot EXCEPT ![kind[r]] = r] /\ r \in onChain' /\ kind'[r] = kind[r]
      BY <2>3 DEF Store, ReceiptInv, HasReceipt, Saving
    <3>2. slot \in [Kinds -> Requests \cup {None}] /\ kind[r] \in Kinds
      BY <2>3 DEF Store, PcType, Deploying, DeployedType, Deployed
    <3> QED
      BY <1>0, <3>1, <3>2 DEF Good
  <2>4. UNCHANGED slot \/ Crash \/ \E r \in Requests : Store(r)
    BY DEF Next, Handler, Request, ReturnExisting, StartDeploy, BankStatus, BankBalance, Stall,
           ClientDisconnect, AcquireLock,
           DeployConfirmed, DeployFails, Approve, Fund, InvokeFails, ReadCoinflip, ReadBank,
           Open, Write, WriteFails, vars
  <2> QED
    BY <2>1, <2>2, <2>3, <2>4
<1>2. Good(Load', onChain', kind')
  <2>1. CASE UNCHANGED file
    BY <1>0, <2>1 DEF Load
  <2>2. ASSUME NEW r \in Requests, Open(r) \/ Write(r) PROVE Good(Load', onChain', kind')
    <3>1. file' = Torn \/ file' = snapshot[r]
      BY <2>2 DEF Open, Write
    <3>2. Load' = Nothing \/ Load' = snapshot[r]
      BY <3>1 DEF Load
    <3> QED
      BY <1>0, <3>2
  <2>3. UNCHANGED file \/ \E r \in Requests : Open(r) \/ Write(r)
    BY DEF Next, Handler, Request, ReturnExisting, StartDeploy, BankStatus, BankBalance, Stall,
           ClientDisconnect, AcquireLock,
           DeployConfirmed, DeployFails, Approve, Fund, InvokeFails, Store, ReadCoinflip, ReadBank,
           WriteFails, Crash, vars
  <2> QED
    BY <2>1, <2>2, <2>3
<1>3. ASSUME NEW q \in Requests PROVE Good(snapshot'[q], onChain', kind')
  <2>1. CASE UNCHANGED snapshot
    BY <1>0, <2>1
  <2>2. ASSUME NEW r \in Requests, ReadCoinflip(r) \/ ReadBank(r)
        PROVE  \A k \in Kinds : snapshot'[q][k] \in {snapshot[q][k], slot[k]}
    BY <2>2 DEF ReadCoinflip, ReadBank, DeployedType, Deployed, Kinds
  <2>3. UNCHANGED snapshot \/ \E r \in Requests : ReadCoinflip(r) \/ ReadBank(r)
    BY DEF Next, Handler, Request, ReturnExisting, StartDeploy, BankStatus, BankBalance, Stall,
           ClientDisconnect, AcquireLock,
           DeployConfirmed, DeployFails, Approve, Fund, InvokeFails, Store, Open, Write,
           WriteFails, Crash, vars
  <2> QED
    BY <1>0, <2>1, <2>2, <2>3 DEF Good
<1>4. ASSUME NEW q \in Requests, answer'[q] # None PROVE answer'[q] \in onChain'
  <2>1. CASE UNCHANGED answer
    BY <1>0, <1>4, <2>1
  <2>2. ASSUME NEW r \in Requests, ReturnExisting(r) PROVE answer'[q] \in onChain'
    BY <1>0, <1>4, <2>2 DEF ReturnExisting, Good, DeployedType
  <2>5. ASSUME NEW r \in Requests, BankBalance(r) PROVE answer'[q] \in onChain'
    <3>1. answer' = [answer EXCEPT ![r] = slot["bank"]]
      BY <2>5 DEF BankBalance
    <3> QED
      BY <1>0, <1>4, <3>1 DEF Good, DeployedType, Kinds
  <2>3. ASSUME NEW r \in Requests, Write(r) \/ WriteFails(r) PROVE answer'[q] \in onChain'
    <3>1. r \in onChain /\ UNCHANGED onChain /\ answer' = [answer EXCEPT ![r] = r]
      BY <2>3 DEF Write, WriteFails, ReceiptInv, HasReceipt, Saving
    <3> QED
      BY <1>0, <1>4, <3>1 DEF DeployedType
  <2>4. \/ UNCHANGED answer
        \/ \E r \in Requests : ReturnExisting(r) \/ BankBalance(r) \/ Write(r) \/ WriteFails(r)
    BY DEF Next, Handler, Request, StartDeploy, BankStatus, Stall, ClientDisconnect, AcquireLock, DeployConfirmed,
           DeployFails, Approve, Fund, InvokeFails, Store, ReadCoinflip, ReadBank, Open, Crash, vars
  <2> QED
    BY <2>1, <2>2, <2>3, <2>4, <2>5
<1> QED
  BY <1>1, <1>2, <1>3, <1>4 DEF StoredInv

-----------------------------------------------------------------------------
(* What is saved is what is stored. *)

(* Without a disturbance one request saves at a time; what it has read so far is
   what the server still has, and the file it writes is empty. *)
SaveInv ==
    ~disturbed =>
        /\ \A q, r \in Requests : pc[q] \in Saving /\ pc[r] \in Saving => q = r
        /\ (\A r \in Requests : pc[r] \notin Saving) => Load = slot
        /\ \A r \in Requests : pc[r] = "readBank" => snapshot[r]["coinflip"] = slot["coinflip"]
        /\ \A r \in Requests : pc[r] \in {"open", "write"} => snapshot[r] = slot
        /\ \A r \in Requests : pc[r] = "write" => file = Torn

(* A step of a request that does not save, and leaves the saved state alone. *)
LEMMA NotSaving ==
    ASSUME SaveInv, UNCHANGED <<slot, file, snapshot, disturbed>>,
           \A q \in Requests : pc'[q] = pc[q] \/ (pc[q] \notin Saving /\ pc'[q] \notin Saving)
    PROVE  SaveInv'
<1>1. \A q \in Requests : /\ pc'[q] \in Saving <=> pc[q] \in Saving
                          /\ pc'[q] \in Saving => pc'[q] = pc[q]
  OBVIOUS
<1>2. Load' = Load
  BY DEF Load
<1> QED
  BY <1>1, <1>2 DEF SaveInv, Saving, Reading

(* Every step keeps the file in agreement with the saves. *)
LEMMA SaveStep ==
    ASSUME PcType, DeployedType, disturbed \in BOOLEAN, SaveInv, [Next]_vars
    PROVE  SaveInv'
<1>1. ASSUME NEW r \in Requests, NEW e \in Endpoints,
             \/ Request(r, e) \/ ReturnExisting(r) \/ StartDeploy(r) \/ BankStatus(r)
             \/ BankBalance(r) \/ AcquireLock(r) \/ DeployConfirmed(r)
             \/ DeployFails(r) \/ Approve(r) \/ Fund(r) \/ InvokeFails(r)
             \/ (ClientDisconnect(r) /\ pc[r] \notin Saving)
      PROVE  SaveInv'
  <2>1. UNCHANGED <<slot, file, snapshot, disturbed>>
    <3>1. ASSUME ClientDisconnect(r), pc[r] \notin Saving
          PROVE  UNCHANGED <<slot, file, snapshot, disturbed>>
      <4>1. pc[r] \notin Reading /\ disturbed' = (disturbed \/ pc[r] \in Reading)
        BY <3>1 DEF ClientDisconnect, Saving
      <4>2. disturbed' = disturbed
        BY <4>1, Zenon
      <4> QED
        BY <3>1, <4>2 DEF ClientDisconnect
    <3> QED
      BY <1>1, <3>1 DEF Request, ReturnExisting, StartDeploy, BankStatus, BankBalance, AcquireLock,
                        DeployConfirmed, DeployFails, Approve, Fund, InvokeFails
  <2>2. \E stage \in Stages : pc[r] \notin Saving /\ stage \notin Saving /\ Goto(r, stage)
    BY <1>1 DEF Request, ReturnExisting, StartDeploy, BankStatus, BankBalance, AcquireLock,
                DeployConfirmed, DeployFails, Approve, Fund, InvokeFails, ClientDisconnect, Stages,
                Saving, Reading, Waiting, Holding, Replies
  <2>3. \A q \in Requests : pc'[q] = pc[q] \/ (pc[q] \notin Saving /\ pc'[q] \notin Saving)
    BY <2>2, GotoEffect DEF PcType
  <2> QED
    BY <2>1, <2>3, NotSaving
<1>2. ASSUME NEW r \in Requests, Store(r) PROVE SaveInv'
  <2>1. SUFFICES ASSUME ~disturbed' PROVE SaveInv'
    BY DEF SaveInv
  <2>2. \A q \in Requests : pc[q] \notin Saving
    BY <1>2, <2>1 DEF Store
  <2>3. pc'[r] = "readCoinflip" /\ \A q \in Requests : q # r => pc'[q] = pc[q]
    BY <1>2 DEF Store, Goto, PcType
  <2> QED
    BY <2>2, <2>3 DEF SaveInv, Saving, Reading
<1>3. ASSUME NEW r \in Requests, ReadCoinflip(r) PROVE SaveInv'
  <2>1. SUFFICES ASSUME ~disturbed PROVE SaveInv'
    BY <1>3 DEF SaveInv, ReadCoinflip
  <2>2. /\ pc'[r] = "readBank" /\ pc[r] = "readCoinflip"
        /\ \A q \in Requests : q # r => pc'[q] = pc[q]
    BY <1>3 DEF ReadCoinflip, Goto, PcType
  <2>3. \A q \in Requests : q # r => pc[q] \notin Saving
    BY <2>1, <2>2 DEF SaveInv, Saving, Reading
  <2>4. snapshot'[r]["coinflip"] = slot["coinflip"] /\ UNCHANGED <<slot, file>>
    BY <1>3 DEF ReadCoinflip, DeployedType, Deployed, Kinds
  <2> QED
    BY <2>2, <2>3, <2>4 DEF SaveInv, Saving, Reading
<1>4. ASSUME NEW r \in Requests, ReadBank(r) PROVE SaveInv'
  <2>1. SUFFICES ASSUME ~disturbed PROVE SaveInv'
    BY <1>4 DEF SaveInv, ReadBank
  <2>2. /\ pc'[r] = "open" /\ pc[r] = "readBank"
        /\ \A q \in Requests : q # r => pc'[q] = pc[q]
    BY <1>4 DEF ReadBank, Goto, PcType
  <2>3. \A q \in Requests : q # r => pc[q] \notin Saving
    BY <2>1, <2>2 DEF SaveInv, Saving, Reading
  <2>4. snapshot[r]["coinflip"] = slot["coinflip"]
    BY <2>1, <2>2 DEF SaveInv
  <2>5. snapshot'[r] = slot /\ UNCHANGED <<slot, file>>
    BY <1>4, <2>4 DEF ReadBank, DeployedType, Deployed, Kinds
  <2> QED
    BY <2>2, <2>3, <2>5 DEF SaveInv, Saving, Reading
<1>5. ASSUME NEW r \in Requests, Open(r) PROVE SaveInv'
  <2>1. SUFFICES ASSUME ~disturbed PROVE SaveInv'
    BY <1>5 DEF SaveInv, Open
  <2>2. /\ pc'[r] = "write" /\ pc[r] = "open"
        /\ \A q \in Requests : q # r => pc'[q] = pc[q]
    BY <1>5 DEF Open, Goto, PcType
  <2>3. \A q \in Requests : q # r => pc[q] \notin Saving
    BY <2>1, <2>2 DEF SaveInv, Saving, Reading
  <2>4. snapshot[r] = slot /\ UNCHANGED <<slot, snapshot>> /\ file' = Torn
    BY <1>5, <2>1, <2>2 DEF SaveInv, Open
  <2> QED
    BY <2>2, <2>3, <2>4 DEF SaveInv, Saving, Reading
<1>6. ASSUME NEW r \in Requests, Write(r) PROVE SaveInv'
  <2>1. SUFFICES ASSUME ~disturbed PROVE SaveInv'
    BY <1>6 DEF SaveInv, Write
  <2>2. /\ pc'[r] = "done" /\ pc[r] = "write"
        /\ \A q \in Requests : q # r => pc'[q] = pc[q]
    BY <1>6 DEF Write, Goto, PcType
  <2>3. \A q \in Requests : pc'[q] \notin Saving
    BY <2>1, <2>2 DEF SaveInv, Saving, Reading
  <2>4. snapshot[r] = slot /\ file = Torn
    BY <2>1, <2>2 DEF SaveInv
  <2>5. UNCHANGED slot /\ file' = slot
    BY <1>6, <2>4 DEF Write
  <2>6. slot # Torn
    <3>1. slot["bank"] \in Requests \cup {None} /\ Torn["bank"] = "torn"
      BY DEF DeployedType, Deployed, Torn, Kinds
    <3> QED
      BY <3>1, DeploymentsAssumption
  <2>7. Load' = slot'
    BY <2>5, <2>6 DEF Load
  <2> QED
    BY <2>3, <2>7 DEF SaveInv, Saving, Reading
<1>7. ASSUME NEW r \in Requests, WriteFails(r) PROVE SaveInv'
  BY <1>7 DEF WriteFails, SaveInv
<1>8. ASSUME Crash PROVE SaveInv'
  <2>1. \A q \in Requests : pc'[q] \notin Saving
    BY <1>8 DEF Crash, PcType, Saving, Reading, Replies
  <2>2. Load' = slot'
    BY <1>8 DEF Crash, Load
  <2> QED
    BY <2>1, <2>2 DEF SaveInv, Saving, Reading
<1>9. CASE UNCHANGED vars
  BY <1>9, NotSaving DEF vars
<1>10. "bank" \in Endpoints
  BY DEF Endpoints, Kinds
<1>11. ASSUME NEW r \in Requests, ClientDisconnect(r), pc[r] \in Saving PROVE SaveInv'
  <2>1. pc[r] \in Reading
    BY <1>11 DEF ClientDisconnect, Saving
  <2>2. disturbed'
    BY <1>11, <2>1 DEF ClientDisconnect
  <2> QED
    BY <2>2 DEF SaveInv
<1>12. ASSUME NEW r \in Requests, Stall(r) PROVE SaveInv'
  BY <1>12, NotSaving DEF Stall
<1> QED
  BY <1>1, <1>2, <1>3, <1>4, <1>5, <1>6, <1>7, <1>8, <1>9, <1>10, <1>11, <1>12 DEF Next, Handler

-----------------------------------------------------------------------------
(* The variables nothing else depends on. *)
RestType ==
    /\ disturbed \in BOOLEAN /\ crashes \in 0..MaxCrashes /\ stalled \subseteq Requests

(* Every step keeps the types of the remaining variables. *)
LEMMA RestStep == RestType /\ [Next]_vars => RestType'
<1>0. SUFFICES ASSUME RestType, [Next]_vars PROVE RestType'
  OBVIOUS
<1>1. ASSUME NEW r \in Requests, Store(r) \/ WriteFails(r) \/ ClientDisconnect(r) PROVE RestType'
  BY <1>0, <1>1 DEF Store, WriteFails, ClientDisconnect, RestType, faults
<1>2. ASSUME Crash PROVE RestType'
  BY <1>0, <1>2, DeploymentsAssumption DEF Crash, RestType
<1>3. ASSUME NEW r \in Requests, Stall(r) PROVE RestType'
  BY <1>0, <1>3 DEF Stall, RestType
<1>4. \/ UNCHANGED <<disturbed, crashes, stalled>> \/ Crash
      \/ \E r \in Requests : Store(r) \/ WriteFails(r) \/ ClientDisconnect(r) \/ Stall(r)
  BY <1>0 DEF Next, Handler, Request, ReturnExisting, StartDeploy, BankStatus, BankBalance,
              AcquireLock, DeployConfirmed, DeployFails, Approve, Fund, InvokeFails, ReadCoinflip,
              ReadBank, Open, Write, vars, faults
<1> QED
  BY <1>0, <1>1, <1>2, <1>3, <1>4 DEF RestType

Inv ==
    /\ PcType /\ DeployedType /\ RestType /\ LockInv
    /\ ReceiptInv /\ StoredInv /\ SaveInv

(* The server starts without requests. *)
LEMMA InitInv == Init => Inv
<1>1. SUFFICES ASSUME Init PROVE Inv
  OBVIOUS
<1>2. PcType /\ RestType
  <2>1. PcType
    BY <1>1 DEF Init, PcType, Stages, Deploying, Endpoints, Kinds, Waiting, Holding, Saving, Reading
  <2>2. crashes \in 0..MaxCrashes
    BY <1>1, DeploymentsAssumption DEF Init
  <2> QED
    BY <1>1, <2>1, <2>2 DEF Init, RestType
<1>3. Nothing \in Deployed
  BY DEF Nothing, Deployed
<1>4. DeployedType
  BY <1>1, <1>3 DEF Init, DeployedType
<1>5. LockInv
  BY <1>1 DEF Init, LockInv, Unrepeated, Queued, Waiting, Holding
<1>6. ReceiptInv
  BY <1>1 DEF Init, ReceiptInv, HasReceipt, Saving, Reading
<1>7. Load = Nothing
  BY <1>1 DEF Init, Load
<1>8. Good(Nothing, onChain, kind)
  BY DEF Good, Nothing
<1>9. StoredInv
  BY <1>1, <1>7, <1>8 DEF Init, StoredInv
<1>10. SaveInv
  BY <1>1, <1>7 DEF Init, SaveInv, Saving, Reading
<1> QED
  BY <1>2, <1>4, <1>5, <1>6, <1>9, <1>10 DEF Inv

(* The inductive invariant: types, the lock, receipts, what is stored and saved. *)
THEOREM InvHolds == Spec => []Inv
<1>1. Inv /\ [Next]_vars => Inv'
  BY PcStep, DeployedStep, RestStep, LockStep, ReceiptStep, StoredStep, SaveStep DEF Inv, RestType
<1> QED
  BY <1>1, InitInv, PTL DEF Spec

(* The shared state of the deploy endpoints keeps its type. *)
THEOREM TypeCorrect == Spec => []TypeOK
<1>1. Inv => TypeOK
  BY DEF Inv, PcType, DeployedType, RestType, LockInv, ReceiptInv, TypeOK, Stages
<1> QED
  BY <1>1, InvHolds, PTL

(* While a declare, deploy, approve or transfer runs, its request heads the
   queue of sncast_lock, also between the three locks of a bank deployment. *)
THEOREM LockDisciplineHolds == Spec => []LockDiscipline
<1>1. Inv => LockDiscipline
  BY DEF Inv, LockInv, LockDiscipline, HoldsLock, Queued
<1> QED
  BY <1>1, InvHolds, PTL

(* What the server stores, saves, reads back after a crash or returns is a
   contract of its kind that exists, whatever fails or disconnects. *)
THEOREM StoredOnChainHolds == Spec => []StoredOnChain
<1>1. Inv => StoredOnChain
  BY DEF Inv, StoredInv, Good, StoredOnChain
<1> QED
  BY <1>1, InvHolds, PTL

(* Saves that do not overlap persist everything: with nothing in progress, a
   restart finds the deployments in memory, after any number of crashes. *)
THEOREM SequentialSavesPersistHolds == Spec => []SequentialSavesPersist
<1>1. Inv => SequentialSavesPersist
  BY DEF Inv, SaveInv, SequentialSavesPersist
<1> QED
  BY <1>1, InvHolds, PTL
=============================================================================
