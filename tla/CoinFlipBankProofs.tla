------------------------- MODULE CoinFlipBankProofs -------------------------
(***************************************************************************)
(* Proofs about CoinFlipBank for every number of sessions and accounts and  *)
(* every initial distribution of tokens.                                    *)
(***************************************************************************)
EXTENDS CoinFlipBank, WellFoundedInduction, TLAPS

USE DEF EMPTY, DEPOSITED, MATCHED, SETTLED

(* The storage of the contract and the token tables keep their types; in
   particular no balance leaves the u256 range. *)
THEOREM TypeCorrect == Spec => []TypeOK
<1> USE BankAssumption DEF U256, Accounts, Holders
<1>1. Init => TypeOK
  BY DEF Init, Deployed, TypeOK
<1>2. TypeOK /\ [Next]_vars => TypeOK'
  <2> SUFFICES ASSUME TypeOK, [Next]_vars PROVE TypeOK'
    OBVIOUS
  <2> USE DEF TypeOK
  <2>1. ASSUME NEW a \in Accounts, NEW n \in Amounts, Approve(a, n) PROVE TypeOK'
    BY <2>1 DEF Approve, gameVars
  <2>2. ASSUME NEW n \in Amounts, Fund(n) PROVE TypeOK'
    BY <2>2 DEF Fund, gameVars, CanMove, Move
  <2>3. ASSUME NEW c \in Accounts, NEW s \in Sessions, NEW n \in Amounts,
               NEW d \in Seeds, NEW b \in Bets, Deposit(c, s, n, d, b)
        PROVE  TypeOK'
    BY <2>3 DEF Deposit, transfer_from, CanMove, Move
  <2>4. ASSUME NEW c \in Accounts, NEW s \in Sessions, MatchDeposit(c, s)
        PROVE  TypeOK'
    BY <2>4 DEF MatchDeposit, transfer_from, CanMove, Move
  <2>5. ASSUME NEW c \in Accounts, NEW s \in Sessions, NEW d \in Seeds, Settle(c, s, d)
        PROVE  TypeOK'
    <3>1. Winner(s, d) \in Accounts
      BY <2>5 DEF Settle, Winner
    <3> QED
      BY <2>5, <3>1 DEF Settle, transfer, CanMove, Move
  <2>6. ASSUME NEW c \in Accounts, Withdraw(c) PROVE TypeOK'
    BY <2>6 DEF Withdraw, transfer, CanMove, Move, gameVars, vars
  <2>7. CASE UNCHANGED vars
    BY <2>7 DEF vars
  <2> QED
    BY <2>1, <2>2, <2>3, <2>4, <2>5, <2>6, <2>7 DEF Next
<1> QED
  BY <1>1, <1>2, PTL DEF Spec

-----------------------------------------------------------------------------
(* Sums.  f is a table of partial sums of h.  That one exists is not derived by
   induction: Init has one, and a step that changes one entry of h turns the
   table of the old state into that of the new one. *)
IsSum(n, f, h) ==
    /\ f \in [0..n -> Int]
    /\ f[0] = 0
    /\ \A i \in 1..n : f[i] = f[i - 1] + h[i]

(* Changing h at k changes the total by the difference. *)
LEMMA SumUpdate ==
    ASSUME NEW n \in Nat, NEW f, NEW h \in [1..n -> Int], IsSum(n, f, h),
           NEW k \in 1..n, NEW v \in Int
    PROVE  \E g : /\ IsSum(n, g, [h EXCEPT ![k] = v])
                  /\ g[n] = f[n] - h[k] + v
<1> DEFINE g == [i \in 0..n |-> IF i < k THEN f[i] ELSE f[i] - h[k] + v]
<1>1. g \in [0..n -> Int]
  BY DEF IsSum
<1>2. g[0] = 0
  BY DEF IsSum
<1>3. ASSUME NEW i \in 1..n PROVE g[i] = g[i - 1] + [h EXCEPT ![k] = v][i]
  <2>1. f[i] = f[i - 1] + h[i] /\ f[i] \in Int /\ f[i - 1] \in Int
    BY DEF IsSum
  <2>2. i \in 0..n /\ i - 1 \in 0..n
    OBVIOUS
  <2>3. CASE i < k
    BY <2>1, <2>2, <2>3
  <2>4. CASE i = k
    BY <2>1, <2>2, <2>4
  <2>5. CASE i > k
    BY <2>1, <2>2, <2>5
  <2> QED
    BY <2>3, <2>4, <2>5
<1>4. g[n] = f[n] - h[k] + v
  OBVIOUS
<1> QED
  BY <1>1, <1>2, <1>3, <1>4 DEF IsSum

(* A sum of naturals is one: consider the least index at which it is not. *)
LEMMA SumNatural ==
    ASSUME NEW n \in Nat, NEW f, NEW h \in [1..n -> Nat], IsSum(n, f, h)
    PROVE  f[n] >= 0
<1> DEFINE T == {i \in 0..n : f[i] < 0}
           R == OpToRel(<, Nat)
<1>1. SUFFICES ASSUME T # {} PROVE FALSE
  <2>1. ASSUME T = {} PROVE f[n] >= 0
    <3>1. n \in 0..n /\ f[n] \in Int
      BY DEF IsSum
    <3> QED
      BY <2>1, <3>1
  <2> QED
    BY <1>1, <2>1
<1>2. T \subseteq Nat
  OBVIOUS
<1>3. \E x \in T : \A y \in T : ~(<<y, x>> \in R)
  <2> HIDE DEF T, R
  <2>1. IsWellFoundedOn(R, Nat)
    BY NatLessThanWellFounded DEF R
  <2> QED
    BY <1>1, <1>2, <2>1, WFMin
<1>4. PICK x \in T : \A y \in T : ~(y < x)
  BY <1>2, <1>3 DEF OpToRel
<1>5. x # 0
  BY <1>4 DEF IsSum
<1>6. x \in 1..n /\ x - 1 \in 0..n /\ x - 1 < x
  BY <1>4, <1>5
<1>7. f[x - 1] >= 0
  BY <1>4, <1>6 DEF IsSum
<1> QED
  BY <1>4, <1>6, <1>7 DEF IsSum

(* So no member of a sum of naturals exceeds it. *)
LEMMA SumMember ==
    ASSUME NEW n \in Nat, NEW f, NEW h \in [1..n -> Nat], IsSum(n, f, h), NEW k \in 1..n
    PROVE  h[k] <= f[n]
<1>1. h \in [1..n -> Int] /\ 0 \in Int
  OBVIOUS
<1>2. PICK g : IsSum(n, g, [h EXCEPT ![k] = 0]) /\ g[n] = f[n] - h[k] + 0
  BY <1>1, SumUpdate
<1>3. [h EXCEPT ![k] = 0] \in [1..n -> Nat]
  OBVIOUS
<1>4. g[n] >= 0
  BY <1>2, <1>3, SumNatural
<1>5. f[n] \in Int /\ h[k] \in Int
  BY DEF IsSum
<1> QED
  BY <1>2, <1>4, <1>5

(* Two tables of partial sums of h agree: consider the least index at which
   they do not. *)
LEMMA SumUnique ==
    ASSUME NEW f, NEW g, NEW h \in [Sessions -> Int], IsSum(NumSessions, f, h),
           g[0] = 0, \A i \in Sessions : g[i] = g[i - 1] + h[i]
    PROVE  f[NumSessions] = g[NumSessions]
<1> DEFINE T == {i \in 0..NumSessions : f[i] # g[i]}
           R == OpToRel(<, Nat)
<1>1. SUFFICES ASSUME T # {} PROVE FALSE
  BY <1>1, BankAssumption
<1>2. T \subseteq Nat
  BY BankAssumption
<1>3. \E x \in T : \A y \in T : ~(<<y, x>> \in R)
  <2> HIDE DEF T, R
  <2>1. IsWellFoundedOn(R, Nat)
    BY NatLessThanWellFounded DEF R
  <2> QED
    BY <1>1, <1>2, <2>1, WFMin
<1>4. PICK x \in T : \A y \in T : ~(y < x)
  BY <1>2, <1>3 DEF OpToRel
<1>5. x # 0
  BY <1>4 DEF IsSum
<1>6. x \in Sessions /\ x - 1 \in 0..NumSessions
  BY <1>4, <1>5, BankAssumption DEF Sessions
<1>7. f[x - 1] = g[x - 1]
  BY <1>4, <1>6, BankAssumption
<1> QED
  BY <1>4, <1>6, <1>7 DEF IsSum

(* The total of any such table is the one Escrowed computes. *)
LEMMA SumIsPrefixSum ==
    ASSUME NEW f, NEW h \in [Sessions -> Int], IsSum(NumSessions, f, h)
    PROVE  PrefixSum(h)[NumSessions] = f[NumSessions]
<1> DEFINE Rec(e) == [i \in 0..NumSessions |-> IF i = 0 THEN 0 ELSE e[i - 1] + h[i]]
<1>1. f = Rec(f)
  BY BankAssumption DEF IsSum, Sessions
<1>2. PrefixSum(h) = CHOOSE e : e = Rec(e)
  BY DEF PrefixSum
<1>3. PrefixSum(h) = Rec(PrefixSum(h))
  <2> HIDE DEF Rec
  <2> QED
    BY <1>1, <1>2
<1> DEFINE g == PrefixSum(h)
<1>4. g[0] = 0 /\ \A i \in Sessions : g[i] = g[i - 1] + h[i]
  <2> HIDE DEF g
  <2>1. g = Rec(g)
    BY <1>3 DEF g
  <2> QED
    BY <2>1, BankAssumption DEF Sessions
<1> HIDE DEF g
<1>5. f[NumSessions] = g[NumSessions]
  BY <1>4, SumUnique
<1> QED
  BY <1>5 DEF g

-----------------------------------------------------------------------------
(* Solvency.  Withdraw pays out of the same tokens as settle, so the
   invariant needs that no balance is ever credited. *)
NoCredit == \A a \in Accounts : player_balance[a] = 0

(* The strengthening of Solvency: some table of partial sums of what is owed
   ends within the bank's balance. *)
SumInv == \E f : IsSum(NumSessions, f, HeldBy) /\ f[NumSessions] <= balance[Bank]

(* No step credits a withdrawable balance: settle pays wallets directly, so
   the paying branch of withdraw is never taken. *)
LEMMA Uncredited == Spec => []NoCredit
<1>1. Init => NoCredit
  BY DEF Init, Deployed, NoCredit
<1>2. TypeOK /\ NoCredit /\ [Next]_vars => NoCredit'
  <2> SUFFICES ASSUME TypeOK, NoCredit, [Next]_vars PROVE NoCredit'
    OBVIOUS
  <2>1. UNCHANGED player_balance \/ \E c \in Accounts : Withdraw(c)
    BY DEF Next, vars, Approve, Fund, Deposit, MatchDeposit, Settle
  <2>2. UNCHANGED player_balance
    BY <2>1 DEF Withdraw, NoCredit, vars
  <2> QED
    BY <2>2 DEF NoCredit
<1> QED
  BY <1>1, <1>2, TypeCorrect, PTL DEF Spec

(* What is owed on a session is an integer. *)
LEMMA HeldType == TypeOK => HeldBy \in [Sessions -> Int]
  BY BankAssumption DEF TypeOK, HeldBy, Held, U256

(* A step that changes the state and the amount of session s only, changes
   what is owed on s only. *)
LEMMA HeldUpdate ==
    ASSUME NEW s \in Sessions, NEW v, Held(s)' = v,
           \A t \in Sessions \ {s} : Held(t)' = Held(t)
    PROVE  HeldBy' = [HeldBy EXCEPT ![s] = v]
<1>1. HeldBy' = [t \in Sessions |-> IF t = s THEN v ELSE Held(t)]
  <2>1. \A t \in Sessions : HeldBy'[t] = IF t = s THEN v ELSE Held(t)
    BY DEF HeldBy
  <2> QED
    BY <2>1 DEF HeldBy
<1> QED
  BY <1>1 DEF HeldBy

(* A step that sets what is owed on session s to v and moves the bank's
   balance by at least the same amount keeps the sum covered. *)
LEMMA SumStep ==
    ASSUME TypeOK, TypeOK', SumInv, NEW s \in Sessions, NEW v \in Int,
           HeldBy' = [HeldBy EXCEPT ![s] = v],
           balance'[Bank] >= balance[Bank] - HeldBy[s] + v
    PROVE  SumInv'
<1>1. PICK f : IsSum(NumSessions, f, HeldBy) /\ f[NumSessions] <= balance[Bank]
  BY DEF SumInv
<1>2. HeldBy \in [Sessions -> Int]
  BY HeldType
<1>3. PICK g : /\ IsSum(NumSessions, g, [HeldBy EXCEPT ![s] = v])
               /\ g[NumSessions] = f[NumSessions] - HeldBy[s] + v
  <2> DEFINE h == HeldBy
  <2>1. h \in [Sessions -> Int] /\ IsSum(NumSessions, f, h)
    BY <1>1, <1>2
  <2> HIDE DEF h
  <2>2. NumSessions \in Nat /\ s \in 1..NumSessions /\ h \in [1..NumSessions -> Int]
    BY <2>1, BankAssumption DEF Sessions
  <2>3. \E g : /\ IsSum(NumSessions, g, [h EXCEPT ![s] = v])
               /\ g[NumSessions] = f[NumSessions] - h[s] + v
    BY <2>1, <2>2, SumUpdate
  <2> QED
    BY <2>3 DEF h
<1>4. f[NumSessions] \in Int /\ HeldBy[s] \in Int
  BY <1>1, <1>2, BankAssumption DEF IsSum
<1>5. balance[Bank] \in Int /\ balance'[Bank] \in Int
  BY BankAssumption DEF TypeOK, Holders, U256
<1>6. g[NumSessions] <= balance'[Bank]
  BY <1>1, <1>3, <1>4, <1>5
<1>7. IsSum(NumSessions, g, HeldBy')
  BY <1>3
<1> QED
  BY <1>6, <1>7 DEF SumInv

(* The strengthened invariant holds. *)
LEMMA SumHolds == Spec => []SumInv
<1>1. Init => SumInv
  <2> SUFFICES ASSUME Init PROVE SumInv
    OBVIOUS
  <2> DEFINE f == [i \in 0..NumSessions |-> 0]
  <2>1. HeldBy = [s \in Sessions |-> 0]
    BY DEF Init, Deployed, HeldBy, Held
  <2>2. IsSum(NumSessions, f, HeldBy)
    BY <2>1, BankAssumption DEF IsSum, Sessions
  <2>3. f[NumSessions] <= balance[Bank]
    BY BankAssumption DEF Init, Deployed, Holders
  <2> QED
    BY <2>2, <2>3 DEF SumInv
<1>2. TypeOK /\ TypeOK' /\ NoCredit /\ SumInv /\ [Next]_vars => SumInv'
  <2> SUFFICES ASSUME TypeOK, TypeOK', NoCredit, SumInv, [Next]_vars
               PROVE  SumInv'
    OBVIOUS
  <2> USE BankAssumption DEF U256, Accounts, Holders, TypeOK
  <2>0. ASSUME HeldBy' = HeldBy, balance'[Bank] >= balance[Bank] PROVE SumInv'
    <3>1. PICK f : IsSum(NumSessions, f, HeldBy) /\ f[NumSessions] <= balance[Bank]
      BY DEF SumInv
    <3>2. f[NumSessions] \in Int
      BY <3>1 DEF IsSum
    <3>3. IsSum(NumSessions, f, HeldBy')
      BY <2>0, <3>1
    <3>4. f[NumSessions] <= balance'[Bank]
      BY <2>0, <3>1, <3>2
    <3> QED
      BY <3>3, <3>4 DEF SumInv
  <2>1. ASSUME NEW a \in Accounts, NEW n \in Amounts, Approve(a, n)
        PROVE  SumInv'
    <3>1. HeldBy' = HeldBy
      BY <2>1 DEF Approve, gameVars, HeldBy, Held
    <3> QED
      BY <2>0, <2>1, <3>1 DEF Approve
  <2>2. ASSUME NEW n \in Amounts, Fund(n) PROVE SumInv'
    <3>1. HeldBy' = HeldBy
      BY <2>2 DEF Fund, gameVars, HeldBy, Held
    <3>2. balance'[Bank] >= balance[Bank]
      <4>1. Owner # Bank /\ n \in Nat /\ balance[Bank] \in Nat
        OBVIOUS
      <4>2. balance'[Bank] = balance[Bank] + n
        BY <2>2, <4>1 DEF Fund, Move
      <4> QED
        BY <4>1, <4>2
    <3> QED
      BY <2>0, <3>1, <3>2
  <2>3. ASSUME NEW c \in Accounts, NEW s \in Sessions, NEW n \in Amounts,
               NEW d \in Seeds, NEW b \in Bets, Deposit(c, s, n, d, b)
        PROVE  SumInv'
    <3>1. HeldBy' = [HeldBy EXCEPT ![s] = n] /\ HeldBy[s] = 0
      <4>1. Held(s)' = n /\ \A t \in Sessions \ {s} : Held(t)' = Held(t)
        BY <2>3 DEF Deposit, Held
      <4> QED
        BY <2>3, <4>1, HeldUpdate DEF Deposit, HeldBy, Held
    <3>2. balance'[Bank] = balance[Bank] + n
      BY <2>3 DEF Deposit, transfer_from, Move, CanMove
    <3>3. n \in Int /\ balance'[Bank] >= balance[Bank] - HeldBy[s] + n
      BY <3>1, <3>2
    <3> HIDE DEF TypeOK
    <3> QED
      BY <3>1, <3>3, SumStep
  <2>4. ASSUME NEW c \in Accounts, NEW s \in Sessions, MatchDeposit(c, s)
        PROVE  SumInv'
    <3>1. /\ HeldBy' = [HeldBy EXCEPT ![s] = 2 * game_amount[s]]
          /\ HeldBy[s] = game_amount[s]
      <4>1. Held(s)' = 2 * game_amount[s] /\ \A t \in Sessions \ {s} : Held(t)' = Held(t)
        BY <2>4 DEF MatchDeposit, Held
      <4> QED
        BY <2>4, <4>1, HeldUpdate DEF MatchDeposit, HeldBy, Held
    <3>2. balance'[Bank] = balance[Bank] + game_amount[s]
      BY <2>4 DEF MatchDeposit, transfer_from, Move, CanMove
    <3>3. /\ 2 * game_amount[s] \in Int
          /\ balance'[Bank] >= balance[Bank] - HeldBy[s] + 2 * game_amount[s]
      BY <3>1, <3>2
    <3> HIDE DEF TypeOK
    <3> QED
      BY <3>1, <3>3, SumStep
  <2>5. ASSUME NEW c \in Accounts, NEW s \in Sessions, NEW d \in Seeds, Settle(c, s, d)
        PROVE  SumInv'
    <3>1. HeldBy' = [HeldBy EXCEPT ![s] = 0] /\ HeldBy[s] = 2 * game_amount[s]
      <4>1. Held(s)' = 0 /\ \A t \in Sessions \ {s} : Held(t)' = Held(t)
        BY <2>5 DEF Settle, Held
      <4> QED
        BY <2>5, <4>1, HeldUpdate DEF Settle, HeldBy, Held
    <3>2. Winner(s, d) \in Accounts
      BY <2>5 DEF Settle, Winner
    <3>3. balance'[Bank] = balance[Bank] - 2 * game_amount[s]
      BY <2>5, <3>2 DEF Settle, transfer, Move, CanMove
    <3>4. 0 \in Int /\ balance'[Bank] >= balance[Bank] - HeldBy[s] + 0
      BY <3>1, <3>3
    <3> HIDE DEF TypeOK
    <3> QED
      BY <3>1, <3>4, SumStep
  <2>6. ASSUME NEW c \in Accounts, Withdraw(c) PROVE SumInv'
    <3>1. UNCHANGED vars
      BY <2>6 DEF Withdraw, NoCredit
    <3>2. HeldBy' = HeldBy
      BY <3>1 DEF vars, HeldBy, Held
    <3> QED
      BY <2>0, <3>1, <3>2 DEF vars
  <2>7. CASE UNCHANGED vars
    <3>1. HeldBy' = HeldBy
      BY <2>7 DEF vars, HeldBy, Held
    <3> QED
      BY <2>0, <2>7, <3>1 DEF vars
  <2> QED
    BY <2>1, <2>2, <2>3, <2>4, <2>5, <2>6, <2>7 DEF Next
<1> QED
  BY <1>1, <1>2, TypeCorrect, Uncredited, PTL DEF Spec

(* The tokens of the contract cover every open game at once. *)
THEOREM Solvent == Spec => []Solvency
<1>1. TypeOK /\ SumInv => Solvency
  <2> SUFFICES ASSUME TypeOK, SumInv PROVE Solvency
    OBVIOUS
  <2>1. PICK f : IsSum(NumSessions, f, HeldBy) /\ f[NumSessions] <= balance[Bank]
    BY DEF SumInv
  <2>2. PrefixSum(HeldBy)[NumSessions] = f[NumSessions]
    BY <2>1, HeldType, SumIsPrefixSum
  <2> QED
    BY <2>1, <2>2 DEF Solvency, Escrowed
<1> QED
  BY <1>1, SumHolds, TypeCorrect, PTL

-----------------------------------------------------------------------------
(* Settling.  A payment of settle can exceed neither the bank's tokens nor the
   u256 range of its receiver, because tokens only move: what the accounts and
   the bank hold together is the supply, which is itself a u256. *)

(* e lists the accounts, each once. *)
Listing(n, e) ==
    /\ e \in [1..n -> Accounts]
    /\ \A i, j \in 1..n : e[i] = e[j] => i = j
    /\ \A a \in Accounts : \E i \in 1..n : e[i] = a

(* STRK's total supply is a u256. *)
SupplyFits ==
    \E n, e, f :
        /\ n \in Nat
        /\ Listing(n, e)
        /\ IsSum(n, f, [i \in 1..n |-> InitialBalance[e[i]]])
        /\ f[n] <= MaxU256

(* The same of the tokens that the accounts and the bank hold now. *)
SupplyInv ==
    \E n, e, f :
        /\ n \in Nat
        /\ Listing(n, e)
        /\ IsSum(n, f, [i \in 1..n |-> balance[e[i]]])
        /\ f[n] + balance[Bank] <= MaxU256

(* A step that moves tokens between account x and the bank keeps the supply. *)
LEMMA SupplyStep ==
    ASSUME TypeOK, TypeOK', SupplyInv, NEW x \in Accounts, NEW v \in Nat,
           \A a \in Accounts : balance'[a] = IF a = x THEN v ELSE balance[a],
           balance'[Bank] = balance[Bank] + balance[x] - v
    PROVE  SupplyInv'
<1>1. PICK n, e, f :
          /\ n \in Nat
          /\ Listing(n, e) /\ IsSum(n, f, [i \in 1..n |-> balance[e[i]]])
          /\ f[n] + balance[Bank] <= MaxU256
  BY DEF SupplyInv
<1>2. \A h \in Holders : balance[h] \in Nat /\ balance'[h] \in Nat
  BY BankAssumption DEF TypeOK, U256
<1>3. PICK k \in 1..n : e[k] = x
  BY <1>1 DEF Listing
<1> DEFINE h == [i \in 1..n |-> balance[e[i]]]
<1>4. n \in Nat /\ h \in [1..n -> Int] /\ h[k] = balance[x] /\ IsSum(n, f, h) /\ v \in Int
  BY <1>1, <1>2, <1>3 DEF Listing, Holders
<1>5. [i \in 1..n |-> balance'[e[i]]] = [h EXCEPT ![k] = v]
  <2>1. ASSUME NEW i \in 1..n
        PROVE  balance'[e[i]] = IF i = k THEN v ELSE balance[e[i]]
    BY <1>1, <1>3 DEF Listing
  <2> QED
    BY <2>1
<1> HIDE DEF h
<1>6. PICK g : IsSum(n, g, [h EXCEPT ![k] = v]) /\ g[n] = f[n] - h[k] + v
  BY <1>4, SumUpdate
<1>7. IsSum(n, g, [i \in 1..n |-> balance'[e[i]]])
  BY <1>5, <1>6
<1>8. f[n] \in Int /\ balance[x] \in Int /\ balance[Bank] \in Int /\ MaxU256 \in Int
  BY <1>1, <1>2, BankAssumption DEF IsSum, Holders
<1>9. g[n] + balance'[Bank] <= MaxU256
  BY <1>1, <1>4, <1>6, <1>8
<1> QED
  BY <1>1, <1>7, <1>9 DEF SupplyInv

(* No step of the contract or the token mints or burns. *)
LEMMA SupplyHolds == SupplyFits /\ Spec => []SupplyInv
<1>1. SupplyFits /\ Init => SupplyInv
  <2>0. SUFFICES ASSUME SupplyFits, Init PROVE SupplyInv
    OBVIOUS
  <2>1. PICK n, e, f :
            /\ n \in Nat
            /\ Listing(n, e) /\ IsSum(n, f, [i \in 1..n |-> InitialBalance[e[i]]])
            /\ f[n] <= MaxU256
    BY <2>0 DEF SupplyFits
  <2>2. balance[Bank] = 0 /\ \A a \in Accounts : balance[a] = InitialBalance[a]
    BY <2>0, BankAssumption DEF Init, Deployed, Holders
  <2>3. [i \in 1..n |-> balance[e[i]]] = [i \in 1..n |-> InitialBalance[e[i]]]
    BY <2>1, <2>2 DEF Listing
  <2>4. f[n] + balance[Bank] <= MaxU256
    BY <2>1, <2>2 DEF IsSum
  <2>5. IsSum(n, f, [i \in 1..n |-> balance[e[i]]])
    BY <2>1, <2>3
  <2> QED
    BY <2>1, <2>4, <2>5 DEF SupplyInv
<1>2. TypeOK /\ TypeOK' /\ NoCredit /\ SupplyInv /\ [Next]_vars => SupplyInv'
  <2>0. SUFFICES ASSUME TypeOK, TypeOK', NoCredit, SupplyInv, [Next]_vars
                 PROVE  SupplyInv'
    OBVIOUS
  <2>1. /\ Bank \notin Accounts /\ Owner \in Accounts
        /\ \A h \in Holders : balance[h] \in Nat /\ balance'[h] \in Nat
        /\ balance \in [Holders -> Nat] /\ Amounts \subseteq Nat
        /\ \A s \in Sessions : game_amount[s] \in Nat
    BY <2>0, BankAssumption DEF TypeOK, U256, Accounts
  <2>2. UNCHANGED balance => SupplyInv'
    BY <2>0 DEF SupplyInv
  <2>3. ASSUME NEW x \in Accounts, NEW m \in Nat, CanMove(x, Bank, m), balance' = Move(x, Bank, m)
        PROVE  SupplyInv'
    <3>1. /\ m <= balance[x] /\ balance[x] \in Nat /\ balance[Bank] \in Nat
          /\ x \in Holders /\ Bank \in Holders /\ x # Bank
      BY <2>1, <2>3 DEF CanMove, Holders
    <3>2. balance[x] - m \in Nat
      BY <3>1
    <3>3. \A a \in Accounts : balance'[a] = IF a = x THEN balance[x] - m ELSE balance[a]
      BY <2>1, <2>3 DEF Move, Holders
    <3>4. balance'[Bank] = balance[Bank] + m
      BY <2>1, <2>3, <3>1 DEF Move
    <3>5. balance'[Bank] = balance[Bank] + balance[x] - (balance[x] - m)
      BY <3>1, <3>4
    <3> QED
      BY <2>0, <3>2, <3>3, <3>5, SupplyStep
  <2>4. ASSUME NEW x \in Accounts, NEW m \in Nat, balance' = Move(Bank, x, m)
        PROVE  SupplyInv'
    <3>1. balance[x] \in Nat /\ balance[Bank] \in Nat /\ x \in Holders /\ Bank \in Holders /\ x # Bank
      BY <2>1 DEF Holders
    <3>2. balance[x] + m \in Nat
      BY <3>1
    <3>3. \A a \in Accounts : balance'[a] = IF a = x THEN balance[x] + m ELSE balance[a]
      BY <2>1, <2>4 DEF Move, Holders
    <3>4. balance'[Bank] = balance[Bank] - m
      BY <2>1, <2>4, <3>1 DEF Move
    <3>5. balance'[Bank] = balance[Bank] + balance[x] - (balance[x] + m)
      BY <3>1, <3>4
    <3> QED
      BY <2>0, <3>2, <3>3, <3>5, SupplyStep
  <2>5. ASSUME NEW a \in Accounts, NEW n \in Amounts, Approve(a, n) PROVE SupplyInv'
    BY <2>2, <2>5 DEF Approve
  <2>6. ASSUME NEW n \in Amounts, Fund(n) PROVE SupplyInv'
    BY <2>1, <2>3, <2>6 DEF Fund
  <2>7. ASSUME NEW c \in Accounts, NEW s \in Sessions, NEW n \in Amounts,
               NEW d \in Seeds, NEW b \in Bets, Deposit(c, s, n, d, b)
        PROVE  SupplyInv'
    BY <2>1, <2>3, <2>7 DEF Deposit, transfer_from
  <2>8. ASSUME NEW c \in Accounts, NEW s \in Sessions, MatchDeposit(c, s) PROVE SupplyInv'
    BY <2>1, <2>3, <2>8 DEF MatchDeposit, transfer_from
  <2>9. ASSUME NEW c \in Accounts, NEW s \in Sessions, NEW d \in Seeds, Settle(c, s, d)
        PROVE  SupplyInv'
    <3>1. Winner(s, d) \in Accounts
      BY <2>0, <2>9 DEF Settle, Winner, TypeOK, Accounts
    <3>2. 2 * game_amount[s] \in Nat
      BY <2>1
    <3> QED
      BY <2>4, <2>9, <3>1, <3>2 DEF Settle, transfer
  <2>10. ASSUME NEW c \in Accounts, Withdraw(c) PROVE SupplyInv'
    BY <2>0, <2>2, <2>10 DEF Withdraw, NoCredit, vars
  <2>11. CASE UNCHANGED vars
    BY <2>2, <2>11 DEF vars
  <2> QED
    BY <2>0, <2>5, <2>6, <2>7, <2>8, <2>9, <2>10, <2>11 DEF Next
<1> QED
  BY <1>1, <1>2, TypeCorrect, Uncredited, PTL DEF Spec

(* A matched game can always be settled: when the token's supply is a u256,
   neither the doubling in settle nor its transfer can revert. *)
THEOREM SettleAlwaysPossible == SupplyFits /\ Spec => []SettleNeverReverts
<1>1. TypeOK /\ SumInv /\ SupplyInv => SettleNeverReverts
  <2>0. SUFFICES ASSUME TypeOK, SumInv, SupplyInv, NEW s \in Sessions, NEW d \in Seeds,
                        game_state[s] = MATCHED
                 PROVE  /\ 2 * game_amount[s] <= MaxU256
                        /\ CanMove(Bank, Winner(s, d), 2 * game_amount[s])
    BY DEF SettleNeverReverts
  <2> DEFINE w == Winner(s, d)
  <2>1. w \in Accounts
    BY <2>0 DEF Winner, TypeOK, Accounts
  <2> HIDE DEF w
  <2>2. balance[w] \in Nat /\ balance[Bank] \in Nat /\ balance[Bank] <= MaxU256 /\ MaxU256 \in Nat
        /\ game_amount[s] \in Nat
    BY <2>0, <2>1, BankAssumption DEF TypeOK, Holders, U256
  <2>3. 2 * game_amount[s] <= balance[Bank]
    <3>1. PICK f : IsSum(NumSessions, f, HeldBy) /\ f[NumSessions] <= balance[Bank]
      BY <2>0 DEF SumInv
    <3>2. HeldBy \in [Sessions -> Nat]
      BY <2>0, BankAssumption DEF TypeOK, HeldBy, Held, U256
    <3>3. HeldBy[s] = 2 * game_amount[s]
      BY <2>0 DEF HeldBy, Held
    <3>4. HeldBy[s] <= f[NumSessions]
      BY <3>1, <3>2, SumMember, BankAssumption DEF Sessions
    <3>5. f[NumSessions] \in Int
      BY <3>1, BankAssumption DEF IsSum
    <3> QED
      BY <2>2, <3>1, <3>3, <3>4, <3>5
  <2>4. balance[w] + balance[Bank] <= MaxU256
    <3>1. PICK n, e, f :
              /\ n \in Nat
              /\ Listing(n, e) /\ IsSum(n, f, [i \in 1..n |-> balance[e[i]]])
              /\ f[n] + balance[Bank] <= MaxU256
      BY <2>0 DEF SupplyInv
    <3>2. PICK k \in 1..n : e[k] = w
      BY <2>1, <3>1 DEF Listing
    <3> DEFINE h == [i \in 1..n |-> balance[e[i]]]
    <3>3. n \in Nat /\ h \in [1..n -> Nat] /\ h[k] = balance[w] /\ IsSum(n, f, h)
      <4>1. ASSUME NEW i \in 1..n PROVE balance[e[i]] \in Nat
        BY <2>0, <3>1, BankAssumption DEF Listing, TypeOK, Holders, U256
      <4> QED
        BY <3>1, <3>2, <4>1
    <3> HIDE DEF h
    <3>4. h[k] <= f[n]
      BY <3>3, SumMember
    <3>5. f[n] \in Int
      BY <3>3 DEF IsSum
    <3> QED
      BY <2>2, <3>1, <3>3, <3>4, <3>5
  <2>5. 2 * game_amount[s] \in Nat /\ balance[w] + 2 * game_amount[s] <= MaxU256
        /\ 2 * game_amount[s] <= MaxU256
    BY <2>2, <2>3, <2>4
  <2> QED
    BY <2>3, <2>5 DEF CanMove, w
<1> QED
  BY <1>1, SumHolds, SupplyHolds, TypeCorrect, PTL

-----------------------------------------------------------------------------
(* A session id is used for one game, whose terms never change and whose
   state only advances. *)
THEOREM TermsFixed == Spec => GameTermsFixed
<1> DEFINE Fixed(s) ==
      game_state[s] # EMPTY =>
          /\ game_player'[s] = game_player[s]
          /\ game_amount'[s] = game_amount[s]
          /\ game_bet'[s] = game_bet[s]
          /\ game_state'[s] \in {game_state[s], game_state[s] + 1}
<1>1. TypeOK /\ [Next]_vars => [\A s \in Sessions : Fixed(s)]_vars
  <2> SUFFICES ASSUME TypeOK, Next, NEW s \in Sessions PROVE Fixed(s)
    OBVIOUS
  <2> USE DEF TypeOK
  <2>1. ASSUME NEW a \in Accounts, NEW n \in Amounts, Approve(a, n) PROVE Fixed(s)
    BY <2>1 DEF Approve, gameVars
  <2>2. ASSUME NEW n \in Amounts, Fund(n) PROVE Fixed(s)
    BY <2>2 DEF Fund, gameVars
  <2>3. ASSUME NEW c \in Accounts, NEW t \in Sessions, NEW n \in Amounts,
               NEW d \in Seeds, NEW b \in Bets, Deposit(c, t, n, d, b)
        PROVE  Fixed(s)
    BY <2>3 DEF Deposit
  <2>4. ASSUME NEW c \in Accounts, NEW t \in Sessions, MatchDeposit(c, t)
        PROVE  Fixed(s)
    BY <2>4 DEF MatchDeposit
  <2>5. ASSUME NEW c \in Accounts, NEW t \in Sessions, NEW d \in Seeds, Settle(c, t, d)
        PROVE  Fixed(s)
    BY <2>5 DEF Settle
  <2>6. ASSUME NEW c \in Accounts, Withdraw(c) PROVE Fixed(s)
    BY <2>6 DEF Withdraw, gameVars, vars
  <2> QED
    BY <2>1, <2>2, <2>3, <2>4, <2>5, <2>6 DEF Next
<1> QED
  BY <1>1, TypeCorrect, PTL DEF Spec, GameTermsFixed

-----------------------------------------------------------------------------
(* The bank implements the abstract escrow: initial states map to initial
   states and every step maps to a move of the escrow or to a stutter. *)
THEOREM BankImplementsEscrow == Spec => ImplementsEscrow
<1> USE BankAssumption DEF U256, Accounts, Holders
<1> USE DEF Ledger!Open, Ledger!Staked, Ledger!Covered, Ledger!Closed
<1>1. Init => Ledger!Init
  <2> SUFFICES ASSUME Init PROVE Ledger!Init
    OBVIOUS
  <2>1. [a \in Accounts |-> balance[a]] \in [Accounts -> Nat]
    <3>1. ASSUME NEW a \in Accounts PROVE balance[a] \in Nat
      <4>1. balance[a] = InitialBalance[a] /\ InitialBalance[a] \in 0..MaxU256
        BY DEF Init, Deployed
      <4> QED
        BY <4>1
    <3> QED
      BY <3>1
  <2>2. HeldBy = [s \in Sessions |-> 0]
    BY DEF Init, Deployed, HeldBy, Held
  <2>3. game_state = [s \in Sessions |-> 0]
    BY DEF Init, Deployed
  <2> HIDE DEF Accounts
  <2> QED
    BY <2>1, <2>2, <2>3 DEF Ledger!Init
<1>2. TypeOK /\ TypeOK' /\ NoCredit /\ [Next]_vars => [Ledger!Next]_(Ledger!vars)
  <2> SUFFICES ASSUME TypeOK, TypeOK', NoCredit, [Next]_vars
               PROVE  [Ledger!Next]_(Ledger!vars)
    OBVIOUS
  <2> DEFINE wealth == [a \in Accounts |-> balance[a]]
  <2>0. ASSUME NEW x \in Accounts, NEW v,
               \A a \in Accounts : balance'[a] = IF a = x THEN v ELSE balance[a]
        PROVE  wealth' = [wealth EXCEPT ![x] = v]
    BY <2>0
  <2>1. ASSUME NEW a \in Accounts, NEW n \in Amounts, Approve(a, n)
        PROVE  UNCHANGED Ledger!vars
    BY <2>1 DEF Approve, gameVars, Ledger!vars, HeldBy, Held
  <2>2. ASSUME NEW n \in Amounts, Fund(n) PROVE Ledger!Give
    <3>1. UNCHANGED <<HeldBy, game_player, game_state>>
      BY <2>2 DEF Fund, gameVars, HeldBy, Held
    <3>2. \A a \in Accounts :
              balance'[a] = IF a = Owner THEN balance[Owner] - n ELSE balance[a]
      BY <2>2 DEF Fund, Move, TypeOK
    <3>3. wealth' = [wealth EXCEPT ![Owner] = balance[Owner] - n]
      BY <2>0, <3>2
    <3>4. balance[Owner] \in Nat /\ n \in Nat
      <4>1. balance[Owner] \in 0..MaxU256 /\ n \in 0..MaxU256
        BY DEF TypeOK
      <4> QED
        BY <4>1
    <3>5. wealth'[Owner] = balance[Owner] - n /\ wealth[Owner] = balance[Owner]
      BY <3>3
    <3>6. wealth'[Owner] <= wealth[Owner]
      BY <3>4, <3>5
    <3> HIDE DEF Accounts
    <3> QED
      BY <3>1, <3>3, <3>5, <3>6 DEF Ledger!Give
  <2>3. ASSUME NEW c \in Accounts, NEW s \in Sessions, NEW n \in Amounts,
               NEW d \in Seeds, NEW b \in Bets, Deposit(c, s, n, d, b)
        PROVE  Ledger!Stake(c, s)
    <3>1. Held(s)' = n /\ \A t \in Sessions \ {s} : Held(t)' = Held(t)
      BY <2>3 DEF Deposit, Held, TypeOK
    <3>2. HeldBy' = [HeldBy EXCEPT ![s] = n] /\ HeldBy'[s] = n
      BY <3>1, HeldUpdate DEF HeldBy
    <3>3. \A a \in Accounts :
              balance'[a] = IF a = c THEN balance[c] - n ELSE balance[a]
      BY <2>3 DEF Deposit, transfer_from, Move, TypeOK
    <3>4. wealth' = [wealth EXCEPT ![c] = balance[c] - n]
      BY <2>0, <3>3
    <3> QED
      BY <2>3, <3>2, <3>4 DEF Deposit, Ledger!Stake
  <2>4. ASSUME NEW c \in Accounts, NEW s \in Sessions, MatchDeposit(c, s)
        PROVE  Ledger!Cover(s)
    <3>1. /\ Held(s)' = 2 * game_amount[s] /\ Held(s) = game_amount[s]
          /\ \A t \in Sessions \ {s} : Held(t)' = Held(t)
      BY <2>4 DEF MatchDeposit, Held, TypeOK
    <3>2. HeldBy' = [HeldBy EXCEPT ![s] = 2 * HeldBy[s]] /\ HeldBy[s] = game_amount[s]
      BY <3>1, HeldUpdate DEF HeldBy
    <3>3. \A a \in Accounts :
              balance'[a] = IF a = Owner THEN balance[Owner] - game_amount[s] ELSE balance[a]
      <4>1. balance' = Move(Owner, Bank, game_amount[s])
        BY <2>4 DEF MatchDeposit, transfer_from
      <4>2. Owner # Bank /\ game_amount[s] \in Nat
        BY DEF TypeOK
      <4> QED
        BY <4>1, <4>2 DEF Move, TypeOK
    <3>4. wealth' = [wealth EXCEPT ![Owner] = balance[Owner] - game_amount[s]]
      BY <2>0, <3>3
    <3> QED
      BY <2>4, <3>2, <3>4 DEF MatchDeposit, Ledger!Cover
  <2>5. ASSUME NEW c \in Accounts, NEW s \in Sessions, NEW d \in Seeds, Settle(c, s, d)
        PROVE  Ledger!PayOut(s)
    <3>1. /\ Held(s)' = 0 /\ Held(s) = 2 * game_amount[s]
          /\ \A t \in Sessions \ {s} : Held(t)' = Held(t)
      BY <2>5 DEF Settle, Held, TypeOK
    <3>2. HeldBy' = [HeldBy EXCEPT ![s] = 0] /\ HeldBy[s] = 2 * game_amount[s]
      BY <3>1, HeldUpdate DEF HeldBy
    <3> DEFINE w == Winner(s, d)
    <3>3. w \in {game_player[s], Owner} /\ w \in Accounts
      BY <2>5 DEF Settle, Winner, TypeOK
    <3>4. balance' = Move(Bank, w, 2 * game_amount[s])
      BY <2>5 DEF Settle, transfer
    <3> HIDE DEF w
    <3>5. \A a \in Accounts :
              balance'[a] = IF a = w THEN balance[w] + 2 * game_amount[s] ELSE balance[a]
      BY <3>3, <3>4 DEF Move, TypeOK
    <3>6. wealth' = [wealth EXCEPT ![w] = balance[w] + 2 * game_amount[s]]
      BY <2>0, <3>3, <3>5
    <3>7. wealth' = [wealth EXCEPT ![w] = @ + HeldBy[s]]
      BY <3>2, <3>3, <3>6
    <3> QED
      BY <2>5, <3>2, <3>3, <3>7 DEF Settle, Ledger!PayOut
  <2>6. ASSUME NEW c \in Accounts, Withdraw(c) PROVE UNCHANGED Ledger!vars
    <3>1. UNCHANGED vars
      BY <2>6 DEF Withdraw, NoCredit
    <3> QED
      BY <3>1 DEF vars, Ledger!vars, HeldBy, Held
  <2>7. CASE UNCHANGED vars
    BY <2>7 DEF vars, Ledger!vars, HeldBy, Held
  <2> QED
    BY <2>1, <2>2, <2>3, <2>4, <2>5, <2>6, <2>7 DEF Next, Ledger!Next
<1> QED
  BY <1>1, <1>2, TypeCorrect, Uncredited, PTL DEF Spec, ImplementsEscrow, Ledger!Spec
=============================================================================
