-------------------------- MODULE E2eDriversProofs --------------------------
(***************************************************************************)
(* Proofs about E2eDrivers for any number of rounds, attempts, polls and     *)
(* blocks of others.                                                        *)
(***************************************************************************)
EXTENDS E2eDrivers, TLAPS

-----------------------------------------------------------------------------
(* The scripts: which steps they are made of. *)

(* What a messages check may lead to when it sees "seen": it goes on without a
   failure only where the program tolerates that. *)
Excused(any, seen) == {b \in SUBSET any : "ignore" \in b => seen \in Tolerated}

(* Steps of a program that sends these kinds; "any" is what the failure of a
   step may lead to, "hard" what the failure of one that sends may. *)
Quiet(kinds, any, hard) ==
    {Check(b) : b \in SUBSET any}
        \cup {Send(k, b) : k \in kinds \ {"proof"}, b \in SUBSET hard}
        \cup {Await(b, n, r) : b \in SUBSET any, n \in SUBSET any, r \in BOOLEAN}
        \cup {NextBlock, Prove}
        \cup {Messages(b, n) : b \in Excused(any, "absent"), n \in Excused(any, "differs")}
        \cup {Submit(v, r) : v \in IF "proof" \in kinds THEN {"rpc", "gateway", "either"} ELSE {},
                             r \in BOOLEAN}
        \cup {ReadCounter(b) : b \in SUBSET (any \ {"ignore"})}

Loud(kinds, any, hard) == Quiet(kinds, any, hard) \cup {Nonce("latest"), Nonce("reference")}

(* Two parts of a script, one after the other. *)
LEMMA Joined ==
    ASSUME NEW S, NEW s \in Seq(S), NEW t \in Seq(S)
    PROVE  /\ s \o t \in Seq(S)
           /\ Len(s \o t) = Len(s) + Len(t)
           /\ \A i \in 1..Len(s) : (s \o t)[i] = s[i]
           /\ \A i \in 1..Len(t) : (s \o t)[Len(s) + i] = t[i]
OBVIOUS

(* An element of a sequence. *)
LEMMA ElementOf == ASSUME NEW S, NEW s \in Seq(S), NEW i \in 1..Len(s) PROVE s[i] \in S
OBVIOUS

(* The steps are steps of such a program. *)
LEMMA Members ==
    ASSUME NEW kinds, NEW any, NEW hard
    PROVE  LET Q == Quiet(kinds, any, hard) IN
           /\ \A b \in SUBSET any : Check(b) \in Q
           /\ \A b \in SUBSET (any \ {"ignore"}) : ReadCounter(b) \in Q
           /\ \A k \in kinds \ {"proof"}, b \in SUBSET hard : Send(k, b) \in Q
           /\ \A b \in SUBSET any, n \in SUBSET any, r \in BOOLEAN : Await(b, n, r) \in Q
           /\ NextBlock \in Q /\ Prove \in Q
           /\ \A b \in Excused(any, "absent"), n \in Excused(any, "differs") : Messages(b, n) \in Q
           /\ "proof" \in kinds =>
                  \A v \in {"rpc", "gateway", "either"}, r \in BOOLEAN : Submit(v, r) \in Q
           /\ Q \subseteq Loud(kinds, any, hard)
BY DEF Quiet, Loud

(* Parts of up to three steps. *)
LEMMA Parts ==
    ASSUME NEW S PROVE /\ <<>> \in Seq(S)
                       /\ \A a \in S : <<a>> \in Seq(S)
                       /\ \A a, b \in S : <<a, b>> \in Seq(S)
                       /\ \A a, b, c \in S : <<a, b, c>> \in Seq(S)
OBVIOUS

Sends(s) == s.op \in {"send", "submit"}

(* A receipt without which the program does not go on. *)
Strict(s) == s.op = "await" /\ (s.bad \cup s.no_hash) \cap {"fail", "ignore"} = {}

(* A transaction of this kind is sent and its receipt insisted on. *)
HasPair(s, k) ==
    \E i \in 1..Len(s) : /\ i > 1 /\ Strict(s[i])
                         /\ Sends(s[i - 1]) /\ s[i - 1].kind = k

HasProve(s) == \E i \in 1..Len(s) : s[i].op = "prove"
HasMessages(s) == \E i \in 1..Len(s) : s[i].op = "messages"

(* What a part has, the script has. *)
LEMMA HasPart ==
    ASSUME NEW S, NEW s \in Seq(S), NEW t \in Seq(S)
    PROVE  /\ \A k : HasPair(s, k) \/ HasPair(t, k) => HasPair(s \o t, k)
           /\ HasProve(s) \/ HasProve(t) => HasProve(s \o t)
           /\ HasMessages(s) \/ HasMessages(t) => HasMessages(s \o t)
<1>0. /\ Len(s) \in Nat /\ Len(t) \in Nat /\ Len(s \o t) = Len(s) + Len(t)
      /\ \A i \in 1..Len(s) : (s \o t)[i] = s[i]
      /\ \A i \in 1..Len(t) : (s \o t)[Len(s) + i] = t[i]
  BY Joined
<1>1. ASSUME NEW k, HasPair(s, k) PROVE HasPair(s \o t, k)
  <2>1. PICK i \in 1..Len(s) : i > 1 /\ Strict(s[i]) /\ Sends(s[i - 1]) /\ s[i - 1].kind = k
    BY <1>1 DEF HasPair
  <2>2. (s \o t)[i] = s[i] /\ (s \o t)[i - 1] = s[i - 1] /\ i \in 1..Len(s \o t)
    BY <1>0, <2>1
  <2> QED
    BY <2>1, <2>2 DEF HasPair
<1>2. ASSUME NEW k, HasPair(t, k) PROVE HasPair(s \o t, k)
  <2>1. PICK i \in 1..Len(t) : i > 1 /\ Strict(t[i]) /\ Sends(t[i - 1]) /\ t[i - 1].kind = k
    BY <1>2 DEF HasPair
  <2> DEFINE j == Len(s) + i
  <2>2. (s \o t)[j] = t[i] /\ (s \o t)[j - 1] = t[i - 1] /\ j \in 1..Len(s \o t) /\ j > 1
    <3>1. i - 1 \in 1..Len(t) /\ j - 1 = Len(s) + (i - 1)
      BY <1>0, <2>1
    <3> QED
      BY <1>0, <2>1, <3>1
  <2> QED
    BY <2>1, <2>2 DEF HasPair
<1>3. ASSUME HasProve(s) PROVE HasProve(s \o t)
  <2>1. PICK i \in 1..Len(s) : s[i].op = "prove"
    BY <1>3 DEF HasProve
  <2>2. (s \o t)[i] = s[i] /\ i \in 1..Len(s \o t)
    BY <1>0, <2>1
  <2> QED
    BY <2>1, <2>2 DEF HasProve
<1>4. ASSUME HasProve(t) PROVE HasProve(s \o t)
  <2>1. PICK i \in 1..Len(t) : t[i].op = "prove"
    BY <1>4 DEF HasProve
  <2>2. (s \o t)[Len(s) + i] = t[i] /\ Len(s) + i \in 1..Len(s \o t)
    BY <1>0, <2>1
  <2> QED
    BY <2>1, <2>2 DEF HasProve
<1>5. ASSUME HasMessages(s) PROVE HasMessages(s \o t)
  <2>1. PICK i \in 1..Len(s) : s[i].op = "messages"
    BY <1>5 DEF HasMessages
  <2>2. (s \o t)[i] = s[i] /\ i \in 1..Len(s \o t)
    BY <1>0, <2>1
  <2> QED
    BY <2>1, <2>2 DEF HasMessages
<1>6. ASSUME HasMessages(t) PROVE HasMessages(s \o t)
  <2>1. PICK i \in 1..Len(t) : t[i].op = "messages"
    BY <1>6 DEF HasMessages
  <2>2. (s \o t)[Len(s) + i] = t[i] /\ Len(s) + i \in 1..Len(s \o t)
    BY <1>0, <2>1
  <2> QED
    BY <2>1, <2>2 DEF HasMessages
<1> QED
  BY <1>1, <1>2, <1>3, <1>4, <1>5, <1>6

(* What the steps say. *)
LEMMA Shape ==
    ASSUME NEW kinds, NEW any, NEW hard, NEW s \in Loud(kinds, any, hard)
    PROVE  /\ s \in Quiet(kinds, any, hard) => s.op # "nonce"
           /\ s.op = "nonce" => s.bad = {"bail"}
           /\ s.op = "send" => s.kind \in kinds \ {"proof"} /\ s.bad \subseteq hard
           /\ s.op = "submit" => s.kind = "proof" /\ "proof" \in kinds /\ s.bad = {"stop"}
           /\ s.op = "prove" => s.bad = {"stop", "bail"}
           /\ s.op \in {"check", "await", "messages", "counter"} => s.bad \subseteq any
           /\ s.op \in {"await", "messages"} => s.no_hash \subseteq any
           /\ s.op = "counter" => "ignore" \notin s.bad
           /\ s.op = "messages" => /\ s.bad \in Excused(any, "absent")
                                   /\ s.no_hash \in Excused(any, "differs")
<1>1. CASE \E b \in SUBSET any : s = Check(b)
  BY <1>1 DEF Check, Step
<1>2. CASE \E k \in kinds \ {"proof"}, b \in SUBSET hard : s = Send(k, b)
  BY <1>2 DEF Send, Step
<1>3. CASE \E b \in SUBSET any, n \in SUBSET any, r \in BOOLEAN : s = Await(b, n, r)
  BY <1>3 DEF Await, Step
<1>4. CASE s = NextBlock
  BY <1>4 DEF NextBlock, Step
<1>5. CASE s = Prove
  BY <1>5 DEF Prove, Step
<1>6. CASE \E b \in Excused(any, "absent"), n \in Excused(any, "differs") : s = Messages(b, n)
  <2>1. PICK b \in Excused(any, "absent"), n \in Excused(any, "differs") : s = Messages(b, n)
    BY <1>6
  <2>2. b \subseteq any /\ n \subseteq any
    BY DEF Excused
  <2>3. s.op = "messages" /\ s.bad = b /\ s.no_hash = n
    BY <2>1 DEF Messages, Step
  <2> QED
    BY <2>2, <2>3
<1>7. CASE \E v \in IF "proof" \in kinds THEN {"rpc", "gateway", "either"} ELSE {},
              r \in BOOLEAN : s = Submit(v, r)
  BY <1>7 DEF Submit, Step
<1>8. CASE \E b \in SUBSET (any \ {"ignore"}) : s = ReadCounter(b)
  BY <1>8 DEF ReadCounter, Step
<1>9. CASE s \notin Quiet(kinds, any, hard)
  <2>1. s = Nonce("latest") \/ s = Nonce("reference")
    BY <1>9 DEF Loud
  <2> QED
    BY <1>9, <2>1 DEF Nonce, Step
<1>10. s \in Quiet(kinds, any, hard) =>
         \/ \E b \in SUBSET any : s = Check(b)
         \/ \E k \in kinds \ {"proof"}, b \in SUBSET hard : s = Send(k, b)
         \/ \E b \in SUBSET any, n \in SUBSET any, r \in BOOLEAN : s = Await(b, n, r)
         \/ s = NextBlock \/ s = Prove
         \/ \E b \in Excused(any, "absent"), n \in Excused(any, "differs") : s = Messages(b, n)
         \/ \E v \in IF "proof" \in kinds THEN {"rpc", "gateway", "either"} ELSE {},
               r \in BOOLEAN : s = Submit(v, r)
         \/ \E b \in SUBSET (any \ {"ignore"}) : s = ReadCounter(b)
  BY DEF Quiet
<1> QED
  BY <1>1, <1>2, <1>3, <1>4, <1>5, <1>6, <1>7, <1>8, <1>9, <1>10

(* The n-th step of a script asks for the latest nonce, and no other does. *)
NonceAt(s, n) == \A i \in 1..Len(s) : s[i].op = "nonce" => i = n /\ s[i].kind = "latest"

(* A part of quiet steps asks for no nonce. *)
LEMMA NonceKept ==
    ASSUME NEW L, NEW Q, Q \subseteq L, \A q \in Q : q.op # "nonce",
           NEW s \in Seq(L), NEW t \in Seq(Q), NEW n \in Nat, NonceAt(s, n)
    PROVE  NonceAt(s \o t, n)
<1> DEFINE u == s \o t
<1>1. /\ Len(s) \in Nat /\ Len(t) \in Nat /\ Len(u) = Len(s) + Len(t)
      /\ \A i \in 1..Len(s) : u[i] = s[i]
      /\ \A i \in 1..Len(t) : u[Len(s) + i] = t[i] /\ t[i] \in Q
  <2>1. t \in Seq(L)
    OBVIOUS
  <2>2. \A i \in 1..Len(t) : t[i] \in Q
    OBVIOUS
  <2> QED
    BY <2>1, <2>2, Joined
<1> HIDE DEF u
<1>2. ASSUME NEW i \in 1..Len(u), u[i].op = "nonce" PROVE i = n /\ u[i].kind = "latest"
  <2>1. CASE i \in 1..Len(s)
    <3>1. u[i] = s[i]
      BY <1>1, <2>1
    <3>2. s[i].op = "nonce" => i = n /\ s[i].kind = "latest"
      BY <2>1 DEF NonceAt
    <3> QED
      BY <1>2, <3>1, <3>2
  <2>2. CASE i \notin 1..Len(s)
    <3>1. i - Len(s) \in 1..Len(t) /\ i = Len(s) + (i - Len(s))
      BY <1>1, <2>2
    <3>2. u[i] \in Q
      BY <1>1, <3>1
    <3> QED
      BY <1>2, <3>2
  <2> QED
    BY <2>1, <2>2
<1>3. NonceAt(u, n)
  BY <1>2 DEF NonceAt
<1> QED
  BY <1>3 DEF u

(* Construction begins with the nonce. *)
LEMMA NonceHere ==
    ASSUME NEW L, NEW Q, Q \subseteq L, \A q \in Q : q.op # "nonce", NEW a \in L, NEW b \in Q,
           a.kind = "latest", NEW s \in Seq(Q)
    PROVE  NonceAt(s \o <<a, b>>, Len(s) + 1)
<1> DEFINE t == <<a, b>>
           u == s \o t
<1>1. t \in Seq(L) /\ Len(t) = 2 /\ t[1] = a /\ t[2] = b /\ s \in Seq(L) /\ Len(s) \in Nat
  OBVIOUS
<1> HIDE DEF t
<1>2. Len(u) = Len(s) + 2 /\ u[Len(s) + 1] = a /\ u[Len(s) + 2] = b
      /\ \A i \in 1..Len(s) : u[i] = s[i]
  <2>1. \A i \in 1..Len(t) : (s \o t)[Len(s) + i] = t[i]
    BY <1>1, Joined
  <2>2. u[Len(s) + 1] = t[1] /\ u[Len(s) + 2] = t[2]
    <3>1. 1 \in 1..Len(t) /\ 2 \in 1..Len(t)
      BY <1>1
    <3> HIDE DEF u
    <3>2. \A i \in 1..Len(t) : u[Len(s) + i] = t[i]
      BY <2>1 DEF u
    <3> QED
      BY <3>1, <3>2
  <2>3. Len(s \o t) = Len(s) + Len(t) /\ \A i \in 1..Len(s) : (s \o t)[i] = s[i]
    BY <1>1, Joined
  <2> QED
    BY <1>1, <2>2, <2>3
<1> HIDE DEF u
<1>3. ASSUME NEW i \in 1..Len(u), u[i].op = "nonce" PROVE i = Len(s) + 1 /\ u[i].kind = "latest"
  <2>1. i \notin 1..Len(s)
    BY <1>2, <1>3
  <2>2. i # Len(s) + 2
    BY <1>2, <1>3
  <2>3. i = Len(s) + 1
    BY <1>1, <1>2, <2>1, <2>2
  <2> QED
    BY <1>2, <2>3
<1>4. NonceAt(u, Len(s) + 1)
  BY <1>3 DEF NonceAt
<1> QED
  BY <1>4 DEF u, t

(* The flow that the messages, coin-flip and settlement programs share. *)
FlowScript(head, verify, rest) ==
    head \o <<Nonce("latest"), Check({"bail"})>> \o <<Prove>> \o verify \o rest

(* It asks for the nonce once and has what its parts have. *)
LEMMA Flow ==
    ASSUME NEW kinds, NEW any, NEW hard, "bail" \in any,
           NEW head \in Seq(Quiet(kinds, any, hard)), NEW verify \in Seq(Quiet(kinds, any, hard)),
           NEW rest \in Seq(Quiet(kinds, any, hard))
    PROVE  LET s == FlowScript(head, verify, rest) IN
           /\ s \in Seq(Loud(kinds, any, hard))
           /\ \E n \in Nat : NonceAt(s, n)
           /\ HasProve(s)
           /\ HasMessages(verify) => HasMessages(s)
           /\ \A k : HasPair(head, k) \/ HasPair(rest, k) => HasPair(s, k)
<1> DEFINE Q == Quiet(kinds, any, hard)
           L == Loud(kinds, any, hard)
           construct == <<Nonce("latest"), Check({"bail"})>>
           n == Len(head) + 1
           one == head \o construct
           two == one \o <<Prove>>
           three == two \o verify
<1>0. n \in Nat
  OBVIOUS
<1>1. Q \subseteq L /\ Nonce("latest") \in L /\ Check({"bail"}) \in Q /\ Prove \in Q
  BY Members DEF Loud
<1>2. Nonce("latest").kind = "latest"
  BY DEF Nonce, Step
<1>3. \A s \in Q : s.op # "nonce"
  BY <1>1, Shape
<1>4. head \in Seq(Q) /\ verify \in Seq(Q) /\ rest \in Seq(Q)
  OBVIOUS
<1> HIDE DEF Q, L
<1>5. <<Prove>> \in Seq(Q) /\ construct \in Seq(L)
  BY <1>1, Parts
<1>6. head \in Seq(L) /\ verify \in Seq(L) /\ rest \in Seq(L) /\ <<Prove>> \in Seq(L)
  BY <1>1, <1>4, <1>5
<1>7. NonceAt(one, n)
  BY <1>1, <1>2, <1>3, <1>4, NonceHere
<1> HIDE DEF n, construct
<1>18. FlowScript(head, verify, rest) = three \o rest
  BY DEF FlowScript, construct
<1>8. one \in Seq(L)
  BY <1>5, <1>6, Joined
<1> HIDE DEF one
<1>9. two \in Seq(L)
  BY <1>6, <1>8, Joined
<1> HIDE DEF two
<1>10. three \in Seq(L)
  BY <1>6, <1>9, Joined
<1> HIDE DEF three
<1>11. NonceAt(two, n)
  BY <1>0, <1>1, <1>3, <1>5, <1>7, <1>8, NonceKept DEF two
<1>12. NonceAt(three, n)
  BY <1>0, <1>1, <1>3, <1>4, <1>9, <1>11, NonceKept DEF three
<1>13. NonceAt(three \o rest, n)
  BY <1>0, <1>1, <1>3, <1>4, <1>10, <1>12, NonceKept
<1>14. HasProve(three \o rest)
  <2>1. HasProve(<<Prove>>)
    <3>1. Prove.op = "prove"
      BY DEF Prove, Step
    <3>2. <<Prove>>[1] = Prove /\ 1 \in 1..Len(<<Prove>>)
      OBVIOUS
    <3> QED
      BY <3>1, <3>2 DEF HasProve
  <2>2. HasProve(two)
    BY <1>6, <1>8, <2>1, HasPart DEF two
  <2>3. HasProve(three)
    BY <1>6, <1>9, <2>2, HasPart DEF three
  <2> QED
    BY <1>6, <1>10, <2>3, HasPart
<1>15. ASSUME NEW k, HasPair(head, k) PROVE HasPair(three \o rest, k)
  <2>1. HasPair(one, k)
    BY <1>5, <1>6, <1>15, HasPart DEF one
  <2>2. HasPair(two, k)
    BY <1>6, <1>8, <2>1, HasPart DEF two
  <2>3. HasPair(three, k)
    BY <1>6, <1>9, <2>2, HasPart DEF three
  <2> QED
    BY <1>6, <1>10, <2>3, HasPart
<1>16. ASSUME NEW k, HasPair(rest, k) PROVE HasPair(three \o rest, k)
  BY <1>6, <1>10, <1>16, HasPart
<1>17. three \o rest \in Seq(L)
  BY <1>6, <1>10, Joined
<1>19. ASSUME HasMessages(verify) PROVE HasMessages(three \o rest)
  <2>1. HasMessages(three)
    BY <1>6, <1>9, <1>19, HasPart DEF three
  <2> QED
    BY <1>6, <1>10, <2>1, HasPart
<1> QED
  BY <1>0, <1>13, <1>14, <1>15, <1>16, <1>17, <1>18, <1>19 DEF L

Any == {"stop", "bail", "fail", "ignore"}
Hard == {"stop", "bail"}

(* The messages and coin-flip programs differ in what a lost declaration leads to,
   in how they check the messages and in how they submit. *)
ShortHead(receipt) ==
    <<Check({"bail"})>> \o <<Check({"stop"})>> \o <<Check({"stop", "bail"})>>
        \o <<Check({"bail"}), Send("declare", {"stop", "bail"}), Await(receipt, {"ignore"}, FALSE)>>
        \o <<Send("deploy", {"stop", "bail"})>> \o <<Await({"stop"}, {"stop"}, TRUE)>>

ShortRest(bad, via, resend) ==
    <<Check(bad), Submit(via, resend)>> \o <<Await({"stop"}, {}, FALSE)>>

(* The steps of these programs, for kinds that they send. *)
LEMMA ShortSteps ==
    ASSUME NEW kinds, {"declare", "deploy"} \subseteq kinds, NEW receipt \in {{"bail"}, {"ignore"}}
    PROVE  LET Q == Quiet(kinds, Any, Hard) IN
           /\ Check({"bail"}) \in Q /\ Check({"stop"}) \in Q /\ Check({"stop", "bail"}) \in Q
           /\ Send("declare", {"stop", "bail"}) \in Q /\ Send("deploy", {"stop", "bail"}) \in Q
           /\ Await(receipt, {"ignore"}, FALSE) \in Q /\ Await({"stop"}, {"stop"}, TRUE) \in Q
           /\ Await({"stop"}, {}, FALSE) \in Q
<1>1. /\ {"bail"} \in SUBSET Any /\ {"stop"} \in SUBSET Any /\ {"stop", "bail"} \in SUBSET Any
      /\ {"ignore"} \in SUBSET Any /\ {} \in SUBSET Any /\ receipt \in SUBSET Any
      /\ {"stop", "bail"} \in SUBSET Hard
  BY DEF Any, Hard
<1>2. "declare" \in kinds \ {"proof"} /\ "deploy" \in kinds \ {"proof"}
  OBVIOUS
<1>3. TRUE \in BOOLEAN /\ FALSE \in BOOLEAN
  OBVIOUS
<1> QED
  BY <1>1, <1>2, <1>3, Members

(* They insist on the deployment. *)
LEMMA ShortHeadSteps ==
    ASSUME NEW kinds, {"declare", "deploy"} \subseteq kinds, NEW receipt \in {{"bail"}, {"ignore"}}
    PROVE  /\ ShortHead(receipt) \in Seq(Quiet(kinds, Any, Hard))
           /\ HasPair(ShortHead(receipt), "deploy")
<1> DEFINE Q == Quiet(kinds, Any, Hard)
           s == ShortHead(receipt)
           g == Send("deploy", {"stop", "bail"})
           h == Await({"stop"}, {"stop"}, TRUE)
<1>1. s \in Seq(Q) /\ Len(s) = 8 /\ s[7] = g /\ s[8] = h
  <2> DEFINE a == Check({"bail"})
             b == Check({"stop"})
             c == Check({"stop", "bail"})
             d == Send("declare", {"stop", "bail"})
             e == Await(receipt, {"ignore"}, FALSE)
             u == <<a>> \o <<b>> \o <<c>> \o <<a, d, e>> \o <<g>> \o <<h>>
  <2>1. a \in Q /\ b \in Q /\ c \in Q /\ d \in Q /\ e \in Q /\ g \in Q /\ h \in Q
    BY ShortSteps
  <2>2. s = u
    BY DEF ShortHead
  <2> HIDE DEF Q, s, a, b, c, d, e, g, h
  <2>3. u \in Seq(Q) /\ Len(u) = 8 /\ u[7] = g /\ u[8] = h
    BY <2>1
  <2> HIDE DEF u
  <2> QED
    BY <2>2, <2>3
<1>2. g.op = "send" /\ g.kind = "deploy" /\ h.op = "await" /\ h.bad = {"stop"} /\ h.no_hash = {"stop"}
  BY DEF Send, Await, Step
<1> HIDE DEF s, g, h
<1>3. Sends(g) /\ g.kind = "deploy" /\ Strict(h)
  BY <1>2 DEF Sends, Strict
<1>4. HasPair(s, "deploy")
  <2>1. 8 \in 1..Len(s) /\ 8 > 1 /\ 8 - 1 = 7
    BY <1>1
  <2> QED
    BY <1>1, <1>3, <2>1 DEF HasPair
<1> QED
  BY <1>1, <1>4 DEF s

(* They insist on the proof. *)
LEMMA ShortRestSteps ==
    ASSUME NEW kinds, {"declare", "deploy", "proof"} \subseteq kinds,
           NEW bad \in {{"bail"}, {"stop", "bail"}},
           NEW via \in {"rpc", "gateway", "either"}, NEW resend \in BOOLEAN
    PROVE  /\ ShortRest(bad, via, resend) \in Seq(Quiet(kinds, Any, Hard))
           /\ HasPair(ShortRest(bad, via, resend), "proof")
<1> DEFINE Q == Quiet(kinds, Any, Hard)
           s == ShortRest(bad, via, resend)
           g == Submit(via, resend)
           h == Await({"stop"}, {}, FALSE)
<1>1. s \in Seq(Q) /\ Len(s) = 3 /\ s[2] = g /\ s[3] = h
  <2>1. g \in Q
    BY Members
  <2>2. Check(bad) \in Q /\ h \in Q
    BY ShortSteps
  <2> DEFINE a == Check(bad)
             u == <<a, g>> \o <<h>>
  <2>3. s = u
    BY DEF ShortRest
  <2> HIDE DEF Q, s, a, g, h
  <2>4. u \in Seq(Q) /\ Len(u) = 3 /\ u[2] = g /\ u[3] = h
    BY <2>1, <2>2 DEF a
  <2> HIDE DEF u
  <2> QED
    BY <2>3, <2>4
<1>2. g.op = "submit" /\ g.kind = "proof" /\ h.op = "await" /\ h.bad = {"stop"} /\ h.no_hash = {}
  BY DEF Submit, Await, Step
<1> HIDE DEF s, g, h
<1>3. Sends(g) /\ g.kind = "proof" /\ Strict(h)
  BY <1>2 DEF Sends, Strict
<1>4. HasPair(s, "proof")
  <2>1. 3 \in 1..Len(s) /\ 3 > 1 /\ 3 - 1 = 2
    BY <1>1
  <2> QED
    BY <1>1, <1>3, <2>1 DEF HasPair
<1> QED
  BY <1>1, <1>4 DEF s

(* These programs send what they send, once each, and insist on it. *)
LEMMA ShortFlow ==
    ASSUME NEW kinds, {"declare", "deploy"} \subseteq kinds, NEW receipt \in {{"bail"}, {"ignore"}},
           NEW messages \in Quiet(kinds, Any, Hard), messages.op = "messages",
           NEW rest \in Seq(Quiet(kinds, Any, Hard))
    PROVE  LET s == FlowScript(ShortHead(receipt), <<messages>>, rest) IN
           /\ s \in Seq(Loud(kinds, Any, Hard))
           /\ \E n \in Nat : NonceAt(s, n)
           /\ HasPair(s, "deploy") /\ HasMessages(s)
           /\ \A k : HasPair(rest, k) => HasPair(s, k)
<1> DEFINE head == ShortHead(receipt)
           verify == <<messages>>
<1>1. /\ head \in Seq(Quiet(kinds, Any, Hard)) /\ HasPair(head, "deploy")
      /\ verify \in Seq(Quiet(kinds, Any, Hard)) /\ "bail" \in Any
  BY ShortHeadSteps, Parts DEF Any
<1>4. HasMessages(verify)
  <2>1. verify[1] = messages /\ 1 \in 1..Len(verify)
    OBVIOUS
  <2> HIDE DEF verify
  <2> QED
    BY <2>1 DEF HasMessages
<1> HIDE DEF head, verify
<1> DEFINE s == FlowScript(head, verify, rest)
<1>2. /\ s \in Seq(Loud(kinds, Any, Hard))
      /\ \E n \in Nat : NonceAt(s, n)
      /\ \A k : HasPair(head, k) \/ HasPair(rest, k) => HasPair(s, k)
  <2>1. s \in Seq(Loud(kinds, Any, Hard))
    BY <1>1, Flow
  <2>2. \E n \in Nat : NonceAt(s, n)
    BY <1>1, Flow
  <2>3. ASSUME NEW k, HasPair(head, k) \/ HasPair(rest, k) PROVE HasPair(s, k)
    BY <1>1, <2>3, Flow
  <2> QED
    BY <2>1, <2>2, <2>3
<1> HIDE DEF s
<1>3. HasPair(s, "deploy") /\ \A k : HasPair(rest, k) => HasPair(s, k)
  BY <1>1, <1>2
<1>5. HasMessages(s)
  BY <1>1, <1>4, Flow DEF s
<1> QED
  BY <1>2, <1>3, <1>5 DEF head, verify, s

-----------------------------------------------------------------------------
(* The scripts of the programs. *)

(* What a program sends. *)
OwnKinds ==
    CASE driver = "health" -> IF abridged THEN {} ELSE {"declare", "deploy", "invoke"}
      [] driver = "settlement" ->
             {"declare", "deploy", "declare_bank", "deploy_bank", "approve", "transfer",
              "deposit", "match_deposit"} \cup (IF abridged THEN {} ELSE {"proof", "settle"})
      [] OTHER -> {"declare", "deploy"} \cup (IF abridged THEN {} ELSE {"proof"})

ShortDrivers == {"counter_messages", "messages", "coinflip"}

(* The messages and coin-flip programs, up to their differences. *)
LEMMA ShortDriver ==
    ASSUME driver \in ShortDrivers, abridged \in BOOLEAN,
           NEW receipt \in {{"bail"}, {"ignore"}},
           NEW bad \in Excused(Any, "absent"), NEW no_hash \in Excused(Any, "differs"),
           NEW via \in {"rpc", "gateway", "either"}, NEW resend \in BOOLEAN
    PROVE  LET rest == IF abridged THEN <<>> ELSE ShortRest({"stop", "bail"}, via, resend)
               s == FlowScript(ShortHead(receipt), <<Messages(bad, no_hash)>>, rest)
           IN  /\ s \in Seq(Loud(OwnKinds, Any, Hard))
               /\ \E n \in Nat : NonceAt(s, n)
               /\ HasPair(s, "deploy") /\ (~abridged => HasPair(s, "proof"))
               /\ HasMessages(s)
<1> DEFINE rest == IF abridged THEN <<>> ELSE ShortRest({"stop", "bail"}, via, resend)
           messages == Messages(bad, no_hash)
           s == FlowScript(ShortHead(receipt), <<messages>>, rest)
           Q == Quiet(OwnKinds, Any, Hard)
<1>1. {"declare", "deploy"} \subseteq OwnKinds /\ (~abridged => "proof" \in OwnKinds)
  BY DEF OwnKinds, ShortDrivers
<1>2. messages \in Q
  BY Members
<1>7. messages.op = "messages"
  BY DEF Messages, Step
<1>3. rest \in Seq(Q) /\ (~abridged => HasPair(rest, "proof"))
  <2>1. CASE abridged
    BY <2>1, Parts
  <2>2. CASE ~abridged
    <3>1. rest = ShortRest({"stop", "bail"}, via, resend)
      BY <2>2
    <3>2. {"declare", "deploy", "proof"} \subseteq OwnKinds /\ {"stop", "bail"} \in {{"bail"}, {"stop", "bail"}}
      BY <1>1, <2>2
    <3> HIDE DEF rest
    <3> QED
      BY <3>1, <3>2, ShortRestSteps
  <2> QED
    BY <2>1, <2>2
<1> HIDE DEF rest, messages
<1>4. s \in Seq(Loud(OwnKinds, Any, Hard)) /\ \E n \in Nat : NonceAt(s, n)
  <2>1. s \in Seq(Loud(OwnKinds, Any, Hard))
    BY <1>1, <1>2, <1>3, <1>7, ShortFlow
  <2>2. \E n \in Nat : NonceAt(s, n)
    BY <1>1, <1>2, <1>3, <1>7, ShortFlow
  <2> QED
    BY <2>1, <2>2
<1>5. HasPair(s, "deploy")
  BY <1>1, <1>2, <1>3, <1>7, ShortFlow
<1>6. HasPair(rest, "proof") => HasPair(s, "proof")
  BY <1>1, <1>2, <1>3, <1>7, ShortFlow
<1>8. HasMessages(s)
  BY <1>1, <1>2, <1>3, <1>7, ShortFlow
<1> QED
  BY <1>3, <1>4, <1>5, <1>6, <1>8 DEF s, rest, messages

(* What the scripts of these programs have. *)
LEMMA ShortScripts ==
    ASSUME driver \in ShortDrivers, abridged \in BOOLEAN
    PROVE  /\ Script \in Seq(Loud(OwnKinds, Any, Hard))
           /\ \E n \in Nat : NonceAt(Script, n)
           /\ HasPair(Script, "deploy") /\ (~abridged => HasPair(Script, "proof"))
           /\ HasMessages(Script)
<1>0. /\ {"stop", "bail"} \in Excused(Any, "absent") /\ {"stop", "bail", "fail"} \in Excused(Any, "absent")
      /\ {"fail"} \in Excused(Any, "differs")
      /\ driver # "coinflip" => {"ignore"} \in Excused(Any, "differs")
  <2>1. driver # "coinflip" => "differs" \in Tolerated
    BY DEF Tolerated, ShortDrivers
  <2> QED
    BY <2>1 DEF Any, Excused
<1> DEFINE Rest(via, resend) == IF abridged THEN <<>> ELSE ShortRest({"stop", "bail"}, via, resend)
<1>1. CASE driver = "counter_messages"
  <2>1. Script = FlowScript(ShortHead({"ignore"}), <<Messages({"stop", "bail"}, {"ignore"})>>,
                            Rest("either", TRUE))
    BY <1>1 DEF Script, CounterMsgScript, CounterMsgPrereqs, CounterMsgImport, CounterMsgCompile,
         CounterMsgDeclare, CounterMsgDeploy, CounterMsgDeployed, CounterMsgConstruct, CounterMsgProve,
         CounterMsgVerify, CounterMsgSubmit, CounterMsgIncluded, FlowScript, ShortHead, ShortRest
  <2> QED
    BY <1>0, <1>1, <2>1, ShortDriver
<1>2. CASE driver = "messages"
  <2>1. Script = FlowScript(ShortHead({"ignore"}), <<Messages({"stop", "bail"}, {"ignore"})>>,
                            Rest("either", TRUE))
    BY <1>2 DEF Script, MessagesScript, MessagesPrereqs, MessagesImport, MessagesCompile,
         MessagesDeclare, MessagesDeploy, MessagesDeployed, MessagesConstruct, MessagesProve,
         MessagesVerify, MessagesSubmit, MessagesIncluded, FlowScript, ShortHead, ShortRest
  <2> QED
    BY <1>0, <1>2, <2>1, ShortDriver
<1>3. CASE driver = "coinflip"
  <2>1. Script = FlowScript(ShortHead({"bail"}), <<Messages({"stop", "bail", "fail"}, {"fail"})>>,
                            Rest("rpc", FALSE))
    BY <1>3 DEF Script, CoinflipScript, CoinflipPrereqs, CoinflipImport, CoinflipCompile,
         CoinflipDeclare, CoinflipDeploy, CoinflipDeployed, CoinflipConstruct, CoinflipProve,
         CoinflipVerify, CoinflipSubmit, CoinflipIncluded, FlowScript, ShortHead, ShortRest
  <2> QED
    BY <1>0, <1>3, <2>1, ShortDriver
<1> QED
  BY <1>1, <1>2, <1>3 DEF ShortDrivers

(* An invocation by sncast_invoke insists on its receipt. *)
LEMMA InvokeSteps ==
    ASSUME NEW kinds, NEW k \in kinds \ {"proof"}
    PROVE  sncast_invoke(k) \in Seq(Quiet(kinds, Any, Hard)) /\ HasPair(sncast_invoke(k), k)
<1> DEFINE Q == Quiet(kinds, Any, Hard)
           s == sncast_invoke(k)
           g == Send(k, {"bail"})
           h == Await({"bail"}, {"bail"}, FALSE)
<1>1. g \in Q /\ h \in Q
  <2>1. {"bail"} \in SUBSET Any /\ {"bail"} \in SUBSET Hard /\ FALSE \in BOOLEAN
    BY DEF Any, Hard
  <2> QED
    BY <2>1, Members
<1>2. g.op = "send" /\ g.kind = k /\ h.op = "await" /\ h.bad = {"bail"} /\ h.no_hash = {"bail"}
  BY DEF Send, Await, Step
<1>3. s = <<g, h>>
  BY DEF sncast_invoke
<1> HIDE DEF Q, s, g, h
<1>4. Sends(g) /\ g.kind = k /\ Strict(h)
  BY <1>2 DEF Sends, Strict
<1>5. s \in Seq(Q) /\ Len(s) = 2 /\ s[1] = g /\ s[2] = h
  BY <1>1, <1>3
<1>6. HasPair(s, k)
  <2>1. 2 \in 1..Len(s) /\ 2 > 1 /\ 2 - 1 = 1
    BY <1>5
  <2> QED
    BY <1>4, <1>5, <2>1 DEF HasPair
<1> QED
  BY <1>5, <1>6 DEF s, Q

(* A deployment whose receipts are not insisted on. *)
LEMMA DeploySteps ==
    ASSUME NEW kinds, NEW k \in kinds \ {"proof"}, NEW m \in kinds \ {"proof"}
    PROVE  declare_and_deploy(k, m) \in Seq(Quiet(kinds, Any, Hard))
<1> DEFINE Q == Quiet(kinds, Any, Hard)
           f == Send(k, {"bail"})
           g == Send(m, {"bail"})
           h == Await({"ignore"}, {"ignore"}, FALSE)
<1>1. f \in Q /\ g \in Q /\ h \in Q
  <2>1. {"ignore"} \in SUBSET Any /\ {"bail"} \in SUBSET Hard /\ FALSE \in BOOLEAN
    BY DEF Any, Hard
  <2> QED
    BY <2>1, Members
<1>2. declare_and_deploy(k, m) = <<f, h, g, h>>
  BY DEF declare_and_deploy
<1> HIDE DEF Q, f, g, h
<1>3. <<f, h, g, h>> \in Seq(Q)
  BY <1>1
<1> QED
  BY <1>2, <1>3 DEF Q

(* The settlement program up to its construction of the proof transaction. *)
SettlementHead ==
    SettlementPrereqs \o SettlementImport \o SettlementCompile \o SettlementDeploy
        \o SettlementBank \o SettlementFund \o SettlementDeposit \o SettlementMatch

(* It insists on the funding and on the match. *)
LEMMA SettlementHeadSteps ==
    ASSUME driver = "settlement"
    PROVE  /\ SettlementHead \in Seq(Quiet(OwnKinds, Any, Hard))
           /\ HasPair(SettlementHead, "transfer") /\ HasPair(SettlementHead, "match_deposit")
<1> DEFINE Q == Quiet(OwnKinds, Any, Hard)
<1>1. /\ {"bail"} \in SUBSET Any /\ {"stop"} \in SUBSET Any /\ {"stop", "bail"} \in SUBSET Any
      /\ {} \in SUBSET Any /\ TRUE \in BOOLEAN
  BY DEF Any
<1>2. Check({"bail"}) \in Q /\ Check({"stop"}) \in Q /\ Check({"stop", "bail"}) \in Q
      /\ Await({"bail"}, {}, TRUE) \in Q
  BY <1>1, Members
<1>3. {"declare", "deploy", "declare_bank", "deploy_bank", "approve", "transfer", "deposit",
       "match_deposit"} \subseteq OwnKinds \ {"proof"}
  BY DEF OwnKinds
<1>4. SettlementPrereqs \in Seq(Q) /\ SettlementImport \in Seq(Q) /\ SettlementCompile \in Seq(Q)
  BY <1>2, Parts DEF SettlementPrereqs, SettlementImport, SettlementCompile
<1>5. SettlementDeploy \in Seq(Q) /\ SettlementBank \in Seq(Q)
  BY <1>3, DeploySteps DEF SettlementDeploy, SettlementBank
<1>6. SettlementFund \in Seq(Q) /\ HasPair(SettlementFund, "transfer")
  <2>1. sncast_invoke("approve") \in Seq(Q) /\ sncast_invoke("transfer") \in Seq(Q)
        /\ HasPair(sncast_invoke("transfer"), "transfer")
    BY <1>3, InvokeSteps
  <2> HIDE DEF Q
  <2> QED
    BY <2>1, Joined, HasPart DEF SettlementFund
<1>7. SettlementDeposit \in Seq(Q)
  <2>1. sncast_invoke("deposit") \in Seq(Q) /\ <<Check({"bail"})>> \in Seq(Q)
    BY <1>2, <1>3, InvokeSteps, Parts
  <2> HIDE DEF Q
  <2> QED
    BY <2>1, Joined DEF SettlementDeposit
<1>8. SettlementMatch \in Seq(Q) /\ HasPair(SettlementMatch, "match_deposit")
  <2>1. sncast_invoke("match_deposit") \in Seq(Q) /\ <<Await({"bail"}, {}, TRUE)>> \in Seq(Q)
        /\ HasPair(sncast_invoke("match_deposit"), "match_deposit")
    BY <1>2, <1>3, InvokeSteps, Parts
  <2> HIDE DEF Q
  <2> QED
    BY <2>1, Joined, HasPart DEF SettlementMatch
<1> DEFINE one == SettlementPrereqs \o SettlementImport \o SettlementCompile \o SettlementDeploy
                      \o SettlementBank
           two == one \o SettlementFund
           three == two \o SettlementDeposit
<1> HIDE DEF Q
<1>9. one \in Seq(Q)
  BY <1>4, <1>5
<1> HIDE DEF one
<1>10. two \in Seq(Q) /\ HasPair(two, "transfer")
  BY <1>6, <1>9, Joined, HasPart
<1> HIDE DEF two
<1>11. three \in Seq(Q) /\ HasPair(three, "transfer")
  BY <1>7, <1>10, Joined, HasPart
<1> HIDE DEF three
<1>12. SettlementHead = three \o SettlementMatch
  BY DEF SettlementHead, three, two, one
<1>13. three \o SettlementMatch \in Seq(Q)
  BY <1>8, <1>11, Joined
<1>14. HasPair(three \o SettlementMatch, "transfer")
  BY <1>8, <1>11, HasPart
<1>15. HasPair(three \o SettlementMatch, "match_deposit")
  BY <1>8, <1>11, HasPart
<1> QED
  BY <1>12, <1>13, <1>14, <1>15 DEF Q

(* What the settlement program's script has. *)
LEMMA SettlementSteps ==
    ASSUME driver = "settlement", abridged \in BOOLEAN
    PROVE  /\ Script \in Seq(Loud(OwnKinds, Any, Hard))
           /\ \E n \in Nat : NonceAt(Script, n)
           /\ HasProve(Script) /\ HasMessages(Script)
           /\ HasPair(Script, "transfer") /\ HasPair(Script, "match_deposit")
           /\ ~abridged => HasPair(Script, "proof") /\ HasPair(Script, "settle")
<1> DEFINE Q == Quiet(OwnKinds, Any, Hard)
           full == ShortRest({"bail"}, "gateway", FALSE) \o sncast_invoke("settle")
                       \o <<Check({"fail"})>>
           rest == IF abridged THEN <<>> ELSE full
           verify == <<Messages({"ignore", "bail"}, {"fail"})>>
           s == FlowScript(SettlementHead, verify, rest)
<1>1. ASSUME ~abridged
      PROVE  full \in Seq(Q) /\ HasPair(full, "proof") /\ HasPair(full, "settle")
  <2> DEFINE a == ShortRest({"bail"}, "gateway", FALSE)
             b == sncast_invoke("settle")
             c == <<Check({"fail"})>>
  <2>1. {"declare", "deploy", "proof"} \subseteq OwnKinds /\ "settle" \in OwnKinds \ {"proof"}
    BY <1>1 DEF OwnKinds
  <2>2. a \in Seq(Q) /\ HasPair(a, "proof")
    BY <2>1, ShortRestSteps
  <2>3. b \in Seq(Q) /\ HasPair(b, "settle")
    BY <2>1, InvokeSteps
  <2>4. c \in Seq(Q)
    <3>1. {"fail"} \in SUBSET Any
      BY DEF Any
    <3>2. Check({"fail"}) \in Q
      BY <3>1, Members
    <3> QED
      BY <3>2, Parts
  <2> HIDE DEF Q, a, b, c
  <2>5. a \o b \in Seq(Q) /\ HasPair(a \o b, "proof") /\ HasPair(a \o b, "settle")
    BY <2>2, <2>3, Joined, HasPart
  <2> DEFINE ab == a \o b
  <2> HIDE DEF ab
  <2>6. ab \o c \in Seq(Q) /\ HasPair(ab \o c, "proof") /\ HasPair(ab \o c, "settle")
    BY <2>4, <2>5, Joined, HasPart DEF ab
  <2> QED
    BY <2>6 DEF ab, a, b, c
<1>2. rest \in Seq(Q) /\ (~abridged => HasPair(rest, "proof") /\ HasPair(rest, "settle"))
  <2> HIDE DEF full, Q
  <2> QED
    BY <1>1, Parts
<1>3. verify \in Seq(Q) /\ "bail" \in Any
  <2>0. "absent" \in Tolerated
    BY DEF Tolerated
  <2>1. {"ignore", "bail"} \in Excused(Any, "absent") /\ {"fail"} \in Excused(Any, "differs")
        /\ "bail" \in Any
    BY <2>0 DEF Any, Excused
  <2>2. Messages({"ignore", "bail"}, {"fail"}) \in Q
    BY <2>1, Members
  <2> QED
    BY <2>1, <2>2, Parts
<1>11. HasMessages(verify)
  <2> DEFINE m == Messages({"ignore", "bail"}, {"fail"})
  <2>1. m.op = "messages"
    BY DEF Messages, Step
  <2>2. verify = <<m>>
    OBVIOUS
  <2> HIDE DEF m, verify
  <2>3. verify[1] = m /\ 1 \in 1..Len(verify)
    BY <2>2
  <2> QED
    BY <2>1, <2>3 DEF HasMessages
<1>4. Script = s
  BY DEF Script, SettlementScript, SettlementHead, SettlementConstruct, SettlementProve,
         SettlementVerify, SettlementSubmit, SettlementIncluded, SettlementSettle, SettlementBalance,
         FlowScript, ShortRest
<1> HIDE DEF rest, verify
<1>5. s \in Seq(Loud(OwnKinds, Any, Hard))
  BY <1>2, <1>3, SettlementHeadSteps, Flow
<1>6. \E n \in Nat : NonceAt(s, n)
  BY <1>2, <1>3, SettlementHeadSteps, Flow
<1>7. HasProve(s)
  BY <1>2, <1>3, SettlementHeadSteps, Flow
<1>12. HasMessages(s)
  BY <1>2, <1>3, <1>11, SettlementHeadSteps, Flow
<1>8. \A k \in OwnKinds : HasPair(SettlementHead, k) \/ HasPair(rest, k) => HasPair(s, k)
  BY <1>2, <1>3, SettlementHeadSteps, Flow
<1>9. /\ {"transfer", "match_deposit"} \subseteq OwnKinds
      /\ ~abridged => {"proof", "settle"} \subseteq OwnKinds
  BY DEF OwnKinds
<1> HIDE DEF s
<1>10. /\ HasPair(s, "transfer") /\ HasPair(s, "match_deposit")
       /\ ~abridged => HasPair(s, "proof") /\ HasPair(s, "settle")
  BY <1>2, <1>8, <1>9, SettlementHeadSteps
<1> QED
  BY <1>4, <1>5, <1>6, <1>7, <1>10, <1>12

(* The health check goes on after a failed check and to its summary after a failed
   step of its flow. *)
Soft == {"fail", "skip", "ignore"}

(* What the health check's script has: no nonce is asked for. *)
LEMMA HealthSteps ==
    ASSUME driver = "health", abridged \in BOOLEAN
    PROVE  /\ Script \in Seq(Quiet(OwnKinds, Soft, {"skip"}))
           /\ ~abridged => HasPair(Script, "invoke")
<1> DEFINE Q == Quiet(OwnKinds, Soft, {"skip"})
           a == Check({"fail"})
           b == Check({"skip"})
           c == Send("declare", {"skip"})
           d == Send("deploy", {"skip"})
           e == Await({"skip"}, {"ignore"}, FALSE)
           n == NextBlock
           g == Send("invoke", {"skip"})
           h == Await({"skip"}, {"skip"}, FALSE)
           r == ReadCounter({"fail"})
           flow == <<b>> \o <<b>> \o <<c>> \o <<d>> \o <<e, n>> \o <<g>> \o <<h, n>> \o <<r>>
           checks == <<a>> \o <<a>> \o <<a>>
<1>1. /\ {"fail"} \in SUBSET Soft /\ {"skip"} \in SUBSET Soft /\ {"ignore"} \in SUBSET Soft
      /\ {"skip"} \in SUBSET {"skip"} /\ FALSE \in BOOLEAN /\ {"fail"} \in SUBSET (Soft \ {"ignore"})
  BY DEF Soft
<1>2. a \in Q /\ b \in Q /\ e \in Q /\ n \in Q /\ h \in Q /\ r \in Q
  BY <1>1, Members
<1>3. ASSUME ~abridged PROVE c \in Q /\ d \in Q /\ g \in Q
  <2>1. {"declare", "deploy", "invoke"} \subseteq OwnKinds \ {"proof"}
    BY <1>3 DEF OwnKinds
  <2> QED
    BY <1>1, <2>1, Members
<1>4. Script = checks \o IF abridged THEN <<>> ELSE flow
  BY DEF Script, HealthScript, check_rpc, check_balance, check_oz_class, HealthTools, HealthCompile,
         HealthDeclare, HealthDeploy, HealthDeployed, HealthInvoke, HealthInvoked, HealthCounter
<1>5. g.op = "send" /\ g.kind = "invoke" /\ h.op = "await" /\ h.bad = {"skip"} /\ h.no_hash = {"skip"}
  BY DEF Send, Await, Step
<1> HIDE DEF Q, a, b, c, d, e, n, g, h, r
<1>6. checks \in Seq(Q) /\ <<>> \in Seq(Q)
  BY <1>2
<1>7. Sends(g) /\ g.kind = "invoke" /\ Strict(h)
  BY <1>5 DEF Sends, Strict
<1>8. ASSUME ~abridged PROVE flow \in Seq(Q) /\ HasPair(flow, "invoke")
  <2>1. flow \in Seq(Q) /\ Len(flow) = 10 /\ flow[7] = g /\ flow[8] = h
    BY <1>2, <1>3, <1>8
  <2>2. 8 \in 1..Len(flow) /\ 8 > 1 /\ 8 - 1 = 7
    BY <2>1
  <2> HIDE DEF flow
  <2> QED
    BY <1>7, <2>1, <2>2 DEF HasPair
<1> HIDE DEF checks, flow
<1>9. CASE abridged
  <2>1. Script = checks \o <<>>
    BY <1>4, <1>9
  <2> QED
    BY <1>6, <1>9, <2>1, Joined DEF Q
<1>10. CASE ~abridged
  <2>1. Script = checks \o flow
    BY <1>4, <1>10
  <2>2. checks \o flow \in Seq(Q)
    BY <1>6, <1>8, <1>10, Joined
  <2>3. HasPair(checks \o flow, "invoke")
    BY <1>6, <1>8, <1>10, HasPart
  <2> QED
    BY <2>1, <2>2, <2>3 DEF Q
<1> QED
  BY <1>9, <1>10

(* The counter program up to its first round. *)
CounterHead ==
    CounterPrereqs \o CounterImport \o CounterCompile \o CounterDeclare \o CounterDeploy
        \o CounterDeployed \o CounterCalldata

(* It insists on the deployment, and takes the reference block from its receipt. *)
LEMMA CounterHeadSteps ==
    ASSUME driver = "counter"
    PROVE  /\ CounterHead \in Seq(Quiet(OwnKinds, Any, Hard))
           /\ Len(CounterHead) = 10
           /\ Strict(CounterHead[8]) /\ CounterHead[8].ref
           /\ HasPair(CounterHead, "deploy")
<1> DEFINE Q == Quiet(OwnKinds, Any, Hard)
           a == Check({"bail"})
           b == Check({"stop", "bail"})
           c == Check({"stop"})
           d == Send("declare", {"stop", "bail"})
           e == Await({"bail"}, {"ignore"}, FALSE)
           g == Send("deploy", {"stop", "bail"})
           h == Await({"stop"}, {"stop"}, TRUE)
           n == NextBlock
           s == <<a>> \o <<b, c>> \o <<b>> \o <<d, e>> \o <<g>> \o <<h>> \o <<a, n>>
<1>1. {"declare", "deploy"} \subseteq OwnKinds /\ {"bail"} \in {{"bail"}, {"ignore"}}
  BY DEF OwnKinds
<1>2. a \in Q /\ b \in Q /\ c \in Q /\ d \in Q /\ e \in Q /\ g \in Q /\ h \in Q
  BY <1>1, ShortSteps
<1>3. n \in Q
  BY Members
<1>4. CounterHead = s
  BY DEF CounterHead, CounterPrereqs, CounterImport, CounterCompile, CounterDeclare, CounterDeploy,
         CounterDeployed, CounterCalldata
<1>5. /\ g.op = "send" /\ g.kind = "deploy"
      /\ h.op = "await" /\ h.bad = {"stop"} /\ h.no_hash = {"stop"} /\ h.ref
  BY DEF Send, Await, Step
<1> HIDE DEF Q, a, b, c, d, e, g, h, n
<1>6. s \in Seq(Q) /\ Len(s) = 10 /\ s[7] = g /\ s[8] = h
  BY <1>2, <1>3
<1> HIDE DEF s
<1>7. Sends(g) /\ g.kind = "deploy" /\ Strict(h) /\ h.ref
  BY <1>5 DEF Sends, Strict
<1>8. HasPair(s, "deploy")
  <2>1. 8 \in 1..Len(s) /\ 8 > 1 /\ 8 - 1 = 7
    BY <1>6
  <2> QED
    BY <1>6, <1>7, <2>1 DEF HasPair
<1> QED
  BY <1>4, <1>6, <1>7, <1>8 DEF Q

RoundLength == IF abridged THEN 3 ELSE 8

(* A round begins with the nonce, and insists on its proof. *)
LEMMA CounterRoundSteps ==
    ASSUME driver = "counter", abridged \in BOOLEAN
    PROVE  /\ CounterRound \in Seq(Loud(OwnKinds, Any, Hard)) /\ Len(CounterRound) = RoundLength
           /\ CounterRound[1].op = "nonce" /\ CounterRound[1].kind = "reference"
           /\ \A i \in 2..RoundLength : CounterRound[i].op # "nonce"
           /\ ~abridged => /\ Sends(CounterRound[5]) /\ CounterRound[5].kind = "proof"
                           /\ Strict(CounterRound[6])
<1> DEFINE Q == Quiet(OwnKinds, Any, Hard)
           L == Loud(OwnKinds, Any, Hard)
           a == Nonce("reference")
           b == Check({"bail"})
           c == Prove
           d == Check({"stop", "bail"})
           e == Submit("either", TRUE)
           f == Await({"stop"}, {}, TRUE)
           g == NextBlock
           h == ReadCounter({"stop"})
           short == <<a, b>> \o <<c>> \o <<>>
           long == <<a, b>> \o <<c>> \o (<<d, e>> \o <<f, g>> \o <<h>>)
<1>1. CounterRound = IF abridged THEN short ELSE long
  BY DEF CounterRound, CounterConstruct, CounterProve, CounterSubmit, CounterIncluded, CounterVerify
<1>2. /\ {"bail"} \in SUBSET Any /\ {"stop", "bail"} \in SUBSET Any /\ {"stop"} \in SUBSET Any
      /\ {} \in SUBSET Any /\ TRUE \in BOOLEAN /\ {"stop"} \in SUBSET (Any \ {"ignore"})
  BY DEF Any
<1>3. b \in Q /\ c \in Q /\ d \in Q /\ f \in Q /\ g \in Q /\ h \in Q /\ Q \subseteq L
  BY <1>2, Members
<1>4. ASSUME ~abridged PROVE e \in Q
  <2>1. "proof" \in OwnKinds
    BY <1>4 DEF OwnKinds
  <2> QED
    BY <2>1, Members
<1>5. a \in L
  BY DEF Loud
<1>6. a.op = "nonce" /\ a.kind = "reference" /\ Strict(f) /\ Sends(e) /\ e.kind = "proof"
  <2>1. a.op = "nonce" /\ a.kind = "reference" /\ e.op = "submit" /\ e.kind = "proof"
    BY DEF Nonce, Submit, Step
  <2>2. f.op = "await" /\ f.bad = {"stop"} /\ f.no_hash = {}
    BY DEF Await, Step
  <2> HIDE DEF a, e, f
  <2> QED
    BY <2>1, <2>2 DEF Sends, Strict
<1>7. \A q \in Q : q.op # "nonce"
  BY <1>3, Shape
<1> HIDE DEF Q, L, a, b, c, d, e, f, g, h
<1>8. CASE abridged
  <2>1. short \in Seq(L) /\ Len(short) = 3 /\ short[1] = a /\ short[2] = b /\ short[3] = c
    BY <1>3, <1>5
  <2> HIDE DEF short
  <2>2. \A i \in 2..3 : short[i] \in Q
    <3>1. ASSUME NEW i \in 2..3 PROVE i = 2 \/ i = 3
      OBVIOUS
    <3> QED
      BY <1>3, <2>1, <3>1
  <2>3. CounterRound = short /\ RoundLength = 3
    BY <1>1, <1>8 DEF RoundLength
  <2> QED
    BY <1>6, <1>7, <1>8, <2>1, <2>2, <2>3 DEF L
<1>9. CASE ~abridged
  <2>1. /\ long \in Seq(L) /\ Len(long) = 8 /\ long[1] = a /\ long[2] = b /\ long[3] = c
        /\ long[4] = d /\ long[5] = e /\ long[6] = f /\ long[7] = g /\ long[8] = h
    BY <1>3, <1>4, <1>5, <1>9
  <2> HIDE DEF long
  <2>2. \A i \in 2..8 : long[i] \in Q
    <3>1. ASSUME NEW i \in 2..8 PROVE i = 2 \/ i = 3 \/ i = 4 \/ i = 5 \/ i = 6 \/ i = 7 \/ i = 8
      OBVIOUS
    <3> QED
      BY <1>3, <1>4, <1>9, <2>1, <3>1
  <2>3. CounterRound = long /\ RoundLength = 8
    BY <1>1, <1>9 DEF RoundLength
  <2> QED
    BY <1>6, <1>7, <1>9, <2>1, <2>2, <2>3 DEF L
<1> QED
  BY <1>8, <1>9

(* The rounds: every RoundLength steps the nonce is asked for, and at no other. *)
LEMMA CounterRoundsSteps ==
    ASSUME driver = "counter", abridged \in BOOLEAN
    PROVE  /\ CounterRounds \in Seq(Loud(OwnKinds, Any, Hard))
           /\ Len(CounterRounds) = Rounds * RoundLength
           /\ \A i \in 1..Len(CounterRounds) :
                  /\ CounterRounds[i].op = "nonce" <=> (i - 1) % RoundLength = 0
                  /\ CounterRounds[i].op = "nonce" => CounterRounds[i].kind = "reference"
           /\ ~abridged => HasPair(CounterRounds, "proof")
<1> DEFINE L == Loud(OwnKinds, Any, Hard)
           n == Rounds * RoundLength
           At_(i) == ((i - 1) % RoundLength) + 1
<1>1. /\ CounterRound \in Seq(L) /\ Len(CounterRound) = RoundLength
      /\ CounterRound[1].op = "nonce" /\ CounterRound[1].kind = "reference"
      /\ \A i \in 2..RoundLength : CounterRound[i].op # "nonce"
      /\ ~abridged => /\ Sends(CounterRound[5]) /\ CounterRound[5].kind = "proof"
                      /\ Strict(CounterRound[6])
  BY CounterRoundSteps
<1>2. RoundLength \in {3, 8} /\ n \in Nat /\ n >= RoundLength
  BY DriversAssumption DEF RoundLength
<1>3. CounterRounds = [i \in 1..n |-> CounterRound[At_(i)]]
  BY <1>1 DEF CounterRounds
<1>4. \A i \in 1..n : At_(i) \in 1..RoundLength /\ (At_(i) = 1 <=> (i - 1) % RoundLength = 0)
  <2>1. CASE RoundLength = 3
    BY <1>2, <2>1
  <2>2. CASE RoundLength = 8
    BY <1>2, <2>2
  <2> QED
    BY <1>2, <2>1, <2>2
<1> HIDE DEF n, L
<1>5. \A i \in 1..n : CounterRound[At_(i)] \in L
  <2> HIDE DEF At_
  <2> QED
    BY <1>1, <1>2, <1>4
<1>6. CounterRounds \in Seq(L) /\ Len(CounterRounds) = n
  <2> HIDE DEF At_
  <2> QED
    BY <1>2, <1>3, <1>5
<1>7. ASSUME NEW i \in 1..n
      PROVE  /\ CounterRounds[i].op = "nonce" <=> (i - 1) % RoundLength = 0
             /\ CounterRounds[i].op = "nonce" => CounterRounds[i].kind = "reference"
  <2>1. CounterRounds[i] = CounterRound[At_(i)]
    BY <1>3
  <2>2. At_(i) \in 1..RoundLength /\ (At_(i) = 1 <=> (i - 1) % RoundLength = 0)
    BY <1>4
  <2> DEFINE j == At_(i)
  <2> HIDE DEF j
  <2>3. CounterRounds[i] = CounterRound[j] /\ j \in 1..RoundLength
        /\ (j = 1 <=> (i - 1) % RoundLength = 0)
    BY <2>1, <2>2 DEF j
  <2>4. CASE j = 1
    BY <1>1, <2>3, <2>4
  <2>5. CASE j # 1
    <3>1. j \in 2..RoundLength
      BY <1>2, <2>3, <2>5
    <3> QED
      BY <1>1, <2>3, <2>5, <3>1
  <2> QED
    BY <2>4, <2>5
<1>8. ASSUME ~abridged PROVE HasPair(CounterRounds, "proof")
  <2>1. RoundLength = 8
    BY <1>8 DEF RoundLength
  <2>2. 5 \in 1..n /\ 6 \in 1..n /\ At_(5) = 5 /\ At_(6) = 6
    BY <1>2, <2>1
  <2>3. CounterRounds[5] = CounterRound[5] /\ CounterRounds[6] = CounterRound[6]
    BY <1>3, <2>2
  <2>4. 6 \in 1..Len(CounterRounds) /\ 6 > 1 /\ 6 - 1 = 5
    BY <1>6, <2>2
  <2> QED
    BY <1>1, <1>8, <2>3, <2>4 DEF HasPair
<1> QED
  BY <1>6, <1>7, <1>8 DEF n, L

(* The steps of the counter program before its last read. *)
CounterLength == 10 + Rounds * RoundLength

(* What the counter program's script has. *)
LEMMA CounterSteps ==
    ASSUME driver = "counter", abridged \in BOOLEAN
    PROVE  /\ Script \in Seq(Loud(OwnKinds, Any, Hard))
           /\ Len(Script) = IF abridged THEN CounterLength ELSE CounterLength + 1
           /\ Strict(Script[8]) /\ Script[8].ref
           /\ \A i \in 1..Len(Script) :
                  /\ Script[i].op = "nonce" <=>
                         i \in 11..CounterLength /\ (i - 11) % RoundLength = 0
                  /\ Script[i].op = "nonce" => Script[i].kind = "reference"
           /\ ~abridged => Script[CounterLength + 1].op = "counter"
           /\ HasPair(Script, "deploy") /\ (~abridged => HasPair(Script, "proof"))
<1> DEFINE Q == Quiet(OwnKinds, Any, Hard)
           L == Loud(OwnKinds, Any, Hard)
           h == CounterHead
           r == CounterRounds
           f == CounterFinal
           hr == h \o r
           n == Rounds * RoundLength
<1>1. /\ h \in Seq(Q) /\ Len(h) = 10 /\ Strict(h[8]) /\ h[8].ref /\ HasPair(h, "deploy")
  BY CounterHeadSteps
<1>2. /\ r \in Seq(L) /\ Len(r) = n
      /\ \A i \in 1..n : /\ r[i].op = "nonce" <=> (i - 1) % RoundLength = 0
                         /\ r[i].op = "nonce" => r[i].kind = "reference"
      /\ ~abridged => HasPair(r, "proof")
  BY CounterRoundsSteps
<1>3. Q \subseteq L /\ \A q \in Q : q.op # "nonce"
  <2>1. Q \subseteq L
    BY Members
  <2> QED
    BY <2>1, Shape
<1>4. /\ f \in Seq(Q) /\ Len(f) = IF abridged THEN 0 ELSE 1
      /\ ~abridged => f[1].op = "counter"
  <2>1. {"fail"} \in SUBSET (Any \ {"ignore"})
    BY DEF Any
  <2>2. ReadCounter({"fail"}) \in Q
    BY <2>1, Members
  <2>3. ReadCounter({"fail"}).op = "counter"
    BY DEF ReadCounter, Step
  <2> DEFINE c == ReadCounter({"fail"})
  <2>4. f = IF abridged THEN <<>> ELSE <<c>>
    BY DEF CounterFinal
  <2> HIDE DEF Q, f, c
  <2> QED
    BY <2>2, <2>3, <2>4 DEF c
<1>5. Script = hr \o f
  BY DEF Script, CounterScript, CounterHead
<1>6. n \in Nat /\ n >= 3 /\ CounterLength = 10 + n /\ RoundLength \in {3, 8}
  BY DriversAssumption DEF RoundLength, CounterLength
<1> HIDE DEF Q, L, h, r, f, n
<1>7. h \in Seq(L) /\ f \in Seq(L)
  BY <1>1, <1>3, <1>4
<1>8. /\ hr \in Seq(L) /\ Len(hr) = 10 + n
      /\ \A i \in 1..10 : hr[i] = h[i]
      /\ \A i \in 1..n : hr[10 + i] = r[i]
  <2>1. /\ hr \in Seq(L) /\ Len(hr) = Len(h) + Len(r)
        /\ \A i \in 1..Len(h) : hr[i] = h[i]
        /\ \A i \in 1..Len(r) : hr[Len(h) + i] = r[i]
    <3>1. h \in Seq(L) /\ r \in Seq(L)
      BY <1>2, <1>7
    <3> QED
      BY <3>1, Joined
  <2> HIDE DEF hr
  <2> QED
    BY <1>1, <1>2, <2>1
<1>9. HasPair(hr, "deploy") /\ (~abridged => HasPair(hr, "proof"))
  BY <1>1, <1>2, <1>7, HasPart
<1> HIDE DEF hr
<1> DEFINE s == hr \o f
<1>10. /\ s \in Seq(L) /\ Len(s) = 10 + n + Len(f)
       /\ \A i \in 1..(10 + n) : s[i] = hr[i]
       /\ \A i \in 1..Len(f) : s[10 + n + i] = f[i]
  <2>1. /\ s \in Seq(L) /\ Len(s) = Len(hr) + Len(f)
        /\ \A i \in 1..Len(hr) : s[i] = hr[i]
        /\ \A i \in 1..Len(f) : s[Len(hr) + i] = f[i]
    <3>1. hr \in Seq(L) /\ f \in Seq(L)
      BY <1>7, <1>8
    <3> QED
      BY <3>1, Joined
  <2> HIDE DEF s
  <2> QED
    BY <1>8, <2>1
<1>11. HasPair(s, "deploy") /\ (~abridged => HasPair(s, "proof"))
  BY <1>7, <1>8, <1>9, HasPart
<1> HIDE DEF s
<1>12. Strict(s[8]) /\ s[8].ref
  <2>1. s[8] = hr[8] /\ hr[8] = h[8]
    BY <1>6, <1>8, <1>10
  <2> QED
    BY <1>1, <2>1
<1>13. ASSUME NEW i \in 1..Len(s)
       PROVE  /\ s[i].op = "nonce" <=> i \in 11..(10 + n) /\ (i - 11) % RoundLength = 0
              /\ s[i].op = "nonce" => s[i].kind = "reference"
  <2>1. CASE i \in 1..10
    <3>0. i \in 1..(10 + n)
      BY <1>6, <2>1
    <3>1. s[i] = hr[i] /\ hr[i] = h[i]
      BY <1>8, <1>10, <2>1, <3>0
    <3>2. h[i] \in Q
      <4>1. h \in Seq(Q) /\ Len(h) = 10
        BY <1>1
      <4>2. i \in 1..Len(h)
        BY <2>1, <4>1
      <4> QED
        BY <4>1, <4>2, ElementOf
    <3>3. i \notin 11..(10 + n)
      BY <1>6, <2>1
    <3> QED
      BY <1>3, <3>1, <3>2, <3>3
  <2>2. CASE i \in 11..(10 + n)
    <3>1. i - 10 \in 1..n /\ i = 10 + (i - 10) /\ i - 11 = (i - 10) - 1
      BY <1>6, <2>2
    <3>2. s[i] = hr[i] /\ hr[i] = r[i - 10]
      BY <1>6, <1>8, <1>10, <2>2, <3>1
    <3>3. /\ r[i - 10].op = "nonce" <=> (i - 11) % RoundLength = 0
          /\ r[i - 10].op = "nonce" => r[i - 10].kind = "reference"
      BY <1>2, <3>1
    <3> QED
      BY <2>2, <3>2, <3>3
  <2>3. CASE i > 10 + n
    <3>1. i - (10 + n) \in 1..Len(f) /\ i = 10 + n + (i - (10 + n))
      BY <1>4, <1>6, <1>10, <2>3
    <3>2. s[i] = f[i - (10 + n)] /\ f[i - (10 + n)] \in Q
      BY <1>4, <1>10, <3>1
    <3> QED
      BY <1>3, <1>6, <2>3, <3>2
  <2> QED
    BY <1>6, <2>1, <2>2, <2>3
<1>14. ASSUME ~abridged PROVE s[CounterLength + 1].op = "counter"
  <2>1. 1 \in 1..Len(f) /\ CounterLength + 1 = 10 + n + 1
    BY <1>4, <1>6, <1>14
  <2> QED
    BY <1>4, <1>10, <1>14, <2>1
<1>15. Len(s) = IF abridged THEN CounterLength ELSE CounterLength + 1
  BY <1>4, <1>6, <1>10
<1>16. Script = s
  BY <1>5 DEF s
<1> QED
  BY <1>6, <1>10, <1>11, <1>12, <1>13, <1>14, <1>15, <1>16 DEF L

-----------------------------------------------------------------------------
(* Any script. *)

InputType == driver \in Drivers /\ abridged \in BOOLEAN /\ gateway_url \in BOOLEAN

(* Every script is a sequence of steps whose failures are limited. *)
LEMMA StepShape ==
    ASSUME InputType
    PROVE  /\ Len(Script) \in Nat
           /\ \A i \in 1..Len(Script) :
                  LET s == Script[i] IN
                  /\ s.op = "nonce" => s.bad = {"bail"} /\ driver # "health"
                  /\ s.op = "send" => /\ s.kind \in OwnKinds \ {"proof"}
                                      /\ s.bad \cap {"fail", "ignore"} = {}
                  /\ s.op = "submit" => s.kind = "proof" /\ "proof" \in OwnKinds /\ s.bad = {"stop"}
                  /\ s.op = "prove" => s.bad = {"stop", "bail"}
                  /\ s.op \in {"check", "await", "messages", "counter", "send"} =>
                         ("skip" \in s.bad => driver = "health")
                  /\ s.op \in {"await", "messages"} => ("skip" \in s.no_hash => driver = "health")
                  /\ s.op = "counter" => "ignore" \notin s.bad
                  /\ s.op = "messages" => /\ s.bad \in Excused(Any \cup Soft, "absent")
                                          /\ s.no_hash \in Excused(Any \cup Soft, "differs")
<1>1. CASE driver = "health"
  <2> DEFINE Q == Quiet(OwnKinds, Soft, {"skip"})
  <2>1. Script \in Seq(Q)
    BY <1>1, HealthSteps DEF InputType
  <2>2. Len(Script) \in Nat /\ \A i \in 1..Len(Script) : Script[i] \in Q
    <3> HIDE DEF Q
    <3> QED
      BY <2>1, ElementOf
  <2>3. Q \subseteq Loud(OwnKinds, Soft, {"skip"})
    BY Members
  <2>4. ASSUME NEW i \in 1..Len(Script)
        PROVE  LET s == Script[i] IN
                  /\ s.op # "nonce"
                  /\ s.op = "send" => s.kind \in OwnKinds \ {"proof"} /\ s.bad \subseteq {"skip"}
                  /\ s.op = "submit" => s.kind = "proof" /\ "proof" \in OwnKinds /\ s.bad = {"stop"}
                  /\ s.op = "prove" => s.bad = {"stop", "bail"}
                  /\ s.op = "counter" => "ignore" \notin s.bad
                  /\ s.op = "messages" => /\ s.bad \in Excused(Soft, "absent")
                                          /\ s.no_hash \in Excused(Soft, "differs")
    <3>1. Script[i] \in Q
      BY <2>2
    <3>2. Script[i] \in Loud(OwnKinds, Soft, {"skip"})
      BY <2>3, <3>1
    <3> QED
      BY <3>1, <3>2, Shape
  <2> HIDE DEF Q
  <2>5. \A i \in 1..Len(Script) :
            LET s == Script[i] IN
            s.op = "messages" => /\ s.bad \in Excused(Any \cup Soft, "absent")
                                 /\ s.no_hash \in Excused(Any \cup Soft, "differs")
    BY <2>4 DEF Excused
  <2> QED
    BY <1>1, <2>2, <2>4, <2>5
<1>2. CASE driver # "health"
  <2>1. Script \in Seq(Loud(OwnKinds, Any, Hard))
    <3>1. driver \in ShortDrivers \/ driver = "settlement" \/ driver = "counter"
      BY <1>2 DEF InputType, Drivers, ShortDrivers
    <3>2. abridged \in BOOLEAN
      BY DEF InputType
    <3> QED
      BY <3>1, <3>2, ShortScripts, SettlementSteps, CounterSteps
  <2>2. Len(Script) \in Nat /\ \A i \in 1..Len(Script) : Script[i] \in Loud(OwnKinds, Any, Hard)
    BY <2>1, ElementOf
  <2>3. ASSUME NEW i \in 1..Len(Script)
        PROVE  LET s == Script[i] IN
                  /\ s.op = "nonce" => s.bad = {"bail"}
                  /\ s.op = "send" => s.kind \in OwnKinds \ {"proof"} /\ s.bad \subseteq Hard
                  /\ s.op = "submit" => s.kind = "proof" /\ "proof" \in OwnKinds /\ s.bad = {"stop"}
                  /\ s.op = "prove" => s.bad = {"stop", "bail"}
                  /\ s.op \in {"check", "await", "messages", "counter"} => s.bad \subseteq Any
                  /\ s.op \in {"await", "messages"} => s.no_hash \subseteq Any
                  /\ s.op = "counter" => "ignore" \notin s.bad
                  /\ s.op = "messages" => /\ s.bad \in Excused(Any, "absent")
                                          /\ s.no_hash \in Excused(Any, "differs")
    BY <2>2, Shape
  <2>4. "skip" \notin Any /\ "skip" \notin Hard /\ "fail" \notin Hard /\ "ignore" \notin Hard
    BY DEF Any, Hard
  <2>5. \A i \in 1..Len(Script) :
            LET s == Script[i] IN
            s.op = "messages" => /\ s.bad \in Excused(Any \cup Soft, "absent")
                                 /\ s.no_hash \in Excused(Any \cup Soft, "differs")
    BY <2>3 DEF Excused
  <2> QED
    BY <1>2, <2>2, <2>3, <2>4, <2>5
<1> QED
  BY <1>1, <1>2

(* What the programs send. *)
LEMMA KindsSent ==
    ASSUME InputType
    PROVE  OwnKinds \subseteq Kinds /\ (driver # "health" => "invoke" \notin OwnKinds)
BY DEF InputType, OwnKinds, Kinds, Drivers

(* The program and its script stay. *)
LEMMA ScriptKept ==
    ASSUME UNCHANGED inputVars
    PROVE  Script' = Script /\ OwnKinds' = OwnKinds /\ RoundLength' = RoundLength
           /\ CounterLength' = CounterLength
<1>0. driver' = driver /\ abridged' = abridged
  BY DEF inputVars
<1>1. CounterScript' = CounterScript
  BY <1>0 DEF CounterScript, CounterRounds, CounterRound, CounterFinal
<1>2. CounterMsgScript' = CounterMsgScript /\ MessagesScript' = MessagesScript
      /\ CoinflipScript' = CoinflipScript
  BY <1>0 DEF CounterMsgScript, MessagesScript, CoinflipScript
<1>3. SettlementScript' = SettlementScript /\ HealthScript' = HealthScript
  BY <1>0 DEF SettlementScript, HealthScript
<1>4. Script' = Script
  BY <1>0, <1>1, <1>2, <1>3 DEF Script
<1>5. OwnKinds' = OwnKinds /\ RoundLength' = RoundLength
  BY <1>0 DEF OwnKinds, RoundLength
<1> QED
  BY <1>4, <1>5 DEF CounterLength

-----------------------------------------------------------------------------
(* What a step of a program does. *)

PcType ==
    /\ pc \in 1..(Len(Script) + 1) /\ failed \in Nat
    /\ result \in {"running", "green", "red"}

(* The step at pc is over and did what it is for, or its failure is tolerated. *)
Passed ==
    LET s == Script[pc] IN
    /\ pc \in 1..Len(Script) /\ pc' = pc + 1
    /\ s.op = "prove" => Provable
    /\ Strict(s) => tx_hash /\ tx.status = "ok" /\ (s.ref => reference_block' = tx.block)
    /\ s.op = "nonce" => round' = round + 1
    /\ Sends(s) /\ tx_hash' => tx'.kind = s.kind
    /\ s.op = "counter" /\ failed' = failed => \E b \in Latest : Expected(b.counter)

(* A program stays, passes its step, or goes to its summary with a failure. *)
Moved ==
    /\ PcType' /\ failed' \in {failed, failed + 1}
    /\ result = "running" /\ (result' = "green" => failed' = 0 /\ pc' = Len(Script) + 1)
    /\ \/ pc' = pc
       \/ Passed
       \/ driver = "health" /\ pc' = Len(Script) + 1 /\ failed' = failed + 1

(* What a failure leads to. *)
LEMMA FaultMoves ==
    ASSUME InputType, PcType, pc \in 1..Len(Script), result = "running", Script' = Script,
           NEW bad, Fault(bad)
    PROVE  /\ PcType' /\ failed' \in {failed, failed + 1} /\ result' # "green"
           /\ \/ pc' = pc
              \/ /\ pc' = pc + 1 /\ bad \cap {"fail", "ignore"} # {}
                 /\ failed' = failed => "ignore" \in bad
              \/ pc' = Len(Script) + 1 /\ failed' = failed + 1 /\ "skip" \in bad
<1>1. PICK b \in bad :
        /\ pc' = CASE b \in {"fail", "ignore"} -> pc + 1
                   [] b = "skip" -> Len(Script) + 1
                   [] OTHER -> pc
        /\ failed' = IF b \in {"stop", "fail", "skip"} THEN failed + 1 ELSE failed
        /\ result' = IF b \in {"stop", "bail"} THEN "red" ELSE result
  BY DEF Fault
<1>2. Len(Script) \in Nat /\ failed \in Nat
  BY StepShape DEF PcType
<1>3. failed' \in {failed, failed + 1} /\ failed' \in Nat /\ result' \in {"running", "red"}
  BY <1>1, <1>2
<1>4. CASE b = "fail" \/ b = "ignore"
  <2>1. pc' = pc + 1 /\ bad \cap {"fail", "ignore"} # {}
    BY <1>1, <1>4
  <2>2. failed' = failed => b = "ignore"
    BY <1>1, <1>2, <1>4
  <2> QED
    BY <1>1, <1>2, <1>3, <2>1, <2>2 DEF PcType
<1>5. CASE b = "skip"
  <2>1. pc' = Len(Script) + 1 /\ failed' = failed + 1
    BY <1>1, <1>5
  <2> QED
    BY <1>2, <1>3, <1>5, <2>1 DEF PcType
<1>6. CASE b \notin {"fail", "ignore", "skip"}
  <2>1. pc' = pc
    BY <1>1, <1>6
  <2> QED
    BY <1>2, <1>3, <2>1 DEF PcType
<1> QED
  BY <1>4, <1>5, <1>6

(* A failure that the step does not tolerate does not pass it. *)
LEMMA FaultMoved ==
    ASSUME InputType, PcType, pc \in 1..Len(Script), result = "running", Script' = Script,
           NEW bad, Fault(bad), "skip" \in bad => driver = "health",
           bad \cap {"fail", "ignore"} # {} =>
               /\ Script[pc].op \notin {"prove", "nonce", "send", "submit"}
               /\ ~Strict(Script[pc])
               /\ Script[pc].op = "counter" => "ignore" \notin bad
    PROVE  Moved
<1> DEFINE s == Script[pc]
<1>1. /\ PcType' /\ failed' \in {failed, failed + 1} /\ result' # "green"
      /\ \/ pc' = pc
         \/ /\ pc' = pc + 1 /\ bad \cap {"fail", "ignore"} # {}
            /\ failed' = failed => "ignore" \in bad
         \/ pc' = Len(Script) + 1 /\ failed' = failed + 1 /\ "skip" \in bad
  BY FaultMoves
<1>2. ASSUME pc' = pc + 1, bad \cap {"fail", "ignore"} # {}, failed' = failed => "ignore" \in bad
      PROVE  Passed
  <2>1. s.op # "prove" /\ s.op # "nonce" /\ ~Strict(s) /\ ~Sends(s)
        /\ ~(s.op = "counter" /\ failed' = failed)
    BY <1>2 DEF Sends
  <2> HIDE DEF s
  <2> QED
    BY <1>2, <2>1 DEF Passed, s
<1> QED
  BY <1>1, <1>2 DEF Moved

(* A step that always succeeds or asks nothing of its success. *)
LEMMA AdvanceMoved ==
    ASSUME InputType, PcType, pc \in 1..Len(Script), result = "running", Script' = Script, Advance,
           Passed
    PROVE  Moved
<1>1. Len(Script) \in Nat
  BY StepShape
<1> QED
  BY <1>1 DEF Advance, Moved, PcType

(* Where a program is. *)
LEMMA Here ==
    ASSUME InputType, PcType, NEW op, At(op)
    PROVE  result = "running" /\ pc \in 1..Len(Script) /\ Script[pc].op = op /\ Now = Script[pc]
<1>1. Len(Script) \in Nat
  BY StepShape
<1> QED
  BY <1>1 DEF At, Now, PcType

(* An intolerable failure of a step at pc. *)
LEMMA Fails ==
    ASSUME InputType, PcType, Script' = Script,
           NEW op \in {"check", "messages", "counter", "send", "nonce", "submit", "prove"},
           At(op), Fault(Now.bad)
    PROVE  Moved
<1> DEFINE s == Script[pc]
<1>1. result = "running" /\ pc \in 1..Len(Script) /\ s.op = op /\ Now = s
  BY Here
<1>2. /\ s.op = "nonce" => s.bad = {"bail"}
      /\ s.op = "send" => s.bad \cap {"fail", "ignore"} = {}
      /\ s.op = "submit" => s.bad = {"stop"}
      /\ s.op = "prove" => s.bad = {"stop", "bail"}
      /\ s.op \in {"check", "await", "messages", "counter", "send"} =>
             ("skip" \in s.bad => driver = "health")
      /\ s.op = "counter" => "ignore" \notin s.bad
  BY <1>1, StepShape
<1>3. "skip" \in s.bad => driver = "health"
  BY <1>1, <1>2
<1>4. s.bad \cap {"fail", "ignore"} # {} => /\ s.op \notin {"prove", "nonce", "send", "submit"}
                                            /\ s.op = "counter" => "ignore" \notin s.bad
  BY <1>2
<1>5. ~Strict(s)
  BY <1>1 DEF Strict
<1>6. Fault(s.bad)
  BY <1>1
<1> QED
  BY <1>1, <1>3, <1>4, <1>5, <1>6, FaultMoved

(* A step that succeeds, with what its success means. *)
LEMMA Succeeds ==
    ASSUME InputType, PcType, Script' = Script, NEW op, op # "await", At(op), Advance,
           op = "prove" => Provable, op = "nonce" => round' = round + 1,
           op \in {"send", "submit"} /\ tx_hash' => tx'.kind = Now.kind,
           op = "counter" => \E b \in Latest : Expected(b.counter)
    PROVE  Moved
<1> DEFINE s == Script[pc]
<1>1. result = "running" /\ pc \in 1..Len(Script) /\ s.op = op /\ Now = s
  BY Here
<1>2. pc' = pc + 1 /\ ~Strict(s)
  BY <1>1 DEF Advance, Strict
<1>3. Sends(s) /\ tx_hash' => tx'.kind = s.kind
  BY <1>1 DEF Sends
<1> HIDE DEF s
<1>4. Passed
  BY <1>1, <1>2, <1>3 DEF Passed, s
<1> QED
  BY <1>1, <1>4, AdvanceMoved

(* Awaiting a receipt: it is there, or there is nothing to await, or it is refused. *)
LEMMA AwaitMoves ==
    ASSUME InputType, PcType, Script' = Script,
           NothingToAwait \/ ReceiptAccepted \/ ReceiptRefused
    PROVE  Moved
<1> DEFINE s == Script[pc]
<1>0. At("await")
  BY DEF NothingToAwait, ReceiptAccepted, ReceiptRefused
<1>1. result = "running" /\ pc \in 1..Len(Script) /\ s.op = "await" /\ Now = s
  BY <1>0, Here
<1>2. ("skip" \in s.bad => driver = "health") /\ ("skip" \in s.no_hash => driver = "health")
  BY <1>1, StepShape
<1>3. /\ s.bad \cap {"fail", "ignore"} # {} => ~Strict(s)
      /\ s.no_hash \cap {"fail", "ignore"} # {} => ~Strict(s)
  BY DEF Strict
<1>4. CASE ReceiptAccepted
  <2>1. /\ Advance /\ tx_hash /\ tx.status = "ok" /\ (s.ref => reference_block' = tx.block)
    BY <1>1, <1>4 DEF ReceiptAccepted
  <2>2. pc' = pc + 1 /\ ~Sends(s)
    BY <1>1, <2>1 DEF Advance, Sends
  <2> HIDE DEF s
  <2>3. Passed
    BY <1>1, <2>1, <2>2 DEF Passed, s
  <2> QED
    BY <1>1, <2>1, <2>3, AdvanceMoved
<1>5. CASE NothingToAwait
  <2>1. Fault(s.no_hash)
    BY <1>1, <1>5 DEF NothingToAwait
  <2> QED
    BY <1>1, <1>2, <1>3, <2>1, FaultMoved
<1>6. CASE ReceiptRefused
  <2>1. Fault(s.bad)
    BY <1>1, <1>6 DEF ReceiptRefused
  <2> QED
    BY <1>1, <1>2, <1>3, <2>1, FaultMoved
<1> QED
  BY <1>4, <1>5, <1>6

(* A step that leaves the program where it is. *)
LEMMA Stays ==
    ASSUME PcType, Script' = Script, result = "running", UNCHANGED <<pc, failed, result>>
    PROVE  Moved
BY DEF PcType, Moved

(* Every step of a program. *)
LEMMA DriverMoves ==
    ASSUME InputType, PcType, Script' = Script, ProgramStep
    PROVE  Moved
<1>1. CASE DoCheck
  BY <1>1, Succeeds, Fails DEF DoCheck
<1>2. CASE SendTransaction
  <2>1. tx'.kind = Now.kind /\ At("send") /\ (Advance \/ Fault(Now.bad))
    BY <1>2 DEF SendTransaction, Post
  <2> QED
    BY <2>1, Succeeds, Fails
<1>3. CASE DeclareSkipped
  <2>1. ~tx_hash' /\ At("send") /\ Advance
    BY <1>3 DEF DeclareSkipped
  <2> QED
    BY <2>1, Succeeds
<1>4. CASE SendFails
  BY <1>4, Fails DEF SendFails
<1>5. CASE NothingToAwait \/ ReceiptAccepted \/ ReceiptRefused
  BY <1>5, AwaitMoves
<1>6. CASE PollAgain
  <2>1. result = "running" /\ UNCHANGED <<pc, failed, result>>
    BY <1>6 DEF PollAgain, At
  <2> QED
    BY <2>1, Stays
<1>7. CASE BlockAfter
  BY <1>7, Succeeds DEF BlockAfter
<1>8. CASE FetchNonce
  <2>1. At("nonce") /\ ((round' = round + 1 /\ Advance) \/ Fault(Now.bad))
    BY <1>8 DEF FetchNonce
  <2> QED
    BY <2>1, Succeeds, Fails
<1>9. CASE RunProver
  <2>1. At("prove") /\ ((Provable /\ Advance) \/ Fault(Now.bad))
    BY <1>9 DEF RunProver
  <2> QED
    BY <2>1, Succeeds, Fails
<1>10. CASE VerifyMessages
  <2>1. At("messages") /\ (Fault(Now.bad) \/ Advance \/ Fault(Now.no_hash))
    BY <1>10 DEF VerifyMessages
  <2>2. CASE Fault(Now.no_hash)
    <3> DEFINE s == Script[pc]
    <3>1. result = "running" /\ pc \in 1..Len(Script) /\ s.op = "messages" /\ Now = s
      BY <2>1, Here
    <3>2. ("skip" \in s.no_hash => driver = "health") /\ ~Strict(s)
      BY <3>1, StepShape DEF Strict
    <3>3. Fault(s.no_hash) /\ s.op \notin {"prove", "nonce", "send", "submit"} /\ s.op # "counter"
      BY <2>2, <3>1
    <3> QED
      BY <3>1, <3>2, <3>3, FaultMoved
  <2> QED
    BY <2>1, <2>2, Succeeds, Fails
<1>11. CASE SubmitAccepted
  <2>1. At("submit") /\ tx'.kind = "proof"
    BY <1>11 DEF SubmitAccepted, Post
  <2>2. Now.kind = "proof" /\ result = "running"
    BY <2>1, Here, StepShape
  <2>3. Advance \/ UNCHANGED <<pc, failed, result>> \/ Fault(Now.bad)
    BY <1>11 DEF SubmitAccepted, Again
  <2> QED
    BY <2>1, <2>2, <2>3, Succeeds, Fails, Stays
<1>12. CASE SubmitRefused
  <2>1. At("submit") /\ (UNCHANGED <<pc, failed, result>> \/ Fault(Now.bad)) /\ result = "running"
    BY <1>12 DEF SubmitRefused, Again, At
  <2> QED
    BY <2>1, Fails, Stays
<1>13. CASE VerifyCounter
  <2>1. At("counter")
        /\ (((\E b \in Latest : Expected(b.counter)) /\ Advance) \/ Fault(Now.bad))
    BY <1>13 DEF VerifyCounter
  <2> QED
    BY <2>1, Succeeds, Fails
<1>14. CASE Summary
  BY <1>14 DEF Summary, Moved, PcType
<1> QED
  BY <1>1, <1>2, <1>3, <1>4, <1>5, <1>6, <1>7, <1>8, <1>9, <1>10, <1>11, <1>12, <1>13, <1>14
  DEF ProgramStep

(* What else a program's step writes. *)
RestType ==
    /\ tx_hash \in BOOLEAN /\ attempt \in 1..MaxAttempts /\ polls \in 0..MaxPolls
    /\ message \in {"none", "absent", "match", "differs"}

Writes ==
    /\ UNCHANGED <<inputVars, blocks, done, others>> /\ RestType'
    /\ \/ UNCHANGED <<tx, left>>
       \/ At("send") /\ \E n \in FreeNonces : Post(Now.kind, n)
       \/ At("submit") /\ nonce = AccountNonce /\ Post("proof", nonce)
    /\ UNCHANGED tx_hash \/ At("send") \/ At("submit")
    /\ \/ UNCHANGED <<round, nonce>>
       \/ /\ At("nonce") /\ pc' = pc + 1 /\ round' = round + 1
          /\ nonce' \in IF Now.kind = "reference" THEN {blocks[reference_block].nonce} ELSE get_nonce
    /\ \/ UNCHANGED reference_block
       \/ tx.status = "ok" /\ reference_block' = tx.block

(* Every step of a program writes that and no more. *)
LEMMA DriverWrites == ASSUME RestType, ProgramStep PROVE Writes
<1>0. /\ MaxPolls \in Nat /\ MaxAttempts \in Nat /\ 0 \in 0..MaxPolls /\ 1 \in 1..MaxAttempts
      /\ polls < MaxPolls => polls + 1 \in 0..MaxPolls
      /\ attempt < MaxAttempts => attempt + 1 \in 1..MaxAttempts
  BY DriversAssumption DEF RestType
<1>1. CASE DoCheck
  BY <1>1 DEF DoCheck, Writes, RestType, waitVars, chainVars
<1>2. CASE SendTransaction
  BY <1>2 DEF SendTransaction, Writes, RestType, waitVars
<1>3. CASE DeclareSkipped
  BY <1>3 DEF DeclareSkipped, Writes, RestType, waitVars, chainVars
<1>4. CASE SendFails
  BY <1>4 DEF SendFails, Writes, RestType, waitVars, chainVars
<1>5. CASE NothingToAwait
  BY <1>5 DEF NothingToAwait, Writes, RestType, waitVars, chainVars
<1>6. CASE ReceiptAccepted
  <2>1. UNCHANGED reference_block \/ (tx.status = "ok" /\ reference_block' = tx.block)
    BY <1>6 DEF ReceiptAccepted
  <2>2. /\ UNCHANGED <<inputVars, round, tx_hash, nonce, attempt, message, chainVars>> /\ polls' = 0
    BY <1>6 DEF ReceiptAccepted
  <2> QED
    BY <1>0, <2>1, <2>2 DEF Writes, RestType, chainVars
<1>7. CASE ReceiptRefused
  BY <1>0, <1>7 DEF ReceiptRefused, Writes, RestType, chainVars
<1>8. CASE PollAgain
  BY <1>0, <1>8 DEF PollAgain, Writes, RestType, chainVars
<1>9. CASE BlockAfter
  BY <1>0, <1>9 DEF BlockAfter, Writes, RestType, chainVars
<1>10. CASE FetchNonce
  <2>1. UNCHANGED <<inputVars, tx_hash, reference_block, polls, message, chainVars>>
    BY <1>10 DEF FetchNonce
  <2>2. \/ /\ At("nonce") /\ pc' = pc + 1 /\ round' = round + 1 /\ attempt' = 1
           /\ nonce' \in IF Now.kind = "reference" THEN {blocks[reference_block].nonce} ELSE get_nonce
        \/ UNCHANGED <<nonce, round, attempt>>
    BY <1>10 DEF FetchNonce, Advance
  <2> QED
    BY <1>0, <2>1, <2>2 DEF Writes, RestType, chainVars
<1>11. CASE RunProver
  BY <1>11 DEF RunProver, Writes, RestType, waitVars, chainVars
<1>12. CASE VerifyMessages
  BY <1>12 DEF VerifyMessages, Writes, RestType, waitVars, chainVars
<1>13. CASE SubmitAccepted
  <2>1. /\ At("submit") /\ nonce = AccountNonce
        /\ Post("proof", nonce)
        /\ UNCHANGED <<inputVars, round, reference_block, nonce, polls, message, blocks, done, others>>
    BY <1>13 DEF SubmitAccepted
  <2>2. tx_hash' \in BOOLEAN /\ attempt' \in 1..MaxAttempts
    BY <1>0, <1>13 DEF SubmitAccepted, Again, RestType
  <2> QED
    BY <2>1, <2>2 DEF Writes, RestType
<1>14. CASE SubmitRefused
  <2>1. UNCHANGED <<inputVars, round, tx_hash, reference_block, nonce, polls, message, chainVars>>
    BY <1>14 DEF SubmitRefused
  <2>2. attempt' \in 1..MaxAttempts
    BY <1>0, <1>14 DEF SubmitRefused, Again, RestType
  <2> QED
    BY <2>1, <2>2 DEF Writes, RestType, chainVars
<1>15. CASE VerifyCounter
  BY <1>15 DEF VerifyCounter, Writes, RestType, waitVars, chainVars
<1>16. CASE Summary
  BY <1>16 DEF Summary, Writes, RestType, waitVars, chainVars
<1> QED
  BY <1>1, <1>2, <1>3, <1>4, <1>5, <1>6, <1>7, <1>8, <1>9, <1>10, <1>11, <1>12, <1>13, <1>14,
     <1>15, <1>16 DEF ProgramStep

-----------------------------------------------------------------------------
(* The chain. *)

BlockRecord == [nonce : Nat, counter : Nat]
TxRecord == [kind : Kinds \cup {"none"}, nonce : Nat, block : Nat,
             status : {"none", "pending", "ok", "reverted", "dropped"}]

ChainType ==
    /\ blocks \in Seq(BlockRecord) /\ Block >= 1
    /\ done \in [Kinds -> 0..Block] /\ others \in 0..MaxOthers
    /\ tx \in TxRecord /\ left \subseteq TxRecord

(* Nonce and counter only grow; what the last transaction did is in the blocks. *)
ChainInv ==
    /\ \A b \in 1..Block : /\ 1 <= blocks[b].nonce /\ blocks[b].nonce <= AccountNonce
                           /\ blocks[b].counter <= blocks[Block].counter
    /\ tx.status \in {"ok", "reverted"} => tx.block \in 1..Block
    /\ tx.status # "none" => tx.kind \in Kinds
    /\ \A t \in left : t.kind \in Kinds
    /\ tx.status = "ok" => done[tx.kind] # 0

(* What has taken effect had what it needs. *)
NeedsInv == \A k \in Kinds : done[k] # 0 => \A j \in Needs(k) : done[j] # 0

(* The fields of the chain have their types. *)
LEMMA ChainFacts ==
    ASSUME ChainType
    PROVE  /\ Block \in Nat /\ Block \in 1..Block
           /\ \A b \in 1..Block : blocks[b].nonce \in Nat /\ blocks[b].counter \in Nat
           /\ AccountNonce \in Nat /\ blocks[Block].counter \in Nat
           /\ tx.kind \in Kinds \cup {"none"} /\ tx.nonce \in Nat /\ tx.block \in Nat
           /\ tx.status \in {"none", "pending", "ok", "reverted", "dropped"}
<1>1. Block \in Nat /\ Block \in 1..Block
  BY DEF ChainType, Block
<1>2. ASSUME NEW b \in 1..Block PROVE blocks[b].nonce \in Nat /\ blocks[b].counter \in Nat
  <2>1. blocks[b] \in BlockRecord
    BY ElementOf DEF ChainType, Block
  <2> QED
    BY <2>1 DEF BlockRecord
<1>3. tx \in TxRecord
  BY DEF ChainType
<1> QED
  BY <1>1, <1>2, <1>3 DEF AccountNonce, TxRecord

(* A block is appended. *)
LEMMA Appended ==
    ASSUME ChainType, NEW x \in BlockRecord, blocks' = Append(blocks, x)
    PROVE  /\ blocks' \in Seq(BlockRecord) /\ Block' = Block + 1
           /\ \A b \in 1..Block : blocks'[b] = blocks[b]
           /\ blocks'[Block + 1] = x /\ blocks'[Block'] = x
<1>1. blocks \in Seq(BlockRecord)
  BY DEF ChainType
<1> QED
  BY <1>1 DEF Block

(* The steps of the chain leave the program alone; nothing that took effect is
   undone, and nothing new is in flight. *)
ChainMoves ==
    /\ UNCHANGED <<inputVars, pc, failed, result, stalled, round, tx_hash, reference_block, nonce,
                   waitVars, message>>
    /\ tx'.kind = tx.kind
    /\ InFlight' \subseteq InFlight
    /\ Block' \in {Block, Block + 1}
    /\ \A b \in 1..Block : blocks'[b] = blocks[b]
    /\ \A k \in Kinds : done[k] # 0 => done'[k] # 0

(* What is in flight. *)
LEMMA Flying ==
    ASSUME ChainType, ChainInv, NEW t \in InFlight
    PROVE  t \in TxRecord /\ t.kind \in Kinds /\ (t = tx \/ t \in left)
BY DEF InFlight, ChainType, ChainInv

(* A transaction is resolved. *)
LEMMA Resolved ==
    ASSUME ChainType, NEW t, NEW status \in {"ok", "reverted", "dropped"}, NEW m \in Nat,
           Resolve(t, status, m)
    PROVE  /\ tx' \in TxRecord /\ left' \subseteq left /\ tx'.kind = tx.kind
           /\ InFlight' \subseteq InFlight
           /\ \/ tx' = tx
              \/ t = tx /\ tx'.status = status /\ tx'.block = m
<1>1. tx \in TxRecord /\ left' \subseteq left
  BY DEF ChainType, Resolve
<1>2. CASE t = tx
  <2>1. tx' = [tx EXCEPT !.status = status, !.block = m]
    BY <1>2 DEF Resolve
  <2>2. /\ tx' \in TxRecord /\ tx'.kind = tx.kind /\ tx'.status = status /\ tx'.block = m
    BY <1>1, <2>1 DEF TxRecord
  <2>3. InFlight' \subseteq InFlight
    BY <1>1, <2>2 DEF InFlight
  <2> QED
    BY <1>1, <1>2, <2>2, <2>3
<1>3. CASE t # tx
  <2>1. tx' = tx
    BY <1>3 DEF Resolve
  <2>2. InFlight' \subseteq InFlight
    BY <1>1, <2>1 DEF InFlight
  <2> QED
    BY <1>1, <2>1, <2>2
<1> QED
  BY <1>2, <1>3

(* A transaction lands. *)
LEMMA IncludeStep ==
    ASSUME ChainType, ChainInv, NeedsInv, IncludeTx
    PROVE  /\ ChainType' /\ ChainInv' /\ NeedsInv' /\ ChainMoves
           /\ AccountNonce' = AccountNonce + 1
           /\ \/ blocks'[Block'].counter = blocks[Block].counter
              \/ /\ blocks'[Block'].counter = blocks[Block].counter + 1
                 /\ \E t \in InFlight : t.nonce = AccountNonce /\ t.kind \in {"proof", "invoke"}
<1>0. /\ Block \in Nat /\ Block \in 1..Block /\ AccountNonce \in Nat /\ blocks[Block].counter \in Nat
      /\ \A b \in 1..Block : blocks[b].nonce \in Nat /\ blocks[b].counter \in Nat
  BY ChainFacts
<1>2. PICK t \in InFlight, ok \in BOOLEAN :
           /\ t.nonce = AccountNonce
           /\ ok => Effect(t.kind)
           /\ Resolve(t, IF ok THEN "ok" ELSE "reverted", Block + 1)
           /\ done' = [done EXCEPT ![t.kind] = IF ok THEN Block + 1 ELSE @]
           /\ blocks' = Append(blocks,
                  [nonce |-> AccountNonce + 1,
                   counter |-> blocks[Block].counter +
                                   (IF ok /\ t.kind \in {"proof", "invoke"} THEN 1 ELSE 0)])
  BY DEF IncludeTx
<1>1. t \in TxRecord /\ t.kind \in Kinds
  BY Flying
<1> DEFINE count == blocks[Block].counter + (IF ok /\ t.kind \in {"proof", "invoke"} THEN 1 ELSE 0)
           x == [nonce |-> AccountNonce + 1, counter |-> count]
<1>3. /\ count \in {blocks[Block].counter, blocks[Block].counter + 1}
      /\ count = blocks[Block].counter + 1 => t.kind \in {"proof", "invoke"}
  BY <1>0
<1> HIDE DEF count
<1>4. x \in BlockRecord /\ x.nonce = AccountNonce + 1 /\ x.counter = count
  BY <1>0, <1>3 DEF BlockRecord
<1>5. blocks' = Append(blocks, x)
  BY <1>2 DEF count
<1> HIDE DEF x
<1>6. /\ blocks' \in Seq(BlockRecord) /\ Block' = Block + 1
      /\ \A b \in 1..Block : blocks'[b] = blocks[b]
      /\ blocks'[Block + 1] = x /\ blocks'[Block'] = x
  BY <1>4, <1>5, Appended
<1>7. /\ tx' \in TxRecord /\ left' \subseteq left /\ tx'.kind = tx.kind
      /\ InFlight' \subseteq InFlight
      /\ \/ tx' = tx
         \/ /\ t = tx /\ tx'.status = (IF ok THEN "ok" ELSE "reverted") /\ tx'.block = Block + 1
  <2> DEFINE y == IF ok THEN "ok" ELSE "reverted"
             m == Block + 1
  <2>1. Resolve(t, y, m) /\ y \in {"ok", "reverted", "dropped"} /\ m \in Nat
    BY <1>0, <1>2
  <2> HIDE DEF y, m
  <2>2. /\ tx' \in TxRecord /\ left' \subseteq left /\ tx'.kind = tx.kind
        /\ InFlight' \subseteq InFlight
        /\ (tx' = tx \/ (t = tx /\ tx'.status = y /\ tx'.block = m))
    BY <2>1, Resolved
  <2> QED
    BY <2>2 DEF y, m
<1>8. /\ done' \in [Kinds -> 0..(Block + 1)]
      /\ \A k \in Kinds : k # t.kind => done'[k] = done[k]
      /\ ok => done'[t.kind] = Block + 1
      /\ ~ok => done'[t.kind] = done[t.kind]
  <2>1. done \in [Kinds -> 0..Block]
    BY DEF ChainType
  <2>2. done \in [Kinds -> 0..(Block + 1)]
    BY <1>0, <2>1
  <2> DEFINE y == IF ok THEN Block + 1 ELSE done[t.kind]
             k == t.kind
  <2>3. done' = [done EXCEPT ![k] = y]
    BY <1>2
  <2>4. y \in 0..(Block + 1) /\ (ok => y = Block + 1) /\ (~ok => y = done[k])
    BY <1>0, <1>1, <2>2
  <2>5. k \in Kinds
    BY <1>1
  <2> HIDE DEF y, k
  <2>6. /\ done' \in [Kinds -> 0..(Block + 1)] /\ done'[k] = y
        /\ \A j \in Kinds : j # k => done'[j] = done[j]
    BY <2>2, <2>3, <2>4, <2>5
  <2> QED
    BY <2>4, <2>6 DEF k
<1>9. \A k \in Kinds : done[k] # 0 => done'[k] # 0
  BY <1>0, <1>1, <1>8
<1>10. ChainMoves
  BY <1>6, <1>7, <1>9 DEF ChainMoves, IncludeTx
<1>11. ChainType'
  BY <1>0, <1>6, <1>7, <1>8 DEF ChainType, IncludeTx
<1>12. AccountNonce' = AccountNonce + 1
  BY <1>4, <1>6 DEF AccountNonce
<1>13. NeedsInv'
  <2>1. \A k \in Kinds : Needs(k) \subseteq Kinds
    BY DEF Needs, Kinds
  <2>2. ASSUME NEW k \in Kinds, done'[k] # 0, NEW j \in Needs(k) PROVE done'[j] # 0
    <3>1. CASE done[k] # 0
      BY <1>9, <2>1, <2>2, <3>1 DEF NeedsInv
    <3>2. CASE done[k] = 0
      <4>1. k = t.kind /\ ok
        BY <1>8, <2>2, <3>2
      <4>2. Effect(k)
        BY <1>2, <4>1
      <4> QED
        BY <1>9, <2>1, <2>2, <4>2 DEF Effect
    <3> QED
      BY <3>1, <3>2
  <2> QED
    BY <2>2 DEF NeedsInv
<1>14. ChainInv'
  <2>1. ASSUME NEW b \in 1..Block'
        PROVE  /\ 1 <= blocks'[b].nonce /\ blocks'[b].nonce <= AccountNonce + 1
               /\ blocks'[b].counter <= count
    <3>1. CASE b \in 1..Block
      <4>1. /\ 1 <= blocks[b].nonce /\ blocks[b].nonce <= AccountNonce
            /\ blocks[b].counter <= blocks[Block].counter
        BY <3>1 DEF ChainInv
      <4>2. blocks'[b] = blocks[b] /\ blocks[b].nonce \in Nat /\ blocks[b].counter \in Nat
        BY <1>0, <1>6, <3>1
      <4> QED
        BY <1>0, <1>3, <4>1, <4>2
    <3>2. CASE b = Block + 1
      BY <1>0, <1>3, <1>4, <1>6, <3>2
    <3> QED
      BY <1>0, <1>6, <3>1, <3>2
  <2>2. /\ tx'.status \in {"ok", "reverted"} => tx'.block \in 1..Block'
        /\ tx'.status # "none" => tx'.kind \in Kinds
        /\ \A u \in left' : u.kind \in Kinds
    BY <1>0, <1>1, <1>6, <1>7 DEF ChainInv
  <2>3. tx'.status = "ok" => done'[tx'.kind] # 0
    <3>1. CASE tx' = tx
      BY <1>9, <3>1 DEF ChainInv
    <3>2. CASE tx' # tx
      BY <1>0, <1>7, <1>8, <3>2
    <3> QED
      BY <3>1, <3>2
  <2> QED
    BY <1>4, <1>6, <1>12, <2>1, <2>2, <2>3 DEF ChainInv
<1> QED
  BY <1>2, <1>3, <1>4, <1>6, <1>10, <1>11, <1>12, <1>13, <1>14

(* A transaction is dropped. *)
LEMMA DropStep ==
    ASSUME ChainType, ChainInv, NeedsInv, DropTx
    PROVE  /\ ChainType' /\ ChainInv' /\ NeedsInv' /\ ChainMoves
           /\ UNCHANGED blocks
<1>1. PICK t \in InFlight : Resolve(t, "dropped", 0)
  BY DEF DropTx
<1>2. /\ tx' \in TxRecord /\ left' \subseteq left /\ tx'.kind = tx.kind /\ InFlight' \subseteq InFlight
      /\ (tx' = tx \/ (t = tx /\ tx'.status = "dropped"))
  BY <1>1, Resolved
<1>3. UNCHANGED <<blocks, done, others>> /\ Block' = Block /\ AccountNonce' = AccountNonce
  BY DEF DropTx, Block, AccountNonce
<1>4. ChainType'
  BY <1>2, <1>3 DEF ChainType
<1>5. ChainInv'
  <2>1. t.kind \in Kinds
    BY Flying
  <2>2. tx'.status # "none" => tx'.kind \in Kinds
    BY <1>2, <2>1 DEF ChainInv
  <2> QED
    BY <1>2, <1>3, <2>2 DEF ChainInv
<1>6. NeedsInv'
  BY <1>3 DEF NeedsInv
<1>7. ChainMoves
  BY <1>2, <1>3 DEF ChainMoves, DropTx
<1> QED
  BY <1>3, <1>4, <1>5, <1>6, <1>7

(* Another user of the account sends a transaction, or nobody does. *)
LEMMA OtherStep ==
    ASSUME ChainType, ChainInv, NeedsInv, OtherBlock
    PROVE  /\ ChainType' /\ ChainInv' /\ NeedsInv' /\ ChainMoves
           /\ AccountNonce' \in {AccountNonce, AccountNonce + 1} /\ UNCHANGED <<tx, left>>
           /\ blocks'[Block'].counter = blocks[Block].counter
<1>0. /\ Block \in Nat /\ Block \in 1..Block /\ AccountNonce \in Nat /\ blocks[Block].counter \in Nat
      /\ \A b \in 1..Block : blocks[b].nonce \in Nat /\ blocks[b].counter \in Nat
  BY ChainFacts
<1>1. PICK n \in {AccountNonce, AccountNonce + 1} :
          blocks' = Append(blocks, [blocks[Block] EXCEPT !.nonce = n])
  BY DEF OtherBlock
<1> DEFINE x == [blocks[Block] EXCEPT !.nonce = n]
<1>2. x \in BlockRecord /\ x.nonce = n /\ x.counter = blocks[Block].counter
  <2>1. blocks[Block] \in BlockRecord
    BY <1>0, ElementOf DEF ChainType, Block
  <2>2. n \in Nat
    BY <1>0
  <2> QED
    BY <2>1, <2>2 DEF BlockRecord
<1>3. blocks' = Append(blocks, x)
  BY <1>1
<1> HIDE DEF x
<1>4. /\ blocks' \in Seq(BlockRecord) /\ Block' = Block + 1
      /\ \A b \in 1..Block : blocks'[b] = blocks[b]
      /\ blocks'[Block + 1] = x /\ blocks'[Block'] = x
  BY <1>2, <1>3, Appended
<1>5. /\ UNCHANGED <<tx, left, done>> /\ others' \in 0..MaxOthers
      /\ UNCHANGED <<inputVars, pc, failed, result, round, tx_hash, reference_block, nonce, waitVars,
                     message>>
  BY DriversAssumption DEF OtherBlock, ChainType
<1>6. ChainType'
  <2>1. done' \in [Kinds -> 0..(Block + 1)]
    BY <1>0, <1>5 DEF ChainType
  <2> QED
    BY <1>0, <1>4, <1>5, <2>1 DEF ChainType
<1>7. AccountNonce' = n
  BY <1>2, <1>4 DEF AccountNonce
<1>8. ChainInv'
  <2>1. ASSUME NEW b \in 1..Block'
        PROVE  /\ 1 <= blocks'[b].nonce /\ blocks'[b].nonce <= n
               /\ blocks'[b].counter <= blocks[Block].counter
    <3>0. 1 <= AccountNonce
      BY <1>0 DEF ChainInv, AccountNonce
    <3>1. CASE b \in 1..Block
      <4>1. /\ 1 <= blocks[b].nonce /\ blocks[b].nonce <= AccountNonce
            /\ blocks[b].counter <= blocks[Block].counter
        BY <3>1 DEF ChainInv
      <4>2. blocks'[b] = blocks[b] /\ blocks[b].nonce \in Nat /\ blocks[b].counter \in Nat
        BY <1>0, <1>4, <3>1
      <4> QED
        BY <1>0, <4>1, <4>2
    <3>2. CASE b = Block + 1
      BY <1>0, <1>2, <1>4, <3>0, <3>2
    <3> QED
      BY <1>0, <1>4, <3>1, <3>2
  <2>2. /\ tx'.status \in {"ok", "reverted"} => tx'.block \in 1..Block'
        /\ tx'.status # "none" => tx'.kind \in Kinds
        /\ \A t \in left' : t.kind \in Kinds
        /\ tx'.status = "ok" => done'[tx'.kind] # 0
    BY <1>0, <1>4, <1>5 DEF ChainInv
  <2> QED
    BY <1>2, <1>4, <1>7, <2>1, <2>2 DEF ChainInv
<1>9. NeedsInv'
  BY <1>5 DEF NeedsInv
<1>10. ChainMoves
  <2>1. InFlight' = InFlight /\ tx'.kind = tx.kind
    BY <1>5 DEF InFlight
  <2>2. /\ Block' \in {Block, Block + 1} /\ \A b \in 1..Block : blocks'[b] = blocks[b]
        /\ \A k \in Kinds : done[k] # 0 => done'[k] # 0
    BY <1>4, <1>5
  <2>3. UNCHANGED <<inputVars, pc, failed, result, stalled, round, tx_hash, reference_block, nonce,
                    waitVars, message>>
    BY DEF OtherBlock
  <2> QED
    BY <2>1, <2>2, <2>3 DEF ChainMoves
<1> QED
  BY <1>2, <1>4, <1>5, <1>6, <1>7, <1>8, <1>9, <1>10

(* A transaction is posted. *)
LEMMA Posted ==
    ASSUME ChainType, ChainInv, NEW kind \in Kinds, NEW n \in Nat, Post(kind, n)
    PROVE  /\ tx' \in TxRecord /\ tx'.kind = kind /\ tx'.status = "pending" /\ tx'.nonce = n
           /\ left' \subseteq TxRecord /\ \A t \in left' : t.kind \in Kinds
           /\ InFlight' \subseteq InFlight \cup {tx'}
<1>1. tx' = [kind |-> kind, status |-> "pending", nonce |-> n, block |-> 0] /\ left' = InFlight
  BY DEF Post
<1>2. /\ tx' \in TxRecord /\ tx'.kind = kind /\ tx'.status = "pending" /\ tx'.nonce = n
  BY <1>1 DEF TxRecord
<1>3. InFlight' \subseteq InFlight \cup {tx'}
  BY <1>1 DEF InFlight
<1>4. left' \subseteq TxRecord /\ \A t \in left' : t.kind \in Kinds
  BY <1>1, Flying
<1> QED
  BY <1>2, <1>3, <1>4

(* The nonces that a transaction may have. *)
LEMMA Nonces ==
    ASSUME ChainType, ChainInv
    PROVE  FreeNonces \subseteq Nat /\ get_nonce \subseteq Nat
<1>1. /\ AccountNonce \in Nat /\ Block \in Nat
      /\ \A b \in 1..Block : blocks[b].nonce \in Nat
  BY ChainFacts
<1>2. Pending \subseteq Nat
  <2>1. ASSUME NEW t \in InFlight PROVE t.nonce + 1 \in Nat
    <3>1. t \in TxRecord
      BY Flying
    <3>2. t.nonce \in Nat
      BY <3>1 DEF TxRecord
    <3> QED
      BY <3>2
  <2> QED
    BY <2>1 DEF Pending
<1>3. {b.nonce : b \in Latest} \subseteq Nat
  BY <1>1 DEF Latest
<1> QED
  BY <1>1, <1>2, <1>3 DEF FreeNonces, get_nonce

(* A program's step on the chain: at most a new transaction. *)
LEMMA SendStep ==
    ASSUME InputType, PcType, ChainType, ChainInv, NeedsInv, nonce \in Nat, Writes
    PROVE  ChainType' /\ ChainInv' /\ NeedsInv'
<1>1. UNCHANGED <<blocks, done, others>> /\ Block' = Block /\ AccountNonce' = AccountNonce
  BY DEF Writes, Block, AccountNonce
<1>2. \/ UNCHANGED <<tx, left>>
      \/ /\ tx' \in TxRecord /\ tx'.status = "pending" /\ tx'.kind \in Kinds
         /\ left' \subseteq TxRecord /\ \A t \in left' : t.kind \in Kinds
  <2>1. CASE UNCHANGED <<tx, left>>
    BY <2>1
  <2>2. ASSUME At("send"), NEW n \in FreeNonces, Post(Now.kind, n)
        PROVE  /\ tx' \in TxRecord /\ tx'.status = "pending" /\ tx'.kind \in Kinds
               /\ left' \subseteq TxRecord /\ \A t \in left' : t.kind \in Kinds
    <3>1. Now.kind \in Kinds
      BY <2>2, Here, StepShape, KindsSent
    <3>2. n \in Nat
      BY Nonces
    <3> DEFINE k == Now.kind
    <3> HIDE DEF k
    <3>3. k \in Kinds /\ Post(k, n)
      BY <2>2, <3>1 DEF k
    <3> QED
      BY <3>2, <3>3, Posted
  <2>3. ASSUME Post("proof", nonce)
        PROVE  /\ tx' \in TxRecord /\ tx'.status = "pending" /\ tx'.kind \in Kinds
               /\ left' \subseteq TxRecord /\ \A t \in left' : t.kind \in Kinds
    <3>1. "proof" \in Kinds
      BY DEF Kinds
    <3> QED
      BY <2>3, <3>1, Posted
  <2> QED
    BY <2>1, <2>2, <2>3 DEF Writes
<1>3. ChainType'
  BY <1>1, <1>2 DEF ChainType
<1>4. ChainInv'
  BY <1>1, <1>2 DEF ChainInv
<1>5. NeedsInv'
  BY <1>1 DEF NeedsInv
<1> QED
  BY <1>3, <1>4, <1>5

-----------------------------------------------------------------------------
(* A program and its chain: each round's proof takes effect at most once. *)

VarType == round \in Nat /\ nonce \in Nat /\ reference_block \in 0..Block

(* After the deployment's receipt the counter program has a reference block. *)
RefInv == driver = "counter" /\ pc > 8 => reference_block # 0

(* The nonce of the current round is free until the round's proof, or another
   transaction, lands; only until then may the proof be accepted.  A proof in
   flight has a nonce that the account has reached, and while it can still land
   its round is not counted yet. *)
OnceInv ==
    driver # "health" =>
        /\ blocks[Block].counter <= round
        /\ nonce >= AccountNonce => blocks[Block].counter + 1 <= round
        /\ \A t \in InFlight :
               /\ t.kind # "invoke"
               /\ t.kind = "proof" => t.nonce <= AccountNonce
               /\ t.kind = "proof" /\ t.nonce = AccountNonce =>
                      blocks[Block].counter + 1 <= round /\ nonce <= AccountNonce

(* At step p of the counter program, with n rounds of l steps, d rounds have begun. *)
Begun(l, p, d, n) ==
    /\ p <= 11 => d = 0
    /\ p \in 12..(n * l + 11) => l * (d - 1) < p - 11 /\ p - 11 <= l * d
    /\ p > n * l + 11 => d = n

(* How many rounds a program at pc has begun. *)
RoundInv ==
    /\ driver = "health" => round = 0
    /\ driver \in ShortDrivers \cup {"settlement"} =>
           round <= 1 /\ \A n \in Nat : NonceAt(Script, n) /\ pc <= n => round = 0
    /\ driver = "counter" => Begun(RoundLength, pc, round, Rounds)

(* Only the counter program asks for the nonce at its reference block, after it has
   one. *)
LEMMA ReferenceSteps ==
    ASSUME InputType, NEW i \in 1..Len(Script), Script[i].op = "nonce", Script[i].kind = "reference"
    PROVE  driver = "counter" /\ i > 8
<1>1. driver # "health"
  BY StepShape
<1>2. driver \notin ShortDrivers /\ driver # "settlement"
  <2>1. ASSUME NEW n \in Nat, NonceAt(Script, n) PROVE FALSE
    BY <2>1 DEF NonceAt
  <2>2. abridged \in BOOLEAN
    BY DEF InputType
  <2> QED
    BY <2>1, <2>2, ShortScripts, SettlementSteps
<1>3. driver = "counter"
  BY <1>1, <1>2 DEF InputType, Drivers, ShortDrivers
<1>4. i \in 11..CounterLength
  BY <1>3, CounterSteps DEF InputType
<1> QED
  BY <1>3, <1>4

(* The nonce at the reference block is one the account has had; the current one is
   asked for in the first round only. *)
LEMMA NonceFetched ==
    ASSUME InputType, PcType, VarType, ChainType, ChainInv, RefInv, RoundInv, At("nonce"),
           NEW n \in IF Now.kind = "reference" THEN {blocks[reference_block].nonce} ELSE get_nonce
    PROVE  n \in Nat /\ (n <= AccountNonce \/ round = 0)
<1>0. Block \in Nat /\ \A c \in 1..Block : blocks[c].nonce \in Nat /\ blocks[c].nonce <= AccountNonce
  BY ChainFacts DEF ChainInv
<1>1. pc \in 1..Len(Script) /\ Script[pc].op = "nonce" /\ Now = Script[pc]
  BY Here
<1>2. CASE Now.kind = "reference"
  <2>1. driver = "counter" /\ pc > 8
    BY <1>1, <1>2, ReferenceSteps
  <2>2. reference_block \in 1..Block
    BY <1>0, <2>1 DEF RefInv, VarType
  <2>3. n = blocks[reference_block].nonce
    BY <1>2
  <2> QED
    BY <1>0, <2>2, <2>3
<1>3. CASE Now.kind # "reference"
  <2>1. n \in Nat
    BY <1>3, Nonces
  <2>2. abridged \in BOOLEAN /\ driver # "health"
    BY <1>1, StepShape DEF InputType
  <2>3. driver # "counter"
    BY <1>1, <1>3, <2>2, CounterSteps
  <2>4. driver \in ShortDrivers \cup {"settlement"}
    BY <2>2, <2>3 DEF InputType, Drivers, ShortDrivers
  <2>5. PICK k \in Nat : NonceAt(Script, k)
    BY <2>2, <2>4, ShortScripts, SettlementSteps
  <2>6. pc = k
    BY <1>1, <2>5 DEF NonceAt
  <2>7. round = 0
    BY <2>4, <2>5, <2>6 DEF RoundInv
  <2> QED
    BY <2>1, <2>7
<1> QED
  BY <1>2, <1>3

(* A program's step. *)
LEMMA OnceDriver ==
    ASSUME InputType, PcType, VarType, ChainType, ChainInv, RefInv, RoundInv, OnceInv, Writes, Moved
    PROVE  VarType' /\ RefInv' /\ OnceInv'
<1>0. /\ Block \in Nat /\ AccountNonce \in Nat /\ blocks[Block].counter \in Nat
      /\ round \in Nat /\ nonce \in Nat /\ reference_block \in 0..Block
  BY ChainFacts DEF VarType
<1>1. UNCHANGED <<driver, blocks>> /\ Block' = Block /\ AccountNonce' = AccountNonce
  BY DEF Writes, inputVars, Block, AccountNonce
<1>2. \/ round' = round /\ nonce' = nonce
      \/ /\ At("nonce") /\ round' = round + 1 /\ nonce' \in Nat
         /\ nonce' <= AccountNonce \/ round = 0
  <2>1. CASE UNCHANGED <<round, nonce>>
    BY <2>1
  <2>2. ASSUME At("nonce"), round' = round + 1,
               nonce' \in IF Now.kind = "reference" THEN {blocks[reference_block].nonce} ELSE get_nonce
        PROVE  /\ At("nonce") /\ round' = round + 1 /\ nonce' \in Nat
               /\ nonce' <= AccountNonce \/ round = 0
    BY <2>2, NonceFetched
  <2> QED
    BY <2>1, <2>2 DEF Writes
<1>3. \/ reference_block' = reference_block
      \/ reference_block' \in 1..Block
  BY DEF Writes, ChainInv
<1>4. VarType'
  BY <1>0, <1>1, <1>2, <1>3 DEF VarType
<1>5. RefInv'
  <2>1. SUFFICES ASSUME driver = "counter", pc' > 8 PROVE reference_block' # 0
    BY <1>1 DEF RefInv
  <2>2. CASE pc > 8
    BY <1>0, <1>3, <2>1, <2>2 DEF RefInv
  <2>3. CASE ~(pc > 8)
    <3>1. pc \in Int /\ Strict(Script[8]) /\ Script[8].ref
      BY <2>1, CounterSteps, StepShape DEF InputType, PcType
    <3>2. Passed
      BY <2>1, <2>3 DEF Moved
    <3>3. pc = 8
      BY <2>1, <2>3, <3>1, <3>2 DEF Passed
    <3>4. tx.status = "ok" /\ reference_block' = tx.block
      BY <3>1, <3>2, <3>3 DEF Passed
    <3> QED
      BY <1>0, <3>4 DEF ChainInv
  <2> QED
    BY <2>2, <2>3
<1>6. OnceInv'
  <2>1. SUFFICES ASSUME driver # "health" PROVE
             /\ blocks[Block].counter <= round'
             /\ nonce' >= AccountNonce => blocks[Block].counter + 1 <= round'
             /\ \A t \in InFlight' :
                    /\ t.kind # "invoke"
                    /\ t.kind = "proof" => t.nonce <= AccountNonce
                    /\ t.kind = "proof" /\ t.nonce = AccountNonce =>
                           blocks[Block].counter + 1 <= round' /\ nonce' <= AccountNonce
    BY <1>1 DEF OnceInv
  <2>2. /\ blocks[Block].counter <= round
        /\ nonce >= AccountNonce => blocks[Block].counter + 1 <= round
        /\ \A t \in InFlight :
               /\ t.kind # "invoke"
               /\ t.kind = "proof" => t.nonce <= AccountNonce
               /\ t.kind = "proof" /\ t.nonce = AccountNonce =>
                      blocks[Block].counter + 1 <= round /\ nonce <= AccountNonce
    BY <2>1 DEF OnceInv
  <2>3. /\ blocks[Block].counter <= round'
        /\ nonce' >= AccountNonce => blocks[Block].counter + 1 <= round'
    BY <1>0, <1>2, <2>2
  <2>4. round' \in Nat /\ round <= round'
    BY <1>0, <1>2
  <2>5. ASSUME NEW t \in InFlight
        PROVE  /\ t.kind # "invoke"
               /\ t.kind = "proof" => t.nonce <= AccountNonce
               /\ t.kind = "proof" /\ t.nonce = AccountNonce =>
                      blocks[Block].counter + 1 <= round' /\ nonce' <= AccountNonce
    <3>1. ASSUME t.kind = "proof", t.nonce = AccountNonce
          PROVE  blocks[Block].counter + 1 <= round' /\ nonce' <= AccountNonce
      <4>1. blocks[Block].counter + 1 <= round /\ nonce <= AccountNonce
        BY <2>2, <3>1
      <4> QED
        BY <1>0, <1>2, <2>4, <4>1
    <3> QED
      BY <2>2, <3>1
  <2>6. CASE UNCHANGED <<tx, left>>
    <3>1. InFlight' = InFlight
      BY <2>6 DEF InFlight
    <3> QED
      BY <2>3, <2>5, <3>1
  <2>7. ASSUME At("send"), NEW n \in FreeNonces, Post(Now.kind, n)
        PROVE  InFlight' \subseteq InFlight \cup {tx'} /\ tx'.kind \notin {"invoke", "proof"}
    <3>1. Now.kind \in OwnKinds \ {"proof"}
      BY <2>7, Here, StepShape
    <3>2. "invoke" \notin OwnKinds /\ Now.kind \in Kinds
      BY <2>1, <3>1, KindsSent
    <3> DEFINE k == Now.kind
    <3> HIDE DEF k
    <3>3. k \in Kinds /\ Post(k, n) /\ n \in Nat /\ k \notin {"invoke", "proof"}
      BY <2>7, <3>1, <3>2, Nonces DEF k
    <3> QED
      BY <3>3, Posted
  <2>8. ASSUME At("submit"), nonce = AccountNonce, Post("proof", nonce)
        PROVE  /\ InFlight' \subseteq InFlight \cup {tx'}
               /\ tx'.kind = "proof" /\ tx'.nonce = AccountNonce
               /\ blocks[Block].counter + 1 <= round' /\ nonce' <= AccountNonce
    <3>1. "proof" \in Kinds
      BY DEF Kinds
    <3>2. InFlight' \subseteq InFlight \cup {tx'} /\ tx'.kind = "proof" /\ tx'.nonce = nonce
      BY <1>0, <2>8, <3>1, Posted
    <3>3. ~At("nonce")
      BY <2>8 DEF At
    <3>4. round' = round /\ nonce' = nonce
      BY <1>2, <3>3
    <3> QED
      BY <1>0, <2>2, <2>8, <3>2, <3>4
  <2>9. ASSUME InFlight' \subseteq InFlight \cup {tx'}, tx'.kind \notin {"invoke", "proof"}
        PROVE  \A t \in InFlight' :
                   /\ t.kind # "invoke"
                   /\ t.kind = "proof" => t.nonce <= AccountNonce
                   /\ t.kind = "proof" /\ t.nonce = AccountNonce =>
                          blocks[Block].counter + 1 <= round' /\ nonce' <= AccountNonce
    BY <2>5, <2>9
  <2>10. ASSUME InFlight' \subseteq InFlight \cup {tx'}, tx'.kind = "proof", tx'.nonce = AccountNonce,
                blocks[Block].counter + 1 <= round' /\ nonce' <= AccountNonce
         PROVE  \A t \in InFlight' :
                    /\ t.kind # "invoke"
                    /\ t.kind = "proof" => t.nonce <= AccountNonce
                    /\ t.kind = "proof" /\ t.nonce = AccountNonce =>
                           blocks[Block].counter + 1 <= round' /\ nonce' <= AccountNonce
    BY <1>0, <2>5, <2>10
  <2> QED
    BY <2>3, <2>6, <2>7, <2>8, <2>9, <2>10 DEF Writes
<1> QED
  BY <1>4, <1>5, <1>6

(* A step of the chain. *)
LEMMA OnceChain ==
    ASSUME VarType, ChainType, ChainInv, NeedsInv, RefInv, OnceInv, IncludeTx \/ DropTx \/ OtherBlock
    PROVE  VarType' /\ RefInv' /\ OnceInv'
<1>0. /\ Block \in Nat /\ AccountNonce \in Nat /\ blocks[Block].counter \in Nat
      /\ round \in Nat /\ nonce \in Nat /\ reference_block \in 0..Block
  BY ChainFacts DEF VarType
<1>1. ChainMoves
  BY IncludeStep, DropStep, OtherStep
<1>2. /\ UNCHANGED <<driver, pc, round, reference_block, nonce>> /\ InFlight' \subseteq InFlight
      /\ Block' \in {Block, Block + 1}
  BY <1>1 DEF ChainMoves, inputVars
<1>3. VarType'
  BY <1>0, <1>2 DEF VarType
<1>4. RefInv'
  BY <1>2 DEF RefInv
<1>5. ASSUME NEW t \in InFlight PROVE t.nonce \in Nat
  <2>1. t \in TxRecord
    BY Flying
  <2> QED
    BY <2>1 DEF TxRecord
<1>6. SUFFICES ASSUME driver # "health" PROVE OnceInv'
  BY <1>2, <1>3, <1>4 DEF OnceInv
<1>7. /\ blocks[Block].counter <= round
      /\ nonce >= AccountNonce => blocks[Block].counter + 1 <= round
      /\ \A t \in InFlight :
             /\ t.kind # "invoke"
             /\ t.kind = "proof" => t.nonce <= AccountNonce
             /\ t.kind = "proof" /\ t.nonce = AccountNonce =>
                    blocks[Block].counter + 1 <= round /\ nonce <= AccountNonce
  BY <1>6 DEF OnceInv
<1>8. CASE IncludeTx
  <2>1. /\ AccountNonce' = AccountNonce + 1
        /\ \/ blocks'[Block'].counter = blocks[Block].counter
           \/ /\ blocks'[Block'].counter = blocks[Block].counter + 1
              /\ \E t \in InFlight : t.nonce = AccountNonce /\ t.kind \in {"proof", "invoke"}
    BY <1>8, IncludeStep
  <2>2. /\ blocks'[Block'].counter <= round
        /\ nonce >= AccountNonce + 1 => blocks'[Block'].counter + 1 <= round
    BY <1>0, <1>7, <2>1
  <2>3. ASSUME NEW t \in InFlight'
        PROVE  /\ t.kind # "invoke"
               /\ t.kind = "proof" => t.nonce <= AccountNonce + 1 /\ t.nonce # AccountNonce + 1
    BY <1>0, <1>2, <1>5, <1>7
  <2> QED
    BY <1>2, <2>1, <2>2, <2>3 DEF OnceInv
<1>9. CASE DropTx
  <2>1. UNCHANGED blocks /\ Block' = Block /\ AccountNonce' = AccountNonce
    BY <1>9, DropStep DEF Block, AccountNonce
  <2> QED
    BY <1>2, <1>7, <2>1 DEF OnceInv
<1>10. CASE OtherBlock
  <2>1. AccountNonce' \in {AccountNonce, AccountNonce + 1}
        /\ blocks'[Block'].counter = blocks[Block].counter
    BY <1>10, OtherStep
  <2>2. nonce >= AccountNonce' => blocks[Block].counter + 1 <= round
    BY <1>0, <1>7, <2>1
  <2>3. ASSUME NEW t \in InFlight'
        PROVE  /\ t.kind # "invoke"
               /\ t.kind = "proof" => t.nonce <= AccountNonce'
               /\ t.kind = "proof" /\ t.nonce = AccountNonce' =>
                      blocks[Block].counter + 1 <= round /\ nonce <= AccountNonce'
    <3>1. t.nonce \in Nat /\ t \in InFlight
      BY <1>2, <1>5
    <3>2. t.kind = "proof" => t.nonce <= AccountNonce
      BY <1>7, <3>1
    <3>3. CASE AccountNonce' = AccountNonce
      BY <1>7, <3>1, <3>3
    <3>4. CASE AccountNonce' = AccountNonce + 1
      BY <1>0, <1>7, <3>1, <3>2, <3>4
    <3> QED
      BY <2>1, <3>3, <3>4
  <2> QED
    BY <1>2, <1>7, <2>1, <2>2, <2>3 DEF OnceInv
<1> QED
  BY <1>3, <1>4, <1>8, <1>9, <1>10

-----------------------------------------------------------------------------
(* Rounds. *)

(* Step p is the first of a round, and then the number of rounds begun grows. *)
Begins(l, p, d, e, n) ==
    /\ p \in 11..(n * l + 10) /\ (p - 11) % l = 0 => e = d + 1
    /\ ~(p \in 11..(n * l + 10) /\ (p - 11) % l = 0) => e = d

(* The count stays right when the program goes on. *)
LEMMA BegunStep ==
    ASSUME NEW l \in {3, 8}, NEW n \in Nat \ {0}, NEW p \in Nat, NEW d \in Nat, NEW e \in Nat,
           p <= n * l + 11, Begun(l, p, d, n), Begins(l, p, d, e, n)
    PROVE  Begun(l, p + 1, e, n)
<1>1. CASE l = 3
  <2>1. CASE p < 11
    BY <1>1, <2>1 DEF Begun, Begins
  <2>2. CASE p = 11
    BY <1>1, <2>2 DEF Begun, Begins
  <2>3. CASE p > 11
    BY <1>1, <2>3 DEF Begun, Begins
  <2> QED
    BY <2>1, <2>2, <2>3
<1>2. CASE l = 8
  <2>1. CASE p < 11
    BY <1>2, <2>1 DEF Begun, Begins
  <2>2. CASE p = 11
    BY <1>2, <2>2 DEF Begun, Begins
  <2>3. CASE p > 11
    BY <1>2, <2>3 DEF Begun, Begins
  <2> QED
    BY <2>1, <2>2, <2>3
<1> QED
  BY <1>1, <1>2

(* A program's step. *)
LEMMA RoundDriver ==
    ASSUME InputType, PcType, VarType, RoundInv, Writes, Moved
    PROVE  RoundInv'
<1>0. /\ Len(Script) \in Nat /\ pc \in 1..(Len(Script) + 1) /\ round \in Nat /\ abridged \in BOOLEAN
      /\ RoundLength \in {3, 8}
  BY StepShape DEF PcType, VarType, InputType, RoundLength
<1>1. /\ driver' = driver /\ Script' = Script /\ RoundLength' = RoundLength
      /\ CounterLength' = CounterLength
  BY ScriptKept DEF Writes, inputVars
<1>2. /\ pc' = pc => round' = round
      /\ Passed => /\ pc \in 1..Len(Script) /\ pc' = pc + 1
                   /\ Script[pc].op = "nonce" => round' = round + 1
                   /\ Script[pc].op # "nonce" => round' = round
  <2>1. UNCHANGED round \/ (At("nonce") /\ pc' = pc + 1 /\ round' = round + 1)
    BY DEF Writes
  <2>2. At("nonce") => Script[pc].op = "nonce"
    BY Here
  <2> QED
    BY <1>0, <2>1, <2>2 DEF Passed
<1>3. CASE driver = "health"
  <2>1. ~At("nonce")
    BY <1>3, Here, StepShape
  <2>2. round' = round
    BY <2>1 DEF Writes
  <2> QED
    BY <1>1, <1>3, <2>2 DEF RoundInv, ShortDrivers
<1>4. CASE driver \in ShortDrivers \cup {"settlement"}
  <2>0. pc' = pc \/ Passed
    BY <1>4 DEF Moved, ShortDrivers
  <2>1. round' \in Nat
    BY <1>0, <1>2, <2>0
  <2>2. PICK n \in Nat : NonceAt(Script, n)
    BY <1>0, <1>4, ShortScripts, SettlementSteps
  <2>3. round' <= 1
    <3>1. CASE Passed /\ Script[pc].op = "nonce"
      <4>1. pc = n
        BY <1>2, <2>2, <3>1 DEF NonceAt
      <4>2. round = 0
        BY <1>0, <1>4, <2>2, <4>1 DEF RoundInv
      <4> QED
        BY <1>2, <3>1, <4>2
    <3>2. CASE ~(Passed /\ Script[pc].op = "nonce")
      <4>1. round' = round
        BY <1>2, <2>0, <3>2
      <4> QED
        BY <1>4, <4>1 DEF RoundInv
    <3> QED
      BY <3>1, <3>2
  <2>4. ASSUME NEW k \in Nat, NonceAt(Script, k), pc' <= k PROVE round' = 0
    <3>1. pc <= k
      BY <1>0, <1>2, <2>0, <2>4
    <3>2. round = 0
      BY <1>4, <2>4, <3>1 DEF RoundInv
    <3>3. CASE Passed /\ Script[pc].op = "nonce"
      <4>1. pc = k
        BY <1>2, <2>4, <3>3 DEF NonceAt
      <4> QED
        BY <1>0, <1>2, <2>4, <3>3, <4>1
    <3> QED
      BY <1>2, <2>0, <3>2, <3>3
  <2> QED
    BY <1>1, <1>4, <2>3, <2>4 DEF RoundInv, ShortDrivers
<1>5. CASE driver = "counter"
  <2>0. pc' = pc \/ Passed
    BY <1>5 DEF Moved
  <2>1. CASE pc' = pc
    BY <1>1, <1>2, <1>5, <2>1 DEF RoundInv, ShortDrivers
  <2>2. CASE Passed
    <3>1. /\ Len(Script) = IF abridged THEN CounterLength ELSE CounterLength + 1
          /\ \A i \in 1..Len(Script) :
                 Script[i].op = "nonce" <=> i \in 11..CounterLength /\ (i - 11) % RoundLength = 0
      BY <1>0, <1>5, CounterSteps
    <3>2. /\ pc \in 1..Len(Script) /\ pc' = pc + 1 /\ round' \in Nat
          /\ pc \in 11..CounterLength /\ (pc - 11) % RoundLength = 0 => round' = round + 1
          /\ ~(pc \in 11..CounterLength /\ (pc - 11) % RoundLength = 0) => round' = round
      BY <1>0, <1>2, <2>2, <3>1
    <3>3. /\ CounterLength \in Nat /\ CounterLength = Rounds * RoundLength + 10
          /\ Rounds \in Nat \ {0} /\ pc \in Nat
      BY <1>0, DriversAssumption DEF CounterLength
    <3>4. pc <= Rounds * RoundLength + 11
      BY <1>0, <3>1, <3>2, <3>3
    <3>5. Begun(RoundLength, pc, round, Rounds)
      BY <1>5 DEF RoundInv
    <3>6. Begins(RoundLength, pc, round, round', Rounds)
      BY <3>2, <3>3 DEF Begins
    <3>7. Begun(RoundLength, pc + 1, round', Rounds)
      BY <1>0, <3>2, <3>3, <3>4, <3>5, <3>6, BegunStep
    <3> QED
      BY <1>1, <1>5, <3>2, <3>7 DEF RoundInv, ShortDrivers
  <2> QED
    BY <2>0, <2>1, <2>2
<1> QED
  BY <1>3, <1>4, <1>5 DEF InputType, Drivers, ShortDrivers

(* A step of the chain. *)
LEMMA RoundChain ==
    ASSUME RoundInv, ChainMoves
    PROVE  RoundInv'
<1>1. UNCHANGED <<driver, pc, round>> /\ UNCHANGED inputVars
  BY DEF ChainMoves, inputVars
<1>2. Script' = Script /\ RoundLength' = RoundLength
  BY <1>1, ScriptKept
<1> QED
  BY <1>1, <1>2 DEF RoundInv

(* No more rounds begin than were asked for. *)
LEMMA RoundBound ==
    ASSUME InputType, PcType, VarType, RoundInv
    PROVE  round \in 0..Rounds
<1>0. round \in Nat /\ Rounds \in Nat \ {0} /\ pc \in Nat /\ abridged \in BOOLEAN
  BY DriversAssumption, StepShape DEF VarType, PcType, InputType
<1>1. CASE driver = "counter"
  <2>1. Begun(RoundLength, pc, round, Rounds) /\ RoundLength \in {3, 8}
    BY <1>0, <1>1 DEF RoundInv, RoundLength
  <2>2. CASE RoundLength = 3
    BY <1>0, <2>1, <2>2 DEF Begun
  <2>3. CASE RoundLength = 8
    BY <1>0, <2>1, <2>3 DEF Begun
  <2> QED
    BY <2>1, <2>2, <2>3
<1>2. CASE driver # "counter"
  <2>1. round <= 1
    BY <1>0, <1>2 DEF RoundInv, InputType, Drivers, ShortDrivers
  <2> QED
    BY <1>0, <2>1
<1> QED
  BY <1>1, <1>2

-----------------------------------------------------------------------------
(* What a program that goes on without a failure has seen. *)

(* The receipt that is waited for is that of the step before. *)
HashInv ==
    \A i \in 1..Len(Script) :
        /\ pc = i /\ i > 1 /\ Script[i].op = "await" /\ Sends(Script[i - 1]) /\ tx_hash
        => tx.kind = Script[i - 1].kind

(* Step i needed what has taken effect. *)
Seen(i) ==
    /\ Script[i].op = "prove" => done["deploy"] # 0
    /\ i > 1 /\ Strict(Script[i]) /\ Sends(Script[i - 1]) => done[Script[i - 1].kind] # 0

DoneInv == failed = 0 => \A i \in 1..Len(Script) : i < pc => Seen(i)

CountInv ==
    driver = "counter" /\ ~abridged /\ failed = 0 /\ pc = CounterLength + 2 =>
        blocks[Block].counter >= round

GreenInv == result = "green" => failed = 0 /\ pc = Len(Script) + 1

SeenInv == HashInv /\ DoneInv /\ CountInv /\ GreenInv

(* The receipt after a program's step. *)
LEMMA HashDriver ==
    ASSUME InputType, PcType, HashInv, Writes, Moved
    PROVE  HashInv'
<1>0. Len(Script) \in Nat /\ pc \in 1..(Len(Script) + 1)
  BY StepShape DEF PcType
<1>1. Script' = Script
  BY ScriptKept DEF Writes
<1>2. SUFFICES ASSUME NEW i \in 1..Len(Script), pc' = i, i > 1, Script[i].op = "await",
                      Sends(Script[i - 1]), tx_hash'
               PROVE  tx'.kind = Script[i - 1].kind
  BY <1>1 DEF HashInv
<1>3. CASE pc' = pc
  <2>1. ~At("send") /\ ~At("submit")
    BY <1>2, <1>3, Here
  <2>2. tx' = tx /\ tx_hash' = tx_hash
    BY <2>1 DEF Writes
  <2>3. tx.kind = Script[i - 1].kind
    BY <1>2, <1>3, <2>2 DEF HashInv
  <2> QED
    BY <2>2, <2>3
<1>4. CASE Passed
  <2>1. i - 1 = pc
    BY <1>0, <1>2, <1>4 DEF Passed
  <2>2. Sends(Script[pc]) /\ tx_hash' => tx'.kind = Script[pc].kind
    BY <1>4 DEF Passed
  <2> QED
    BY <1>2, <2>1, <2>2
<1> QED
  BY <1>0, <1>2, <1>3, <1>4 DEF Moved

(* What has been seen after a program's step. *)
LEMMA DoneDriver ==
    ASSUME InputType, PcType, VarType, ChainType, ChainInv, HashInv, DoneInv, Writes, Moved
    PROVE  DoneInv'
<1>0. /\ Len(Script) \in Nat /\ pc \in 1..(Len(Script) + 1) /\ failed \in Nat
      /\ failed' \in {failed, failed + 1}
  BY StepShape DEF PcType, Moved
<1>1. Script' = Script /\ done' = done
  BY ScriptKept DEF Writes
<1>2. SUFFICES ASSUME failed' = 0, NEW i \in 1..Len(Script), i < pc' PROVE Seen(i)
  BY <1>1 DEF DoneInv, Seen
<1>3. failed = 0
  BY <1>0, <1>2
<1>4. CASE i < pc
  BY <1>3, <1>4 DEF DoneInv
<1>5. CASE ~(i < pc)
  <2>1. Passed
    BY <1>0, <1>2, <1>3, <1>5 DEF Moved
  <2>2. i = pc
    BY <1>0, <1>2, <1>5, <2>1 DEF Passed
  <2>3. /\ Script[pc].op = "prove" => Provable
        /\ Strict(Script[pc]) => tx_hash /\ tx.status = "ok"
    BY <2>1 DEF Passed
  <2>4. Script[i].op = "prove" => done["deploy"] # 0
    <3>1. reference_block \in Int
      BY ChainFacts DEF VarType
    <3> QED
      BY <2>2, <2>3, <3>1 DEF Provable
  <2>5. ASSUME i > 1, Strict(Script[i]), Sends(Script[i - 1]) PROVE done[Script[i - 1].kind] # 0
    <3>1. tx.kind = Script[i - 1].kind
      BY <2>2, <2>3, <2>5 DEF HashInv, Strict
    <3>2. done[tx.kind] # 0
      BY <2>2, <2>3, <2>5 DEF ChainInv
    <3> QED
      BY <3>1, <3>2
  <2> QED
    BY <2>4, <2>5 DEF Seen
<1> QED
  BY <1>4, <1>5

(* The final check of the counter. *)
LEMMA CountDriver ==
    ASSUME InputType, PcType, VarType, ChainType, ChainInv, CountInv, Writes, Moved
    PROVE  CountInv'
<1>0. /\ Len(Script) \in Nat /\ pc \in 1..(Len(Script) + 1) /\ failed \in Nat
      /\ failed' \in {failed, failed + 1} /\ round \in Nat
  BY StepShape DEF PcType, Moved, VarType
<1>1. /\ Script' = Script /\ CounterLength' = CounterLength /\ UNCHANGED <<driver, abridged, blocks>>
      /\ Block' = Block
  BY ScriptKept DEF Writes, inputVars, Block
<1>2. SUFFICES ASSUME driver = "counter", ~abridged, failed' = 0, pc' = CounterLength + 2
               PROVE  blocks[Block].counter >= round'
  BY <1>1 DEF CountInv
<1>3. /\ Len(Script) = CounterLength + 1 /\ CounterLength \in Nat
      /\ Script[CounterLength + 1].op = "counter"
  <2>1. CounterLength \in Nat
    BY DriversAssumption DEF CounterLength, RoundLength
  <2> QED
    BY <1>2, <2>1, CounterSteps DEF InputType
<1>4. failed = 0 /\ failed' = failed
  BY <1>0, <1>2
<1>5. ~At("nonce")
  BY <1>2, <1>3, Here, <1>0 DEF Writes, Moved, Passed
<1>6. round' = round
  BY <1>5 DEF Writes
<1>7. CASE pc' = pc
  BY <1>2, <1>4, <1>6, <1>7 DEF CountInv
<1>8. CASE Passed
  <2>1. pc = CounterLength + 1
    BY <1>0, <1>2, <1>3, <1>8 DEF Passed
  <2>2. \E b \in Latest : Expected(b.counter)
    BY <1>3, <1>4, <1>8, <2>1 DEF Passed
  <2>3. PICK c \in {Block - 1, Block} \cap 1..Block : Expected(blocks[c].counter)
    BY <2>2 DEF Latest
  <2>4. blocks[c].counter = round
    BY <1>2, <2>3 DEF Expected
  <2>5. blocks[c].counter <= blocks[Block].counter /\ blocks[Block].counter \in Nat
    BY <2>3, ChainFacts DEF ChainInv
  <2> QED
    BY <1>0, <1>6, <2>4, <2>5
<1> QED
  BY <1>2, <1>7, <1>8 DEF Moved

(* A program's step. *)
LEMMA SeenDriver ==
    ASSUME InputType, PcType, VarType, ChainType, ChainInv, SeenInv, Writes, Moved
    PROVE  SeenInv'
<1>1. Script' = Script
  BY ScriptKept DEF Writes
<1>2. GreenInv'
  BY <1>1 DEF GreenInv, Moved
<1> QED
  BY <1>2, HashDriver, DoneDriver, CountDriver DEF SeenInv

(* A step of the chain. *)
LEMMA SeenChain ==
    ASSUME InputType, VarType, ChainType, ChainInv, NeedsInv, SeenInv,
           IncludeTx \/ DropTx \/ OtherBlock
    PROVE  SeenInv'
<1>0. ChainMoves
  BY IncludeStep, DropStep, OtherStep
<1>1. /\ UNCHANGED inputVars /\ UNCHANGED <<driver, abridged, pc, failed, result, round, tx_hash>>
      /\ tx'.kind = tx.kind
  BY <1>0 DEF ChainMoves, inputVars
<1>2. Script' = Script /\ CounterLength' = CounterLength
  BY <1>1, ScriptKept
<1>3. HashInv' /\ GreenInv'
  BY <1>1, <1>2 DEF HashInv, GreenInv, SeenInv
<1>4. DoneInv'
  <2>1. SUFFICES ASSUME failed = 0, NEW i \in 1..Len(Script), i < pc PROVE Seen(i)'
    BY <1>1, <1>2 DEF DoneInv
  <2>2. Seen(i)
    BY <2>1 DEF SeenInv, DoneInv
  <2>3. Sends(Script[i]) => Script[i].kind \in Kinds
    BY StepShape, KindsSent DEF Sends
  <2>4. i > 1 /\ Sends(Script[i - 1]) => Script[i - 1].kind \in Kinds
    <3>1. i > 1 => i - 1 \in 1..Len(Script)
      BY StepShape
    <3> QED
      BY <3>1, StepShape, KindsSent DEF Sends
  <2>5. /\ "deploy" \in Kinds
        /\ \A k \in Kinds : done[k] # 0 => done'[k] # 0
    BY <1>0 DEF ChainMoves, Kinds
  <2>6. (Script[i].op = "prove" => done["deploy"] # 0)'
    BY <1>2, <2>2, <2>5 DEF Seen
  <2>7. (i > 1 /\ Strict(Script[i]) /\ Sends(Script[i - 1]) => done[Script[i - 1].kind] # 0)'
    BY <1>2, <2>2, <2>4, <2>5 DEF Seen
  <2> QED
    BY <2>6, <2>7 DEF Seen
<1>5. CountInv'
  <2>0. blocks[Block].counter \in Nat /\ round \in Nat
    BY ChainFacts DEF VarType
  <2>1. blocks'[Block'].counter >= blocks[Block].counter
    <3>1. CASE IncludeTx
      <4>1. blocks'[Block'].counter \in {blocks[Block].counter, blocks[Block].counter + 1}
        BY <3>1, IncludeStep
      <4> QED
        BY <2>0, <4>1
    <3>2. CASE DropTx
      <4>1. blocks'[Block'].counter = blocks[Block].counter
        BY <3>2, DropStep DEF Block
      <4> QED
        BY <2>0, <4>1
    <3>3. CASE OtherBlock
      <4>1. blocks'[Block'].counter = blocks[Block].counter
        BY <3>3, OtherStep
      <4> QED
        BY <2>0, <4>1
    <3> QED
      BY <3>1, <3>2, <3>3
  <2>2. blocks'[Block'].counter \in Nat
    <3>1. ChainType'
      BY IncludeStep, DropStep, OtherStep
    <3>2. blocks' \in Seq(BlockRecord) /\ Block' \in 1..Len(blocks')
      BY <3>1 DEF ChainType, Block
    <3>3. blocks'[Block'] \in BlockRecord
      BY <3>2, ElementOf
    <3> QED
      BY <3>3 DEF BlockRecord
  <2> QED
    BY <1>1, <1>2, <2>0, <2>1, <2>2 DEF CountInv, SeenInv
<1> QED
  BY <1>3, <1>4, <1>5 DEF SeenInv

(* What a program that has not failed has seen of its message, once it is past the check. *)
MessageInv ==
    failed = 0 /\ result # "red" =>
        \A i \in 1..Len(Script) : i < pc /\ Script[i].op = "messages" => message \in Tolerated

(* Only the check of the messages writes what it saw, and it ends the run or finds what
   the program tolerates. *)
LEMMA MessageStep ==
    ASSUME InputType, PcType, Script' = Script, ProgramStep
    PROVE  \/ message' = message /\ ~At("messages")
           \/ failed' = failed /\ result' # "red" => message' \in Tolerated
<1>1. CASE VerifyMessages
  <2> DEFINE s == Script[pc]
  <2>1. result = "running" /\ pc \in 1..Len(Script) /\ s.op = "messages" /\ Now = s
    BY <1>1, Here DEF VerifyMessages
  <2>2. s.bad \in Excused(Any \cup Soft, "absent") /\ s.no_hash \in Excused(Any \cup Soft, "differs")
    BY <2>1, StepShape
  <2>3. "match" \in Tolerated
    BY DEF Tolerated
  <2>4. \/ Fault(s.bad) /\ message' = "absent"
        \/ message' = "match"
        \/ Fault(s.no_hash) /\ message' = "differs"
    BY <1>1, <2>1 DEF VerifyMessages
  <2>5. failed + 1 # failed
    BY DEF PcType
  <2>6. ASSUME NEW seen, NEW bad \in Excused(Any \cup Soft, seen), Fault(bad), failed' = failed,
               result' # "red"
        PROVE  seen \in Tolerated
    <3>1. PICK b \in bad : /\ failed' = IF b \in {"stop", "fail", "skip"} THEN failed + 1 ELSE failed
                           /\ result' = IF b \in {"stop", "bail"} THEN "red" ELSE result
      BY <2>6 DEF Fault
    <3>2. b \notin {"stop", "fail", "skip", "bail"}
      BY <2>5, <2>6, <3>1
    <3>3. b \in Any \cup Soft
      BY DEF Excused
    <3>4. b = "ignore"
      BY <3>2, <3>3 DEF Any, Soft
    <3> QED
      BY <3>4 DEF Excused
  <2> HIDE DEF s
  <2> QED
    BY <2>2, <2>3, <2>4, <2>6
<1>2. CASE ProgramStep /\ ~VerifyMessages
  <2>1. message' = message
    BY <1>2 DEF ProgramStep, DoCheck, SendTransaction, DeclareSkipped, SendFails, NothingToAwait,
         ReceiptAccepted, ReceiptRefused, PollAgain, BlockAfter, FetchNonce, RunProver,
         SubmitAccepted, SubmitRefused, VerifyCounter, Summary
  <2>2. Len(Script) \in Nat
    BY StepShape
  <2>3. \/ At("check") \/ At("send") \/ At("await") \/ At("next_block") \/ At("nonce")
        \/ At("prove") \/ At("submit") \/ At("counter") \/ pc = Len(Script) + 1
    BY <1>2 DEF ProgramStep, DoCheck, SendTransaction, DeclareSkipped, SendFails, NothingToAwait,
         ReceiptAccepted, ReceiptRefused, PollAgain, BlockAfter, FetchNonce, RunProver,
         SubmitAccepted, SubmitRefused, VerifyCounter, Summary
  <2>4. ~At("messages")
    BY <2>2, <2>3 DEF At
  <2> QED
    BY <2>1, <2>4
<1> QED
  BY <1>1, <1>2

(* A program's step. *)
LEMMA MessageDriver ==
    ASSUME InputType, PcType, MessageInv, ProgramStep, Writes, Moved
    PROVE  MessageInv'
<1>0. /\ Len(Script) \in Nat /\ pc \in 1..(Len(Script) + 1) /\ failed \in Nat
      /\ failed' \in {failed, failed + 1} /\ result = "running"
  BY StepShape DEF PcType, Moved
<1>1. UNCHANGED inputVars
  BY DEF Writes
<1>2. Script' = Script /\ Tolerated' = Tolerated
  BY <1>1, ScriptKept DEF Tolerated, inputVars
<1>3. SUFFICES ASSUME failed' = 0, result' # "red", NEW i \in 1..Len(Script), i < pc',
                      Script[i].op = "messages"
               PROVE  message' \in Tolerated
  BY <1>2 DEF MessageInv
<1>4. failed = 0 /\ failed' = failed /\ failed' # failed + 1
  BY <1>0, <1>3
<1>5. pc' = pc \/ Passed
  BY <1>4 DEF Moved
<1>8. message' \in Tolerated \/ (message' = message /\ ~At("messages"))
  BY <1>2, <1>3, <1>4, MessageStep
<1>6. CASE i < pc
  <2>1. message \in Tolerated
    BY <1>0, <1>3, <1>4, <1>6 DEF MessageInv
  <2> QED
    BY <1>8, <2>1
<1>7. CASE ~(i < pc)
  <2>1. pc' = pc + 1 /\ pc = i
    BY <1>0, <1>3, <1>5, <1>7 DEF Passed
  <2>2. At("messages")
    BY <1>0, <1>3, <2>1 DEF At
  <2> QED
    BY <1>8, <2>2
<1> QED
  BY <1>6, <1>7

-----------------------------------------------------------------------------
(* The inductive invariant. *)

Inv ==
    /\ InputType /\ PcType /\ VarType /\ RestType /\ stalled \in BOOLEAN
    /\ ChainType /\ ChainInv /\ NeedsInv
    /\ RefInv /\ OnceInv /\ RoundInv /\ SeenInv /\ MessageInv

(* It holds at the start. *)
LEMMA InvInit == Init => Inv
<1> SUFFICES ASSUME Init PROVE Inv
  OBVIOUS
<1> DEFINE first == [nonce |-> 1, counter |-> 0]
<1>0. /\ InputType /\ pc = 1 /\ failed = 0 /\ result = "running" /\ round = 0 /\ tx_hash = FALSE
      /\ nonce = 0 /\ reference_block = 0 /\ attempt = 1 /\ polls = 0 /\ message = "none"
      /\ others = 0 /\ blocks = <<first>> /\ tx = NoTx /\ left = {}
  BY DEF Init, InputType
<1>1. first \in BlockRecord /\ first.nonce = 1 /\ first.counter = 0
  BY DEF BlockRecord
<1>2. /\ tx \in TxRecord /\ tx.kind = "none" /\ tx.status = "none" /\ tx.nonce = 0
  BY <1>0 DEF NoTx, TxRecord, Kinds
<1> HIDE DEF first
<1>3. blocks \in Seq(BlockRecord) /\ Block = 1 /\ blocks[Block] = first
  BY <1>0, <1>1 DEF Block
<1>4. AccountNonce = 1 /\ blocks[Block].counter = 0
  BY <1>1, <1>3 DEF AccountNonce
<1>5. PICK declared \in SUBSET {"declare", "declare_bank"} :
          done = [k \in Kinds |-> IF k \in declared THEN 1 ELSE 0]
  BY DEF Init
<1>6. Len(Script) \in Nat
  BY <1>0, StepShape
<1>7. PcType /\ VarType /\ RestType
  <2>1. PcType
    BY <1>0, <1>6 DEF PcType
  <2>2. VarType
    BY <1>0, <1>3 DEF VarType
  <2>3. 1 \in 1..MaxAttempts /\ 0 \in 0..MaxPolls
    BY DriversAssumption
  <2>4. RestType
    BY <1>0, <2>3 DEF RestType
  <2> QED
    BY <2>1, <2>2, <2>4
<1>8. ChainType
  BY <1>0, <1>2, <1>3, <1>5, DriversAssumption DEF ChainType
<1>9. ChainInv
  BY <1>0, <1>1, <1>2, <1>3, <1>4 DEF ChainInv
<1>10. NeedsInv
  BY <1>5 DEF NeedsInv, Needs
<1>11. RefInv /\ OnceInv
  BY <1>0, <1>2, <1>4 DEF RefInv, OnceInv, InFlight
<1>12. RoundInv
  <2>1. Begun(RoundLength, pc, round, Rounds)
    BY <1>0, DriversAssumption DEF Begun, RoundLength
  <2> QED
    BY <1>0, <2>1 DEF RoundInv
<1>13. SeenInv
  <2>1. HashInv /\ DoneInv /\ GreenInv
    BY <1>0 DEF HashInv, DoneInv, GreenInv
  <2>2. CountInv
    BY <1>0, <1>4 DEF CountInv
  <2> QED
    BY <2>1, <2>2 DEF SeenInv
<1>14. stalled \in BOOLEAN
  BY DEF Init
<1>15. MessageInv
  BY <1>0, <1>6 DEF MessageInv
<1> QED
  BY <1>0, <1>7, <1>8, <1>9, <1>10, <1>11, <1>12, <1>13, <1>14, <1>15 DEF Inv

(* Every step keeps it. *)
LEMMA InvStep == Inv /\ [Next]_vars => Inv'
<1> SUFFICES ASSUME Inv, [Next]_vars PROVE Inv'
  OBVIOUS
<1>0. /\ InputType /\ PcType /\ VarType /\ RestType /\ ChainType /\ ChainInv /\ NeedsInv
      /\ RefInv /\ OnceInv /\ RoundInv /\ SeenInv /\ MessageInv
  BY DEF Inv
<1>4. stalled' \in BOOLEAN
  <2>1. stalled \in BOOLEAN
    BY DEF Inv
  <2>2. stalled' = stalled \/ stalled' = TRUE
    BY DEF Next, DriverStep, Stall, IncludeTx, DropTx, OtherBlock, vars
  <2> QED
    BY <2>1, <2>2
<1>1. CASE DriverStep
  <2>0. ProgramStep
    BY <1>1 DEF DriverStep
  <2>1. Writes
    BY <1>0, <2>0, DriverWrites
  <2>2. UNCHANGED inputVars /\ RestType'
    BY <2>1 DEF Writes
  <2>3. Script' = Script
    BY <2>2, ScriptKept
  <2>4. Moved
    BY <1>0, <2>0, <2>3, DriverMoves
  <2>5. InputType'
    BY <1>0, <2>2 DEF InputType, inputVars
  <2>6. PcType'
    BY <2>4 DEF Moved
  <2>7. ChainType' /\ ChainInv' /\ NeedsInv'
    BY <1>0, <2>1, SendStep DEF VarType
  <2>8. VarType' /\ RefInv' /\ OnceInv'
    BY <1>0, <2>1, <2>4, OnceDriver
  <2>9. RoundInv'
    BY <1>0, <2>1, <2>4, RoundDriver
  <2>10. SeenInv'
    BY <1>0, <2>1, <2>4, SeenDriver
  <2>11. MessageInv'
    BY <1>0, <2>0, <2>1, <2>4, MessageDriver
  <2> QED
    BY <1>4, <2>2, <2>5, <2>6, <2>7, <2>8, <2>9, <2>10, <2>11 DEF Inv
<1>2. CASE IncludeTx \/ DropTx \/ OtherBlock
  <2>1. ChainType' /\ ChainInv' /\ NeedsInv' /\ ChainMoves
    BY <1>0, <1>2, IncludeStep, DropStep, OtherStep
  <2>2. /\ UNCHANGED inputVars /\ UNCHANGED <<pc, failed, result>>
        /\ UNCHANGED <<tx_hash, attempt, polls, message>>
    BY <2>1 DEF ChainMoves, waitVars
  <2>3. Script' = Script
    BY <2>2, ScriptKept
  <2>4. InputType' /\ PcType' /\ RestType'
    BY <1>0, <2>2, <2>3 DEF InputType, inputVars, PcType, RestType
  <2>5. VarType' /\ RefInv' /\ OnceInv'
    BY <1>0, <1>2, OnceChain
  <2>6. RoundInv'
    BY <1>0, <2>1, RoundChain
  <2>7. SeenInv'
    BY <1>0, <1>2, SeenChain
  <2>8. MessageInv'
    BY <1>0, <2>2, <2>3 DEF MessageInv, Tolerated, inputVars
  <2> QED
    BY <1>4, <2>1, <2>4, <2>5, <2>6, <2>7, <2>8 DEF Inv
<1>3. CASE Stall \/ UNCHANGED vars
  <2>1. /\ UNCHANGED inputVars /\ UNCHANGED <<driver, abridged, gateway_url>>
        /\ UNCHANGED <<pc, failed, result, round, tx_hash, reference_block, nonce>>
        /\ UNCHANGED <<attempt, polls, message>> /\ UNCHANGED <<tx, left, blocks, done, others>>
    BY <1>3 DEF Stall, vars, inputVars, waitVars, chainVars
  <2>2. Script' = Script /\ RoundLength' = RoundLength /\ CounterLength' = CounterLength
    BY <2>1, ScriptKept
  <2>3. Block' = Block /\ AccountNonce' = AccountNonce /\ InFlight' = InFlight
    BY <2>1 DEF Block, AccountNonce, InFlight
  <2>4. InputType' /\ PcType' /\ VarType' /\ RestType'
    BY <1>0, <2>1, <2>2, <2>3 DEF InputType, PcType, VarType, RestType
  <2>5. ChainType' /\ ChainInv' /\ NeedsInv'
    BY <1>0, <2>1, <2>3 DEF ChainType, ChainInv, NeedsInv
  <2>6. RefInv' /\ OnceInv' /\ RoundInv'
    BY <1>0, <2>1, <2>2, <2>3 DEF RefInv, OnceInv, RoundInv
  <2>7. SeenInv'
    BY <1>0, <2>1, <2>2, <2>3 DEF SeenInv, HashInv, DoneInv, Seen, CountInv, GreenInv
  <2>8. MessageInv'
    BY <1>0, <2>1, <2>2 DEF MessageInv, Tolerated
  <2> QED
    BY <1>4, <2>4, <2>5, <2>6, <2>7, <2>8 DEF Inv
<1> QED
  BY <1>1, <1>2, <1>3 DEF Next

(* It holds in every run of every program. *)
LEMMA InvHolds == Spec => []Inv
  BY InvInit, InvStep, PTL DEF Spec

-----------------------------------------------------------------------------
(* The properties. *)

(* The variables of every program and of its chain keep their types, and no program
   constructs more transactions than its rounds. *)
THEOREM TypeCorrect == Spec => []TypeOK
<1>1. Inv => TypeOK
  <2> SUFFICES ASSUME Inv PROVE TypeOK
    OBVIOUS
  <2>1. round \in 0..Rounds
    BY RoundBound DEF Inv
  <2>2. InputType /\ PcType /\ VarType /\ RestType /\ ChainType /\ stalled \in BOOLEAN
    BY DEF Inv
  <2>3. {tx} \cup left \subseteq TxRecord
    BY <2>2 DEF ChainType
  <2> QED
    BY <2>1, <2>2, <2>3 DEF TypeOK, InputType, PcType, VarType, RestType, ChainType, TxRecord,
                            BlockRecord
<1> QED
  BY <1>1, InvHolds, PTL

(* However many rounds, attempts and polls a program is given, and however often an
   answer is lost, each round's proof takes effect at most once. *)
THEOREM OncePerRoundHolds == Spec => []OncePerRound
<1>1. Inv => OncePerRound
  BY DEF Inv, OnceInv, OncePerRound
<1> QED
  BY <1>1, InvHolds, PTL

(* A program that sends what it needs, and insists on it, has all of it. *)
LEMMA AllDone ==
    ASSUME Inv, result = "green"
    PROVE  \A k \in OwnKinds : done[k] # 0
<1>0. /\ InputType /\ abridged \in BOOLEAN /\ Len(Script) \in Nat
      /\ NeedsInv /\ pc = Len(Script) + 1 /\ \A i \in 1..Len(Script) : i < pc => Seen(i)
  BY StepShape DEF Inv, SeenInv, GreenInv, DoneInv, InputType
<1>1. \A k : HasPair(Script, k) => done[k] # 0
  BY <1>0 DEF HasPair, Seen
<1>2. HasProve(Script) => done["deploy"] # 0
  BY <1>0 DEF HasProve, Seen
<1>3. /\ done["deploy"] # 0 => done["declare"] # 0
      /\ done["deploy_bank"] # 0 => done["declare_bank"] # 0
      /\ done["invoke"] # 0 => done["deploy"] # 0
      /\ done["deposit"] # 0 => done["deploy_bank"] # 0 /\ done["approve"] # 0
      /\ done["match_deposit"] # 0 => done["deposit"] # 0
  BY <1>0 DEF NeedsInv, Needs, Kinds
<1>4. CASE driver = "health"
  BY <1>0, <1>1, <1>3, <1>4, HealthSteps DEF OwnKinds
<1>5. CASE driver = "settlement"
  BY <1>0, <1>1, <1>2, <1>3, <1>5, SettlementSteps DEF OwnKinds
<1>6. CASE driver = "counter"
  BY <1>0, <1>1, <1>3, <1>6, CounterSteps DEF OwnKinds
<1>7. CASE driver \in ShortDrivers
  BY <1>0, <1>1, <1>3, <1>7, ShortScripts DEF OwnKinds, ShortDrivers
<1> QED
  BY <1>0, <1>4, <1>5, <1>6, <1>7 DEF InputType, Drivers, ShortDrivers

(* A green run of any program is the truth about the chain: every transaction of its
   script took effect, the ones whose receipts are ignored too, the counter program's
   increments are on the chain exactly once for each round, and the message of the
   virtual transaction is one that the program tolerates. *)
THEOREM GreenMeansDoneHolds == Spec => []GreenMeansDone
<1>1. Inv => GreenMeansDone
  <2> SUFFICES ASSUME Inv, result = "green" PROVE GreenMeansDone
    BY DEF GreenMeansDone
  <2>0. InputType /\ Len(Script) \in Nat /\ failed = 0 /\ pc = Len(Script) + 1
    BY StepShape DEF Inv, SeenInv, GreenInv
  <2>1. Sent \subseteq OwnKinds
    BY <2>0, StepShape DEF Sent
  <2>2. \A k \in Sent : done[k] # 0
    BY <2>1, AllDone
  <2>3. ASSUME driver = "counter", ~abridged PROVE blocks[Block].counter = Rounds
    <3>0. /\ CounterLength = 10 + Rounds * RoundLength /\ CounterLength \in Nat
          /\ Rounds \in Nat /\ RoundLength = 8
      BY <2>3, DriversAssumption DEF CounterLength, RoundLength
    <3>1. pc = CounterLength + 2
      <4>1. Len(Script) = CounterLength + 1
        BY <2>0, <2>3, CounterSteps DEF InputType
      <4> QED
        BY <2>0, <3>0, <4>1
    <3>2. round = Rounds
      <4>1. Begun(RoundLength, pc, round, Rounds)
        BY <2>3 DEF Inv, RoundInv
      <4> QED
        BY <3>0, <3>1, <4>1 DEF Begun
    <3>3. blocks[Block].counter >= round
      BY <2>0, <2>3, <3>1 DEF Inv, SeenInv, CountInv
    <3>4. blocks[Block].counter <= round /\ blocks[Block].counter \in Nat
      BY <2>3, ChainFacts DEF Inv, OnceInv
    <3> QED
      BY <3>0, <3>2, <3>3, <3>4
  <2>4. ASSUME driver \in MessageDrivers PROVE message \in Tolerated
    <3>1. driver \in ShortDrivers \/ driver = "settlement"
      BY <2>4 DEF MessageDrivers, ShortDrivers
    <3>2. HasMessages(Script)
      BY <2>0, <3>1, ShortScripts, SettlementSteps DEF InputType
    <3>3. PICK i \in 1..Len(Script) : Script[i].op = "messages"
      BY <3>2 DEF HasMessages
    <3>4. i < pc
      BY <2>0
    <3> QED
      BY <2>0, <3>3, <3>4 DEF Inv, MessageInv
  <2> QED
    BY <2>2, <2>3, <2>4 DEF GreenMeansDone
<1> QED
  BY <1>1, InvHolds, PTL
=============================================================================
