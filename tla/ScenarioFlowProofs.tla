-------------------------- MODULE ScenarioFlowProofs --------------------------
(***************************************************************************)
(* Proofs about ScenarioFlow, for any cells, users and number of attempts: *)
(*   - what the tests of every flow have in common, whatever the platforms:*)
(*     a session before the login, the login before anything else, a read  *)
(*     before what takes something from the file (EveryTestInOrder);       *)
(*   - what the tests of the flows that stop hand on (StoppingHandsOver);  *)
(*   - the invariant that follows a test through isolation, reloads,       *)
(*     cached sessions, failures, kills and later attempts (IInv);         *)
(*   - that the tests of share-with never compare anything (ShareInv).     *)
(* A step of the model either goes on in its test, starts the next test,   *)
(* ends the spec or starts the test over; the lemmas in the middle say     *)
(* what each of the four keeps of each part of the invariant.              *)
(***************************************************************************)
EXTENDS ScenarioFlow, TLAPS

(* The accounts of the application are at a provider of its own.           *)
External(ref) == Mechanism(ref) = "external-idp"

(* The tests a flow makes sessions in before its own.                      *)
Warm(c) ==
  IF c.flow \in {"contact-token", "webapp-share"} THEN Len(Prewarm(c)) ELSE 0

(* A cell Init may choose.                                                 *)
Legal(c) ==
  /\ c.flow \in StoppingFlows \cup {"login", "share-with"}
  /\ \A who \in Parties :
       (c.flow # "login" \/ who = "sender") => Supports(c.flow, who, c[who])

(* The steps that write the runtime file.                                  *)
Saves == {"saveInvite", "saveContact", "saveContent", "saveSender"}

(* The steps that use the file, or that the flows which stop alone have.   *)
FileOps == Saves \cup {"clear", "load", "needName", "needSender", "accept",
                       "compare", "capture", "prove"}

-----------------------------------------------------------------------------
(* A cell the registry supports has two of the platforms that can log in;  *)
(* in share-with and contact-wayf neither has an external provider.        *)
LEMMA LegalPlatforms ==
  ASSUME NEW c, Legal(c), NEW who \in Parties, c.flow # "login" \/ who = "sender"
  PROVE  /\ c[who].platform \in {"nextcloud", "ocmgo", "ocis", "opencloud", "cernbox"}
         /\ c.flow \in {"share-with", "contact-wayf"} => Mechanism(c[who]) = "same-origin"
<1>1. Supports(c.flow, who, c[who])
  BY DEF Legal
<1>2. loginAdapters \in Needs(c.flow, who)
  BY DEF Legal, Needs, Parties, StoppingFlows, ContactFlows
<1>3. Resolves(loginAdapters, c[who])
  BY <1>1, <1>2 DEF Supports
<1>4. c[who].platform \in {"nextcloud", "ocmgo", "ocis", "opencloud", "cernbox"}
  BY <1>3 DEF Resolves, loginAdapters
<1>5. ASSUME c.flow = "share-with"
      PROVE  c[who].platform # "cernbox"
  <2>1. shareWithFlowSenderAdapters \in Needs(c.flow, who)
    BY <1>5 DEF Needs, Parties, shareWithFlowSenderAdapters, shareWithFlowReceiverAdapters
  <2>2. Resolves(shareWithFlowSenderAdapters, c[who])
    BY <1>1, <2>1 DEF Supports
  <2>3. QED
    BY <2>2 DEF Resolves, shareWithFlowSenderAdapters
<1>6. ASSUME c.flow = "contact-wayf"
      PROVE  c[who].platform # "cernbox"
  <2>1. contactWayfSenderAdapters \in Needs(c.flow, who)
    BY <1>6 DEF Needs, Parties, contactWayfSenderAdapters, contactWayfReceiverAdapters
  <2>2. Resolves(contactWayfSenderAdapters, c[who])
    BY <1>1, <2>1 DEF Supports
  <2>3. QED
    BY <2>2 DEF Resolves, contactWayfSenderAdapters
<1>7. QED
  BY <1>4, <1>5, <1>6 DEF Mechanism

(* The tests ahead of a flow make one session each, the sender's first,    *)
(* and the last is the receiver's where it has a provider.                 *)
LEMMA PrewarmTests ==
  ASSUME NEW c
  PROVE  /\ Prewarm(c) \in Seq({Test("sender", <<"idp">>), Test("receiver", <<"idp">>)})
         /\ Len(Prewarm(c)) \in 0..2
         /\ Len(Prewarm(c)) =
              (IF External(c.sender) THEN 1 ELSE 0) + (IF External(c.receiver) THEN 1 ELSE 0)
         /\ \A t \in 1..Len(Prewarm(c)) :
              /\ Prewarm(c)[t].ops = <<"idp">>
              /\ Prewarm(c)[t].who =
                   (IF t = 1 /\ External(c.sender) THEN "sender" ELSE "receiver")
              /\ t = Len(Prewarm(c)) /\ External(c.receiver) => Prewarm(c)[t].who = "receiver"
<1> DEFINE S == {Test("sender", <<"idp">>), Test("receiver", <<"idp">>)}
           A == IF Mechanism(c.sender) = "external-idp"
                THEN <<Test("sender", <<"idp">>)>> ELSE <<>>
           B == IF Mechanism(c.receiver) = "external-idp"
                THEN <<Test("receiver", <<"idp">>)>> ELSE <<>>
<1>1. A \in Seq(S) /\ B \in Seq(S)
  <2>1. <<>> \in Seq(S)
    OBVIOUS
  <2>2. <<Test("sender", <<"idp">>)>> \in Seq(S)
    OBVIOUS
  <2>3. <<Test("receiver", <<"idp">>)>> \in Seq(S)
    OBVIOUS
  <2> HIDE DEF S
  <2>4. QED
    BY <2>1, <2>2, <2>3
<1>2. Prewarm(c) \in Seq(S)
  BY <1>1 DEF Prewarm
<1>3. QED
  BY <1>2 DEF Prewarm, External, Test

(* A flow that stops is two pairs of tests after those ahead of it.        *)
LEMMA TwoPairs ==
  ASSUME NEW S, NEW P \in Seq(S), NEW a, NEW b, NEW d, NEW e,
         NEW T, T = P \o <<a, b>> \o <<d, e>>
  PROVE  LET n == Len(P)
         IN /\ Len(T) = n + 4 /\ DOMAIN T = 1..(n + 4)
            /\ \A t \in 1..n : T[t] = P[t]
            /\ T[n + 1] = a /\ T[n + 2] = b /\ T[n + 3] = d /\ T[n + 4] = e
<1> DEFINE M == P \o <<a, b>>
           n == Len(P)
           R == S \cup {a, b, d, e}
<1>1. n \in Nat /\ P \in Seq(R) /\ <<a, b>> \in Seq(R) /\ <<d, e>> \in Seq(R)
  OBVIOUS
<1>2. M \in Seq(R) /\ Len(M) = n + 2
  BY <1>1
<1>3. /\ \A t \in 1..n : M[t] = P[t]
      /\ M[n + 1] = a /\ M[n + 2] = b
  BY <1>1
<1>4. T = M \o <<d, e>>
  OBVIOUS
<1> HIDE DEF M, R
<1>5. T \in Seq(R) /\ Len(T) = n + 4
  BY <1>1, <1>2, <1>4
<1>6. /\ \A t \in 1..(n + 2) : T[t] = M[t]
      /\ T[n + 3] = d /\ T[n + 4] = e
  BY <1>1, <1>2, <1>4, SMTT(20)
<1>7. QED
  BY <1>1, <1>3, <1>5, <1>6

(* Where the tests of a flow that stops are.                               *)
LEMMA StoppingTests ==
  ASSUME NEW c, Legal(c), c.flow \in StoppingFlows
  PROVE  LET T == TestsOf(c)
             n == Warm(c)
             trust == IF c.flow = "contact-wayf" THEN WayfTests(c) ELSE TrustTests(c)
             file  == IF c.flow = "webapp-share" THEN WebappTests(c) ELSE FileTests(c)
         IN /\ n \in 0..2
            /\ Len(T) = n + 4 /\ DOMAIN T = 1..(n + 4)
            /\ \A t \in 1..n : T[t] = Prewarm(c)[t]
            /\ T[n + 1] = trust[1] /\ T[n + 2] = trust[2]
            /\ T[n + 3] = file[1] /\ T[n + 4] = file[2]
<1> DEFINE T == TestsOf(c)
           P == IF c.flow = "contact-wayf" THEN <<>> ELSE Prewarm(c)
           trust == IF c.flow = "contact-wayf" THEN WayfTests(c) ELSE TrustTests(c)
           file  == IF c.flow = "webapp-share" THEN WebappTests(c) ELSE FileTests(c)
           S == {Test("sender", <<"idp">>), Test("receiver", <<"idp">>)}
<1>1. P \in Seq(S) /\ Len(P) \in 0..2 /\ Warm(c) = Len(P)
  <2>1. CASE c.flow = "contact-wayf"
    BY <2>1 DEF Warm
  <2>2. CASE c.flow \in {"contact-token", "webapp-share"}
    BY <2>2, PrewarmTests DEF Warm
  <2>3. QED
    BY <2>1, <2>2 DEF StoppingFlows, ContactFlows
<1>2. trust = <<trust[1], trust[2]>> /\ file = <<file[1], file[2]>>
  BY DEF TrustTests, WayfTests, FileTests, WebappTests
<1>3. T = P \o trust \o file
  <2>1. CASE c.flow = "contact-wayf"
    <3>1. <<>> \o trust = trust
      BY <1>2, <2>1
    <3>2. QED
      BY <2>1, <3>1 DEF TestsOf
  <2>2. CASE c.flow \in {"contact-token", "webapp-share"}
    BY <2>2 DEF TestsOf
  <2>3. QED
    BY <2>1, <2>2 DEF StoppingFlows, ContactFlows
<1>4. \A t \in 1..Warm(c) : P[t] = Prewarm(c)[t]
  BY DEF Warm
<1> HIDE DEF T, P, trust, file, S
<1>5. T = P \o <<trust[1], trust[2]>> \o <<file[1], file[2]>>
  BY <1>2, <1>3
<1>6. /\ Len(T) = Len(P) + 4 /\ DOMAIN T = 1..(Len(P) + 4)
      /\ \A t \in 1..Len(P) : T[t] = P[t]
      /\ T[Len(P) + 1] = trust[1] /\ T[Len(P) + 2] = trust[2]
      /\ T[Len(P) + 3] = file[1] /\ T[Len(P) + 4] = file[2]
  BY <1>1, <1>5, TwoPairs
<1>7. QED
  BY <1>1, <1>4, <1>6 DEF T, trust, file

(* The step before others of a test.                                       *)
Earlier(ops, i, op) == \E j \in 1..(i - 1) : ops[j] = op

(* What every test observes: it makes a session before it logs in, and     *)
(* logs in before it does anything with the product.                       *)
InOrder(test, ext) ==
  LET ops == test.ops
  IN /\ test.who \in Parties
     /\ Len(ops) \in Nat \ {0} /\ DOMAIN ops = 1..Len(ops)
     /\ \A i \in DOMAIN ops :
          /\ ops[i] \in AppOps \cup Saves => Earlier(ops, i, "app")
          /\ ops[i] = "app" => /\ test.who = "receiver" <=> Earlier(ops, i, "base")
                               /\ ext => Earlier(ops, i, "idp")
          /\ ops[i] = "idp" => /\ ~Earlier(ops, i, "app") /\ ~Earlier(ops, i, "idp")
                               /\ ext \/ Len(ops) = 1
          /\ ops[i] = "base" => test.who = "receiver"
          /\ ops[i] \in {"base", "load"} => i < Len(ops)
          /\ ops[i] \in {"accept", "needName", "needSender", "saveContact", "saveContent",
                         "saveSender", "compare"} => Earlier(ops, i, "load")

(* A login is one step, or two with an external provider.                  *)
LEMMA LoginTuple ==
  ASSUME NEW ref
  PROVE  /\ External(ref) => Login(ref) = <<"idp", "app">>
         /\ ~External(ref) => Login(ref) = <<"app">>
BY DEF Login, External

(* A test that makes a session only is in order.                           *)
LEMMA SessionTest ==
  ASSUME NEW who \in Parties, NEW ext
  PROVE  InOrder(Test(who, <<"idp">>), ext)
BY DEF InOrder, Test, Earlier, Parties, AppOps, Saves

(* What comes before and after the login of a test.                        *)
PreOps  == {"clear", "base", "load", "needName", "recipient"}
PostOps == AppOps \cup Saves \cup {"load", "needName", "needSender", "keepContent"}

(* What takes something from the runtime file.                             *)
Readers == {"accept", "needName", "needSender", "saveContact", "saveContent",
            "saveSender", "compare"}

(* The steps of a test that logs in after P and before R.                  *)
Within(ops, P, q, R, ext) ==
  /\ Len(P) \in Nat /\ Len(R) \in Nat
  /\ q = IF ext THEN Len(P) + 2 ELSE Len(P) + 1
  /\ Len(ops) = q + Len(R) /\ DOMAIN ops = 1..(q + Len(R))
  /\ \A i \in 1..Len(P) : ops[i] = P[i] /\ P[i] \in PreOps
  /\ ext => ops[Len(P) + 1] = "idp"
  /\ ops[q] = "app"
  /\ \A k \in 1..Len(R) : ops[q + k] = R[k] /\ R[k] \in PostOps

(* A sequence made of three others.                                        *)
Parts(s, P, L, R) ==
  /\ Len(P) \in Nat /\ Len(L) \in Nat /\ Len(R) \in Nat
  /\ Len(s) = Len(P) + Len(L) + Len(R)
  /\ DOMAIN s = 1..(Len(P) + Len(L) + Len(R))
  /\ \A i \in 1..Len(P) : s[i] = P[i]
  /\ \A i \in 1..Len(L) : s[Len(P) + i] = L[i]
  /\ \A i \in 1..Len(R) : s[Len(P) + Len(L) + i] = R[i]

(* Where the elements of a concatenation of three are.                     *)
LEMMA ThreeParts ==
  ASSUME NEW S, NEW P \in Seq(S), NEW L \in Seq(S), NEW R \in Seq(S)
  PROVE  Parts(P \o L \o R, P, L, R)
<1>1. /\ P \o L \in Seq(S) /\ Len(P \o L) = Len(P) + Len(L)
      /\ Len(P) \in Nat /\ Len(L) \in Nat /\ Len(R) \in Nat
  OBVIOUS
<1>2. P \o L \o R \in Seq(S) /\ Len(P \o L \o R) = Len(P) + Len(L) + Len(R)
  BY <1>1
<1>3. \A i \in 1..Len(P \o L) : (P \o L \o R)[i] = (P \o L)[i]
  BY <1>1
<1>4. \A i \in 1..Len(R) : (P \o L \o R)[Len(P \o L) + i] = R[i]
  BY <1>1
<1>5. /\ \A i \in 1..Len(P) : (P \o L)[i] = P[i]
      /\ \A i \in 1..Len(L) : (P \o L)[Len(P) + i] = L[i]
  OBVIOUS
<1>6. QED
  BY <1>1, <1>2, <1>3, <1>4, <1>5 DEF Parts

(* A test is its steps before the login, the login and those after it.     *)
LEMMA LoginWithin ==
  ASSUME NEW ref, NEW P \in Seq(PreOps), NEW R \in Seq(PostOps)
  PROVE  Within(P \o Login(ref) \o R, P, Len(P) + Len(Login(ref)), R, External(ref))
<1> DEFINE L == Login(ref)
           S == PreOps \cup PostOps \cup {"idp", "app"}
           ops == P \o L \o R
<1>1. /\ L \in Seq(S) /\ P \in Seq(S) /\ R \in Seq(S)
      /\ L[Len(L)] = "app"
      /\ External(ref) => L[1] = "idp"
      /\ Len(L) = IF External(ref) THEN 2 ELSE 1
  <2>1. <<"idp", "app">> \in Seq(S) /\ <<"app">> \in Seq(S)
    OBVIOUS
  <2>2. P \in Seq(S) /\ R \in Seq(S)
    OBVIOUS
  <2> HIDE DEF S
  <2>3. QED
    <3>1. CASE External(ref)
      <4>1. L = <<"idp", "app">>
        BY <3>1, LoginTuple
      <4>2. Len(L) = 2 /\ L[1] = "idp" /\ L[2] = "app"
        BY <4>1
      <4>3. L \in Seq(S)
        BY <2>1, <4>1
      <4>4. QED
        BY <2>2, <3>1, <4>2, <4>3
    <3>2. CASE ~External(ref)
      <4>1. L = <<"app">>
        BY <3>2, LoginTuple
      <4>2. Len(L) = 1 /\ L[1] = "app"
        BY <4>1
      <4>3. L \in Seq(S)
        BY <2>1, <4>1
      <4>4. QED
        BY <2>2, <3>2, <4>2, <4>3
    <3>3. QED
      BY <3>1, <3>2
<1>2. \A i \in 1..Len(P) : P[i] \in PreOps
  OBVIOUS
<1>3. \A i \in 1..Len(R) : R[i] \in PostOps
  OBVIOUS
<1> HIDE DEF L, S
<1>4. Len(L) \in 1..2
  BY <1>1
<1>5. Parts(ops, P, L, R)
  BY <1>1, ThreeParts
<1> HIDE DEF ops
<1>6. /\ ops[Len(P) + Len(L)] = "app"
      /\ External(ref) => ops[Len(P) + 1] = "idp"
  BY <1>1, <1>4, <1>5 DEF Parts
<1>7. Within(ops, P, Len(P) + Len(L), R, External(ref))
  BY <1>1, <1>2, <1>3, <1>4, <1>5, <1>6 DEF Within, Parts
<1>8. QED
  BY <1>7 DEF ops, L

(* Of the steps that hand something on a test takes those of S only.       *)
Uses(ops, S) == \A i \in DOMAIN ops : ops[i] \in FileOps => ops[i] \in S

(* A test's steps: in order, with the first and the last nowhere else.     *)
Shape(ops, who, ext, first, last, S) ==
  /\ InOrder(Test(who, ops), ext)
  /\ ops[1] = first /\ ops[Len(ops)] = last
  /\ \A i \in DOMAIN ops : /\ ops[i] = first => i = 1
                           /\ ops[i] = last => i = Len(ops)
  /\ Uses(ops, S)

(* What that takes of the steps before and after the login.                *)
Halves(who, P, R, first, last, S) ==
  /\ who \in Parties
  /\ P \in Seq(PreOps) /\ Len(P) > 0 /\ P[1] = first
  /\ R \in Seq(PostOps) /\ Len(R) > 0 /\ R[Len(R)] = last
  /\ \A i \in 1..Len(P) : /\ P[i] = first => i = 1
                          /\ P[i] # last
                          /\ P[i] \in FileOps => P[i] \in S
                          /\ P[i] \in Readers => \E j \in 1..(i - 1) : P[j] = "load"
  /\ \A i \in 1..Len(R) : /\ R[i] # first
                          /\ R[i] = last => i = Len(R)
                          /\ R[i] \in FileOps => R[i] \in S
                          /\ R[i] \in Readers => \/ \E j \in 1..(i - 1) : R[j] = "load"
                                                 \/ \E j \in 1..Len(P) : P[j] = "load"
  /\ last # "load"
  /\ who = "receiver" <=> \E i \in 1..Len(P) : P[i] = "base"

(* Such a test is in order, by what its two halves are.                    *)
LEMMA WithinInOrder ==
  ASSUME NEW ref, NEW who, NEW P, NEW R, NEW first, NEW last, NEW S,
         Halves(who, P, R, first, last, S),
         NEW ops, NEW q, Within(ops, P, q, R, External(ref))
  PROVE  Shape(ops, who, External(ref), first, last, S)
<1> DEFINE p == Len(P)
<1>1. /\ p \in Nat /\ Len(R) \in Nat
      /\ q = IF External(ref) THEN p + 2 ELSE p + 1
      /\ Len(ops) = q + Len(R) /\ DOMAIN ops = 1..(q + Len(R))
      /\ \A i \in 1..p : ops[i] = P[i] /\ P[i] \in PreOps
      /\ External(ref) => ops[p + 1] = "idp"
      /\ ops[q] = "app"
      /\ \A k \in 1..Len(R) : ops[q + k] = R[k] /\ R[k] \in PostOps
  BY DEF Within
<1> USE DEF Halves
<1> HIDE DEF p
<1>2. q \in Nat \ {0} /\ Len(ops) \in Nat \ {0} /\ p < q /\ (External(ref) => p + 1 < q)
  BY <1>1
<1>3. ASSUME NEW i \in DOMAIN ops
      PROVE  \/ i \in 1..p
             \/ External(ref) /\ i = p + 1 /\ ops[i] = "idp"
             \/ i = q /\ ops[i] = "app"
             \/ i > q /\ i - q \in 1..Len(R) /\ ops[i] = R[i - q] /\ R[i - q] \in PostOps
  <2>1. CASE i <= p
    BY <1>1, <1>2, <2>1
  <2>2. CASE i > p /\ i <= q
    BY <1>1, <1>2, <2>2
  <2>3. CASE i > q
    <3>1. i - q \in 1..Len(R) /\ i = q + (i - q)
      BY <1>1, <1>2, <2>3
    <3>2. ops[i] = R[i - q] /\ R[i - q] \in PostOps
      BY <1>1, <3>1
    <3>3. QED
      BY <2>3, <3>1, <3>2
  <2>4. QED
    BY <1>1, <1>2, <2>1, <2>2, <2>3
<1>4. ASSUME NEW i \in 1..p
      PROVE  ops[i] = P[i] /\ P[i] \notin AppOps \cup Saves \cup {"app", "idp"}
  BY <1>1 DEF PreOps, AppOps, Saves
<1>5. ASSUME NEW k \in 1..Len(R)
      PROVE  ops[q + k] = R[k] /\ R[k] \notin {"app", "idp", "base"}
  BY <1>1 DEF PostOps, AppOps, Saves
<1>6. ASSUME NEW i \in DOMAIN ops
      PROVE  /\ ops[i] \in AppOps \cup Saves => Earlier(ops, i, "app")
             /\ ops[i] = "app" => /\ who = "receiver" <=> Earlier(ops, i, "base")
                                  /\ External(ref) => Earlier(ops, i, "idp")
             /\ ops[i] = "idp" => /\ ~Earlier(ops, i, "app") /\ ~Earlier(ops, i, "idp")
                                  /\ External(ref) \/ Len(ops) = 1
             /\ ops[i] = "base" => who = "receiver"
             /\ ops[i] \in {"base", "load"} => i < Len(ops)
             /\ ops[i] \in Readers => Earlier(ops, i, "load")
  <2>1. CASE i \in 1..p
    <3>1. ops[i] = P[i] /\ ops[i] \notin AppOps \cup Saves \cup {"app", "idp"} /\ i < Len(ops)
      BY <1>1, <1>2, <1>4, <2>1
    <3>2. ops[i] = "base" => who = "receiver"
      BY <2>1, <3>1 DEF p
    <3>3. ops[i] \in Readers => \E j \in 1..(i - 1) : P[j] = "load"
      BY <2>1, <3>1 DEF p
    <3>4. \A j \in 1..(i - 1) : ops[j] = P[j]
      BY <1>1, <2>1
    <3>5. QED
      BY <3>1, <3>2, <3>3, <3>4 DEF Earlier
  <2>2. CASE External(ref) /\ i = p + 1 /\ ops[i] = "idp"
    <3>1. \A j \in 1..(i - 1) : ops[j] \notin {"app", "idp"}
      <4>1. \A j \in 1..(i - 1) : j \in 1..p
        BY <1>1, <2>2
      <4>2. QED
        BY <1>4, <4>1
    <3>2. "idp" \notin AppOps \cup Saves /\ "idp" \notin Readers
      BY DEF AppOps, Saves, Readers
    <3>3. QED
      BY <2>2, <3>1, <3>2 DEF Earlier
  <2>3. CASE i = q /\ ops[i] = "app"
    <3>1. "app" \notin AppOps \cup Saves /\ "app" \notin Readers
      BY DEF AppOps, Saves, Readers
    <3>2. External(ref) => Earlier(ops, i, "idp")
      BY <1>1, <1>2, <2>3 DEF Earlier
    <3>3. who = "receiver" => Earlier(ops, i, "base")
      <4>1. SUFFICES ASSUME who = "receiver" PROVE Earlier(ops, i, "base")
        OBVIOUS
      <4>2. PICK j \in 1..p : P[j] = "base"
        BY <4>1 DEF p
      <4>3. QED
        BY <1>1, <1>2, <2>3, <4>2 DEF Earlier
    <3>4. Earlier(ops, i, "base") => who = "receiver"
      <4>1. SUFFICES ASSUME NEW j \in 1..(i - 1), ops[j] = "base" PROVE who = "receiver"
        BY DEF Earlier
      <4>2. j \in 1..p
        BY <1>1, <1>2, <2>3, <4>1
      <4>3. QED
        BY <1>4, <4>1, <4>2 DEF p
    <3>5. QED
      BY <2>3, <3>1, <3>2, <3>3, <3>4
  <2>4. CASE i > q /\ i - q \in 1..Len(R) /\ ops[i] = R[i - q] /\ R[i - q] \in PostOps
    <3>1. Earlier(ops, i, "app")
      BY <1>1, <1>2, <2>4 DEF Earlier
    <3>2. ops[i] \notin {"app", "idp", "base"}
      BY <1>5, <2>4
    <3>3. ops[i] = "load" => i < Len(ops)
      <4>1. R[Len(R)] # "load"
        OBVIOUS
      <4>2. QED
        BY <1>1, <1>2, <2>4, <4>1
    <3>4. ASSUME ops[i] \in Readers PROVE Earlier(ops, i, "load")
      <4>1. CASE \E j \in 1..(i - q - 1) : R[j] = "load"
        <5>1. PICK j \in 1..(i - q - 1) : R[j] = "load"
          BY <4>1
        <5>2. q + j \in 1..(i - 1) /\ ops[q + j] = "load"
          BY <1>1, <1>2, <2>4, <5>1, SMTT(20)
        <5>3. QED
          BY <5>2 DEF Earlier
      <4>2. CASE \E j \in 1..Len(P) : P[j] = "load"
        BY <1>1, <1>2, <2>4, <4>2, SMTT(20) DEF Earlier, p
      <4>3. QED
        BY <2>4, <3>4, <4>1, <4>2
    <3>5. QED
      BY <3>1, <3>2, <3>3, <3>4
  <2>5. QED
    BY <1>3, <2>1, <2>2, <2>3, <2>4
<1>7. InOrder(Test(who, ops), External(ref))
  BY <1>1, <1>2, <1>6 DEF InOrder, Test, Readers
<1>8. ASSUME NEW i \in DOMAIN ops
      PROVE  /\ ops[i] = first => i = 1
             /\ ops[i] = last => i = Len(ops)
             /\ ops[i] \in FileOps => ops[i] \in S
  <2>1. CASE i \in 1..p
    BY <1>1, <2>1 DEF p
  <2>2. CASE ops[i] \in {"idp", "app"}
    <3>1. first \in PreOps /\ last \in PostOps
      BY DEF p
    <3>2. QED
      BY <2>2, <3>1 DEF PreOps, PostOps, FileOps, AppOps, Saves
  <2>3. CASE i > q /\ i - q \in 1..Len(R) /\ ops[i] = R[i - q]
    BY <1>1, <1>2, <2>3, SMTT(20)
  <2>4. QED
    BY <1>3, <2>1, <2>2, <2>3
<1>9. ops[1] = first /\ ops[Len(ops)] = last
  BY <1>1, <1>2 DEF p
<1>10. QED
  BY <1>7, <1>8, <1>9 DEF Shape, Uses

(* The steps of a test have the shape its two halves give them.            *)
LEMMA TestShape ==
  ASSUME NEW ref, NEW who, NEW P, NEW R, NEW first, NEW last, NEW S,
         Halves(who, P, R, first, last, S)
  PROVE  Shape(P \o Login(ref) \o R, who, External(ref), first, last, S)
<1>1. P \in Seq(PreOps) /\ R \in Seq(PostOps)
  BY DEF Halves
<1>2. Within(P \o Login(ref) \o R, P, Len(P) + Len(Login(ref)), R, External(ref))
  BY <1>1, LoginWithin
<1>3. QED
  BY <1>2, WithinInOrder

(* The invite is made and saved.                                           *)
LEMMA TrustSenderTest ==
  ASSUME NEW ref
  PROVE  Shape(<<"clear">> \o Login(ref)
                 \o <<"invite", "saveInvite">>,
               "sender", External(ref), "clear", "saveInvite", {"clear", "saveInvite"})
<1> DEFINE P == <<"clear">>
           R == <<"invite", "saveInvite">>
<1>1. P \in Seq(PreOps) /\ R \in Seq(PostOps)
  BY DEF PreOps, PostOps, AppOps, Saves
<1>2. /\ Len(P) = 1 /\ Len(R) = 2
      /\ P[1] = "clear" /\ R[1] = "invite" /\ R[2] = "saveInvite"
  OBVIOUS
<1> HIDE DEF P, R
<1>3. Halves("sender", P, R, "clear", "saveInvite", {"clear", "saveInvite"})
  BY <1>1, <1>2 DEF Halves, Parties, Readers, FileOps, Saves
<1>4. QED
  BY <1>3, TestShape DEF P, R

(* The invite is made, its link followed and saved.                        *)
LEMMA WayfSenderTest ==
  ASSUME NEW ref
  PROVE  Shape(<<"clear">> \o Login(ref)
                 \o <<"invite", "capture", "saveInvite">>,
               "sender", External(ref), "clear", "saveInvite", {"clear", "capture", "saveInvite"})
<1> DEFINE P == <<"clear">>
           R == <<"invite", "capture", "saveInvite">>
<1>1. P \in Seq(PreOps) /\ R \in Seq(PostOps)
  BY DEF PreOps, PostOps, AppOps, Saves
<1>2. /\ Len(P) = 1 /\ Len(R) = 3
      /\ P[1] = "clear" /\ R[1] = "invite" /\ R[2] = "capture" /\ R[3] = "saveInvite"
  OBVIOUS
<1> HIDE DEF P, R
<1>3. Halves("sender", P, R, "clear", "saveInvite", {"clear", "capture", "saveInvite"})
  BY <1>1, <1>2 DEF Halves, Parties, Readers, FileOps, Saves
<1>4. QED
  BY <1>3, TestShape DEF P, R

(* The invite is accepted.                                                 *)
LEMMA TrustReceiverTest ==
  ASSUME NEW ref
  PROVE  Shape(<<"base">> \o Login(ref)
                 \o <<"load", "accept", "saveContact">>,
               "receiver", External(ref), "base", "saveContact", {"load", "accept", "saveContact"})
<1> DEFINE P == <<"base">>
           R == <<"load", "accept", "saveContact">>
<1>1. P \in Seq(PreOps) /\ R \in Seq(PostOps)
  BY DEF PreOps, PostOps, AppOps, Saves
<1>2. /\ Len(P) = 1 /\ Len(R) = 3
      /\ P[1] = "base" /\ R[1] = "load" /\ R[2] = "accept" /\ R[3] = "saveContact"
  OBVIOUS
<1> HIDE DEF P, R
<1>3. Halves("receiver", P, R, "base", "saveContact", {"load", "accept", "saveContact"})
  BY <1>1, <1>2 DEF Halves, Parties, Readers, FileOps, Saves
<1>4. QED
  BY <1>3, TestShape DEF P, R

(* A file is shared and its content saved.                                 *)
LEMMA FileSenderTest ==
  ASSUME NEW ref
  PROVE  Shape(<<"load", "needName", "recipient">> \o Login(ref)
                 \o <<"prepare", "saveContent", "send">>,
               "sender", External(ref), "load", "send", {"load", "needName", "saveContent"})
<1> DEFINE P == <<"load", "needName", "recipient">>
           R == <<"prepare", "saveContent", "send">>
<1>1. P \in Seq(PreOps) /\ R \in Seq(PostOps)
  BY DEF PreOps, PostOps, AppOps, Saves
<1>2. /\ Len(P) = 3 /\ Len(R) = 3
      /\ P[1] = "load" /\ P[2] = "needName" /\ P[3] = "recipient" /\ R[1] = "prepare"
      /\ R[2] = "saveContent" /\ R[3] = "send"
  OBVIOUS
<1> HIDE DEF P, R
<1>3. Halves("sender", P, R, "load", "send", {"load", "needName", "saveContent"})
  BY <1>1, <1>2 DEF Halves, Parties, Readers, FileOps, Saves
<1>4. QED
  BY <1>3, TestShape DEF P, R

(* The file is received and its content compared.                          *)
LEMMA FileReceiverTest ==
  ASSUME NEW ref
  PROVE  Shape(<<"base">> \o Login(ref)
                 \o <<"load", "needName", "receive", "compare">>,
               "receiver", External(ref), "base", "compare", {"load", "needName", "compare"})
<1> DEFINE P == <<"base">>
           R == <<"load", "needName", "receive", "compare">>
<1>1. P \in Seq(PreOps) /\ R \in Seq(PostOps)
  BY DEF PreOps, PostOps, AppOps, Saves
<1>2. /\ Len(P) = 1 /\ Len(R) = 4
      /\ P[1] = "base" /\ R[1] = "load" /\ R[2] = "needName" /\ R[3] = "receive"
      /\ R[4] = "compare"
  OBVIOUS
<1> HIDE DEF P, R
<1>3. Halves("receiver", P, R, "base", "compare", {"load", "needName", "compare"})
  BY <1>1, <1>2 DEF Halves, Parties, Readers, FileOps, Saves
<1>4. QED
  BY <1>3, TestShape DEF P, R

(* A folder is shared.                                                     *)
LEMMA WebappSenderTest ==
  ASSUME NEW ref
  PROVE  Shape(<<"load", "needName", "recipient">> \o Login(ref)
                 \o <<"prepare", "send", "saveSender">>,
               "sender", External(ref), "load", "saveSender", {"load", "needName", "saveSender"})
<1> DEFINE P == <<"load", "needName", "recipient">>
           R == <<"prepare", "send", "saveSender">>
<1>1. P \in Seq(PreOps) /\ R \in Seq(PostOps)
  BY DEF PreOps, PostOps, AppOps, Saves
<1>2. /\ Len(P) = 3 /\ Len(R) = 3
      /\ P[1] = "load" /\ P[2] = "needName" /\ P[3] = "recipient" /\ R[1] = "prepare"
      /\ R[2] = "send" /\ R[3] = "saveSender"
  OBVIOUS
<1> HIDE DEF P, R
<1>3. Halves("sender", P, R, "load", "saveSender", {"load", "needName", "saveSender"})
  BY <1>1, <1>2 DEF Halves, Parties, Readers, FileOps, Saves
<1>4. QED
  BY <1>3, TestShape DEF P, R

(* The folder is received and its application launched.                    *)
LEMMA WebappReceiverTest ==
  ASSUME NEW ref
  PROVE  Shape(<<"base">> \o Login(ref)
                 \o <<"load", "needName", "needSender", "receive", "launch", "prove">>,
               "receiver", External(ref), "base", "prove",
               {"load", "needName", "needSender", "prove"})
<1> DEFINE P == <<"base">>
           R == <<"load", "needName", "needSender", "receive", "launch", "prove">>
<1>1. P \in Seq(PreOps) /\ R \in Seq(PostOps)
  BY DEF PreOps, PostOps, AppOps, Saves
<1>2. /\ Len(P) = 1 /\ Len(R) = 6
      /\ P[1] = "base" /\ R[1] = "load" /\ R[2] = "needName" /\ R[3] = "needSender"
      /\ R[4] = "receive" /\ R[5] = "launch" /\ R[6] = "prove"
  OBVIOUS
<1> HIDE DEF P, R
<1>3. Halves("receiver", P, R, "base", "prove", {"load", "needName", "needSender", "prove"})
  BY <1>1, <1>2 DEF Halves, Parties, Readers, FileOps, Saves
<1>4. QED
  BY <1>3, TestShape DEF P, R

(* share-with: a file is shared by address.                                *)
LEMMA ShareSenderTest ==
  ASSUME NEW ref
  PROVE  Shape(<<"recipient">> \o Login(ref)
                 \o <<"prepare", "keepContent", "send">>,
               "sender", External(ref), "recipient", "send", {})
<1> DEFINE P == <<"recipient">>
           R == <<"prepare", "keepContent", "send">>
<1>1. P \in Seq(PreOps) /\ R \in Seq(PostOps)
  BY DEF PreOps, PostOps, AppOps, Saves
<1>2. /\ Len(P) = 1 /\ Len(R) = 3
      /\ P[1] = "recipient" /\ R[1] = "prepare" /\ R[2] = "keepContent" /\ R[3] = "send"
  OBVIOUS
<1> HIDE DEF P, R
<1>3. Halves("sender", P, R, "recipient", "send", {})
  BY <1>1, <1>2 DEF Halves, Parties, Readers, FileOps, Saves
<1>4. QED
  BY <1>3, TestShape DEF P, R

(* share-with: the file is received.                                       *)
LEMMA ShareReceiverTest ==
  ASSUME NEW ref
  PROVE  Shape(<<"base">> \o Login(ref)
                 \o <<"receive", "compareKept">>,
               "receiver", External(ref), "base", "compareKept", {})
<1> DEFINE P == <<"base">>
           R == <<"receive", "compareKept">>
<1>1. P \in Seq(PreOps) /\ R \in Seq(PostOps)
  BY DEF PreOps, PostOps, AppOps, Saves
<1>2. /\ Len(P) = 1 /\ Len(R) = 2
      /\ P[1] = "base" /\ R[1] = "receive" /\ R[2] = "compareKept"
  OBVIOUS
<1> HIDE DEF P, R
<1>3. Halves("receiver", P, R, "base", "compareKept", {})
  BY <1>1, <1>2 DEF Halves, Parties, Readers, FileOps, Saves
<1>4. QED
  BY <1>3, TestShape DEF P, R

(* The test of the login flow is in order.                                 *)
LEMMA LoginOnlyTest ==
  ASSUME NEW ref
  PROVE  InOrder(Test("sender", Login(ref)), External(ref))
BY LoginTuple DEF InOrder, Test, Earlier, Parties, AppOps, Saves

(* The sender of a contact flow has saved the content when it sends.       *)
LEMMA SendAfterSave ==
  ASSUME NEW ref, NEW ops,
         ops = <<"load", "needName", "recipient">> \o Login(ref)
               \o <<"prepare", "saveContent", "send">>
  PROVE  Earlier(ops, Len(ops), "saveContent")
<1> DEFINE P == <<"load", "needName", "recipient">>
           R == <<"prepare", "saveContent", "send">>
           q == Len(P) + Len(Login(ref))
<1>1. P \in Seq(PreOps) /\ R \in Seq(PostOps)
  BY DEF PreOps, PostOps, AppOps, Saves
<1>2. Len(P) = 3 /\ Len(R) = 3 /\ R[2] = "saveContent"
  OBVIOUS
<1>3. ops = P \o Login(ref) \o R
  OBVIOUS
<1> HIDE DEF P, R
<1>4. Within(ops, P, q, R, External(ref))
  BY <1>1, <1>3, LoginWithin
<1> HIDE DEF q
<1>5. q \in Nat /\ Len(ops) = q + 3 /\ ops[q + 2] = "saveContent"
  BY <1>2, <1>4 DEF Within
<1>6. QED
  BY <1>5 DEF Earlier

-----------------------------------------------------------------------------
(* As External, of a party of a cell.                                      *)
ExternalOf(c, who) == External(IF who = "sender" THEN c.sender ELSE c.receiver)

(* What the tests of a flow that stops hand on, and where.                 *)
Handover(c) ==
  LET T == TestsOf(c)
      n == Warm(c)
  IN /\ n \in 0..2 /\ Len(T) = n + 4 /\ DOMAIN T = 1..(n + 4)
     /\ \A t \in 1..n : /\ T[t].ops = <<"idp">>
                        /\ T[t].who = IF t = 1 /\ External(c.sender) THEN "sender" ELSE "receiver"
     /\ External(c.receiver) => n > 0 /\ T[n].who = "receiver"
     /\ External(c.sender) => n > 0
     /\ Shape(T[n + 1].ops, "sender", External(c.sender), "clear", "saveInvite",
              {"clear", "saveInvite"}
              \cup IF c.flow = "contact-wayf" THEN {"capture"} ELSE {})
     /\ T[n + 1].who = "sender"
     /\ Shape(T[n + 2].ops, "receiver", External(c.receiver), "base", "saveContact",
              {"load", "accept", "saveContact"})
     /\ T[n + 2].who = "receiver"
     /\ T[n + 3].who = "sender" /\ T[n + 4].who = "receiver"
     /\ c.flow \in ContactFlows =>
          /\ Shape(T[n + 3].ops, "sender", External(c.sender), "load", "send",
                   {"load", "needName", "saveContent"})
          /\ Earlier(T[n + 3].ops, Len(T[n + 3].ops), "saveContent")
          /\ Shape(T[n + 4].ops, "receiver", External(c.receiver), "base", "compare",
                   {"load", "needName", "compare"})
     /\ c.flow \notin ContactFlows =>
          /\ Shape(T[n + 3].ops, "sender", External(c.sender), "load", "saveSender",
                   {"load", "needName", "saveSender"})
          /\ Shape(T[n + 4].ops, "receiver", External(c.receiver), "base", "prove",
                   {"load", "needName", "needSender", "prove"})

(* What the tests of the contact and webapp flows hand on, read off the    *)
(* steps each test is made of.                                             *)
LEMMA StoppingHandsOver ==
  ASSUME NEW c, Legal(c), c.flow \in StoppingFlows
  PROVE  Handover(c)
<1> DEFINE T == TestsOf(c)
           n == Warm(c)
           trust == IF c.flow = "contact-wayf" THEN WayfTests(c) ELSE TrustTests(c)
           file  == IF c.flow = "webapp-share" THEN WebappTests(c) ELSE FileTests(c)
<1>1. /\ n \in 0..2
      /\ Len(T) = n + 4 /\ DOMAIN T = 1..(n + 4)
      /\ \A t \in 1..n : T[t] = Prewarm(c)[t]
      /\ T[n + 1] = trust[1] /\ T[n + 2] = trust[2]
      /\ T[n + 3] = file[1] /\ T[n + 4] = file[2]
  BY StoppingTests
<1>2. /\ n = Len(Prewarm(c)) \/ n = 0
      /\ External(c.sender) \/ External(c.receiver) => n = Len(Prewarm(c))
  <2>1. c.flow = "contact-wayf" => ~External(c.sender) /\ ~External(c.receiver)
    <3>1. c["sender"] = c.sender /\ c["receiver"] = c.receiver
      OBVIOUS
    <3>2. QED
      BY <3>1, LegalPlatforms DEF Parties, External
  <2>2. QED
    BY <2>1 DEF Warm, StoppingFlows, ContactFlows
<1>3. /\ \A t \in 1..n : /\ T[t].ops = <<"idp">>
                         /\ T[t].who = IF t = 1 /\ External(c.sender) THEN "sender" ELSE "receiver"
      /\ External(c.receiver) => n > 0 /\ T[n].who = "receiver"
      /\ External(c.sender) => n > 0
  <2> DEFINE P == Prewarm(c)
  <2>0. /\ Len(P) \in 0..2
        /\ Len(P) = (IF External(c.sender) THEN 1 ELSE 0) + (IF External(c.receiver) THEN 1 ELSE 0)
        /\ \A t \in 1..Len(P) :
             /\ P[t].ops = <<"idp">>
             /\ P[t].who = (IF t = 1 /\ External(c.sender) THEN "sender" ELSE "receiver")
             /\ t = Len(P) /\ External(c.receiver) => P[t].who = "receiver"
    BY PrewarmTests
  <2> HIDE DEF P, T, n
  <2>1. \A t \in 1..n : /\ T[t].ops = <<"idp">>
                        /\ T[t].who = IF t = 1 /\ External(c.sender) THEN "sender" ELSE "receiver"
    BY <1>1, <1>2, <2>0 DEF P
  <2>2. External(c.receiver) => n > 0 /\ T[n].who = "receiver"
    BY <1>1, <1>2, <2>0 DEF P
  <2>3. External(c.sender) => n > 0
    BY <1>1, <1>2, <2>0 DEF P
  <2>4. QED
    BY <2>1, <2>2, <2>3
<1>4. /\ Shape(trust[1].ops, "sender", External(c.sender), "clear", "saveInvite",
               {"clear", "saveInvite"}
               \cup IF c.flow = "contact-wayf" THEN {"capture"} ELSE {})
      /\ trust[1].who = "sender"
  <2>1. CASE c.flow = "contact-wayf"
    <3>1. {"clear", "capture", "saveInvite"} = {"clear", "saveInvite"} \cup {"capture"}
      OBVIOUS
    <3>2. QED
      BY <2>1, <3>1, WayfSenderTest DEF WayfTests, Test
  <2>2. CASE c.flow # "contact-wayf"
    <3>1. {"clear", "saveInvite"} = {"clear", "saveInvite"} \cup {}
      OBVIOUS
    <3>2. QED
      BY <2>2, <3>1, TrustSenderTest DEF TrustTests, Test
  <2>3. QED
    BY <2>1, <2>2
<1>5. /\ Shape(trust[2].ops, "receiver", External(c.receiver), "base", "saveContact",
               {"load", "accept", "saveContact"})
      /\ trust[2].who = "receiver"
  BY TrustReceiverTest DEF WayfTests, TrustTests, Test
<1>6. file[1].who = "sender" /\ file[2].who = "receiver"
  BY DEF FileTests, WebappTests, Test
<1>7. c.flow \in ContactFlows =>
        /\ Shape(file[1].ops, "sender", External(c.sender), "load", "send",
                 {"load", "needName", "saveContent"})
        /\ Earlier(file[1].ops, Len(file[1].ops), "saveContent")
        /\ Shape(file[2].ops, "receiver", External(c.receiver), "base", "compare",
                 {"load", "needName", "compare"})
  <2>1. SUFFICES ASSUME c.flow \in ContactFlows
                 PROVE  /\ Shape(file[1].ops, "sender", External(c.sender), "load", "send",
                                 {"load", "needName", "saveContent"})
                        /\ Earlier(file[1].ops, Len(file[1].ops), "saveContent")
                        /\ Shape(file[2].ops, "receiver", External(c.receiver), "base",
                                 "compare", {"load", "needName", "compare"})
    OBVIOUS
  <2>2. /\ file[1].ops = <<"load", "needName", "recipient">> \o Login(c.sender)
                         \o <<"prepare", "saveContent", "send">>
        /\ file[2].ops = <<"base">> \o Login(c.receiver)
                         \o <<"load", "needName", "receive", "compare">>
    BY <2>1 DEF FileTests, Test, ContactFlows
  <2> HIDE DEF file
  <2>3. QED
    BY <2>2, FileSenderTest, SendAfterSave, FileReceiverTest
<1>8. c.flow \notin ContactFlows =>
        /\ Shape(file[1].ops, "sender", External(c.sender), "load", "saveSender",
                 {"load", "needName", "saveSender"})
        /\ Shape(file[2].ops, "receiver", External(c.receiver), "base", "prove",
                 {"load", "needName", "needSender", "prove"})
  BY WebappSenderTest, WebappReceiverTest DEF WebappTests, Test, StoppingFlows, ContactFlows
<1> HIDE DEF T, n, trust, file
<1>9. QED
  BY <1>1, <1>3, <1>4, <1>5, <1>6, <1>7, <1>8 DEF Handover, T, n

(* Every test of every supported cell is in order, and only the flows that *)
(* stop use the runtime file.                                              *)
LEMMA EveryTestInOrder ==
  ASSUME NEW c, Legal(c)
  PROVE  /\ Len(TestsOf(c)) \in Nat \ {0} /\ DOMAIN TestsOf(c) = 1..Len(TestsOf(c))
         /\ \A t \in DOMAIN TestsOf(c) :
              /\ InOrder(TestsOf(c)[t], ExternalOf(c, TestsOf(c)[t].who))
              /\ c.flow \notin StoppingFlows => Uses(TestsOf(c)[t].ops, {})
<1> DEFINE T == TestsOf(c)
<1>1. CASE c.flow \in StoppingFlows
  <2>1. Handover(c)
    BY <1>1, StoppingHandsOver
  <2> DEFINE n == Warm(c)
  <2>2. n \in 0..2 /\ Len(T) = n + 4 /\ DOMAIN T = 1..(n + 4)
    BY <2>1 DEF Handover
  <2>3. ASSUME NEW t \in 1..n
        PROVE  InOrder(T[t], ExternalOf(c, T[t].who))
    <3>1. T[t] = Prewarm(c)[t]
      BY <1>1, StoppingTests
    <3>2. /\ Prewarm(c) \in Seq({Test("sender", <<"idp">>), Test("receiver", <<"idp">>)})
          /\ t \in 1..Len(Prewarm(c))
      BY PrewarmTests DEF Warm
    <3>4. T[t] = Test("sender", <<"idp">>) \/ T[t] = Test("receiver", <<"idp">>)
      BY <3>1, <3>2
    <3>3. QED
      BY <3>4, SessionTest DEF Parties
  <2>4. InOrder(T[n + 1], ExternalOf(c, T[n + 1].who))
    BY <2>1 DEF Handover, Shape, InOrder, Test, ExternalOf
  <2>5. InOrder(T[n + 2], ExternalOf(c, T[n + 2].who))
    BY <2>1 DEF Handover, Shape, InOrder, Test, ExternalOf
  <2>6. InOrder(T[n + 3], ExternalOf(c, T[n + 3].who))
    BY <2>1 DEF Handover, Shape, InOrder, Test, ExternalOf
  <2>7. InOrder(T[n + 4], ExternalOf(c, T[n + 4].who))
    BY <2>1 DEF Handover, Shape, InOrder, Test, ExternalOf
  <2> HIDE DEF n
  <2>8. QED
    BY <1>1, <2>2, <2>3, <2>4, <2>5, <2>6, <2>7
<1>2. CASE c.flow = "login"
  <2>1. ASSUME External(c.sender)
        PROVE  T = <<Test("sender", <<"idp">>), Test("sender", Login(c.sender))>>
    BY <1>2, <2>1 DEF TestsOf, LoginTests, External
  <2>2. ASSUME ~External(c.sender)
        PROVE  T = <<Test("sender", Login(c.sender))>>
    BY <1>2, <2>2 DEF TestsOf, LoginTests, External
  <2>3. /\ InOrder(Test("sender", <<"idp">>), External(c.sender))
        /\ InOrder(Test("sender", Login(c.sender)), External(c.sender))
    BY SessionTest, LoginOnlyTest DEF Parties
  <2>4. /\ Uses(<<"idp">>, {})
        /\ Uses(Login(c.sender), {})
    <3>1. Uses(<<"idp">>, {}) /\ Uses(<<"app">>, {}) /\ Uses(<<"idp", "app">>, {})
      BY DEF Uses, FileOps, Saves
    <3>2. QED
      BY <3>1, LoginTuple
  <2>5. /\ Test("sender", <<"idp">>).who = "sender"
        /\ Test("sender", Login(c.sender)).who = "sender"
        /\ Test("sender", <<"idp">>).ops = <<"idp">>
        /\ Test("sender", Login(c.sender)).ops = Login(c.sender)
        /\ ExternalOf(c, "sender") = External(c.sender)
    BY DEF Test, ExternalOf
  <2> HIDE DEF T
  <2>6. /\ Len(T) \in Nat \ {0} /\ DOMAIN T = 1..Len(T)
        /\ \A t \in DOMAIN T : T[t] \in {Test("sender", <<"idp">>), Test("sender", Login(c.sender))}
    BY <2>1, <2>2
  <2>7. ASSUME NEW t \in DOMAIN T
        PROVE  InOrder(T[t], ExternalOf(c, T[t].who)) /\ Uses(T[t].ops, {})
    BY <2>3, <2>4, <2>5, <2>6
  <2>8. QED
    BY <2>6, <2>7 DEF T
<1>3. CASE c.flow = "share-with"
  <2>1. /\ Len(T) = 2 /\ DOMAIN T = 1..2
        /\ T[1] = Test("sender", <<"recipient">> \o Login(c.sender)
                                 \o <<"prepare", "keepContent", "send">>)
        /\ T[2] = Test("receiver", <<"base">> \o Login(c.receiver)
                                   \o <<"receive", "compareKept">>)
    BY <1>3 DEF TestsOf, ShareWithTests
  <2> HIDE DEF T
  <2>2. Shape(T[1].ops, "sender", External(c.sender), "recipient", "send", {})
    BY <2>1, ShareSenderTest DEF Test
  <2>3. Shape(T[2].ops, "receiver", External(c.receiver), "base", "compareKept", {})
    BY <2>1, ShareReceiverTest DEF Test
  <2>4. T[1].who = "sender" /\ T[2].who = "receiver"
    BY <2>1 DEF Test
  <2>5. InOrder(T[1], ExternalOf(c, T[1].who)) /\ Uses(T[1].ops, {})
    BY <2>2, <2>4 DEF Shape, InOrder, Test, ExternalOf
  <2>6. InOrder(T[2], ExternalOf(c, T[2].who)) /\ Uses(T[2].ops, {})
    BY <2>3, <2>4 DEF Shape, InOrder, Test, ExternalOf
  <2>7. QED
    BY <2>1, <2>5, <2>6 DEF T
<1>4. QED
  BY <1>1, <1>2, <1>3 DEF Legal

-----------------------------------------------------------------------------
(* A step of the running test that has been taken.                         *)
Done(op) == Earlier(Tests[at.test].ops, at.op, op)

(* What Init has chosen: a supported cell, users and providers.            *)
ScenarioOK ==
  /\ scenario.cell \in Cells /\ Legal(scenario.cell)
  /\ scenario.user \in [Parties -> Users \cup {None}]
  /\ scenario.exposed \in [Parties -> Idps \cup {None}]
  /\ scenario.idp \in [Parties -> Idps]

(* TypeOK, of what the runner keeps for a test, and of the rest.           *)
PlaceOK ==
  /\ run \in {"running", "ended", "killed"}
  /\ at = [test |-> at.test, op |-> at.op]
  /\ run = "running" => at.test \in DOMAIN Tests /\ at.op \in DOMAIN Tests[at.test].ops
  /\ page = [top |-> page.top, origin |-> page.origin, me |-> page.me]
  /\ page.top \in Origins /\ page.origin \in Origins \cup {None}
  /\ cookies \in [Origins -> Users \cup {None}]
  /\ baseUrl \in Parties
  /\ loaded \in [Keys -> 0..MaxAttempts]

(* A cached session is that of the user of its key.                        *)
StoreOK ==
  /\ attempt \in 1..MaxAttempts
  /\ failed \subseteq {"product", "credentials", "account", "origin", "runtime"}
  /\ \A s \in sessions : s.key \in Idps \X Users /\ s.user \in Users /\ s.user = s.key[2]
  /\ runtime \in [Keys -> 0..MaxAttempts]
  /\ content \in 0..MaxAttempts
  /\ compared \subseteq 1..MaxAttempts

(* Where the page of a running test is, and who is signed in.              *)
PageInv ==
  run = "running" =>
    /\ baseUrl = IF Done("base") THEN "receiver" ELSE "sender"
    /\ Done("app") => page.me = Account(Who) /\ page.origin = Who
    /\ ~Done("app") /\ ~Done("idp") => page.origin = None
    /\ \A o \in Origins : cookies[o] \in {None, UserOf(Who)}

(* What the file holds as a flow that stops goes on.                       *)
FileInv ==
  (run = "running" /\ scenario.cell.flow \in StoppingFlows) =>
    LET n == Warm(scenario.cell)
    IN /\ failed = {}
       /\ at.test > n + 1 \/ Done("clear") => \A k \in Keys : runtime[k] \in {0, attempt}
       /\ at.test > n + 1 => runtime["invite"] = attempt /\ runtime["name"] = attempt
       /\ (/\ at.test > n + 3 \/ Done("saveContent")
           /\ scenario.cell.flow \in ContactFlows /\ GivesContent(Ref("sender"))) =>
            runtime["content"] = attempt
       /\ at.test > n + 3 /\ scenario.cell.flow \notin ContactFlows =>
            runtime["senderId"] = attempt
       /\ Done("load") =>
            /\ loaded["invite"] = attempt /\ loaded["name"] = attempt
            /\ at.test > n + 3 => /\ loaded["content"] = runtime["content"]
                                  /\ loaded["senderId"] = runtime["senderId"]

(* With users and providers configured a session is there once it is made. *)
SessionKept(who) == Cached(<<scenario.idp[who], UserOf(who)>>) # {}

(* Unless a product has failed: the sessions of the tests ahead of the     *)
(* flow are in the cache, no test has been anywhere before its             *)
(* application, and the provider knows the party whose session was         *)
(* restored.                                                               *)
SessionInv ==
  (run = "running" /\ Configured /\ "product" \notin failed) =>
    /\ External(Ref("sender")) /\ at.test > 1 => SessionKept("sender")
    /\ (External(Ref("receiver")) /\ scenario.cell.flow # "login"
        /\ at.test > Warm(scenario.cell)) => SessionKept("receiver")
    /\ ~Done("app") => page.origin = None
    /\ Done("idp") => cookies[scenario.idp[Who]] = UserOf(Who)

-----------------------------------------------------------------------------
(* A running flow is at a step of one of its tests.                        *)
LEMMA Here ==
  ASSUME ScenarioOK, PlaceOK, run = "running"
  PROVE  /\ Len(Tests) \in Nat /\ at.test \in 1..Len(Tests) /\ DOMAIN Tests = 1..Len(Tests)
         /\ at.op \in Nat /\ at.op \in 1..Len(Tests[at.test].ops)
         /\ Len(Tests[at.test].ops) \in Nat
         /\ DOMAIN Tests[at.test].ops = 1..Len(Tests[at.test].ops)
         /\ \A t \in DOMAIN Tests : 1 \in DOMAIN Tests[t].ops
         /\ Who \in Parties
<1>1. Legal(scenario.cell)
  BY DEF ScenarioOK
<1>2. /\ Len(Tests) \in Nat \ {0} /\ DOMAIN Tests = 1..Len(Tests)
      /\ \A t \in DOMAIN Tests : InOrder(Tests[t], ExternalOf(scenario.cell, Tests[t].who))
  BY <1>1, EveryTestInOrder DEF Tests
<1>3. \A t \in DOMAIN Tests :
        /\ Tests[t].who \in Parties
        /\ Len(Tests[t].ops) \in Nat \ {0} /\ DOMAIN Tests[t].ops = 1..Len(Tests[t].ops)
  BY <1>2 DEF InOrder
<1>4. at.test \in DOMAIN Tests /\ at.op \in DOMAIN Tests[at.test].ops
  BY DEF PlaceOK
<1>5. QED
  BY <1>2, <1>3, <1>4 DEF Who

(* What has been done when a step is next.                                 *)
LEMMA NowInOrder ==
  ASSUME ScenarioOK, PlaceOK, run = "running"
  PROVE  /\ Now \in AppOps \cup Saves => Done("app")
         /\ Now = "app" => /\ Who = "receiver" <=> Done("base")
                           /\ External(Ref(Who)) => Done("idp")
         /\ Now = "idp" => /\ ~Done("app") /\ ~Done("idp")
                           /\ External(Ref(Who)) \/ Len(Tests[at.test].ops) = 1
         /\ Now = "base" => Who = "receiver"
         /\ Now \in {"base", "load"} => at.op + 1 \in DOMAIN Tests[at.test].ops
         /\ Now \in Readers => Done("load")
         /\ scenario.cell.flow \notin StoppingFlows => Now \notin FileOps
<1>1. Legal(scenario.cell) /\ at.test \in DOMAIN Tests
  BY Here DEF ScenarioOK
<1>2. /\ InOrder(Tests[at.test], ExternalOf(scenario.cell, Who))
      /\ scenario.cell.flow \notin StoppingFlows => Uses(Tests[at.test].ops, {})
  BY <1>1, EveryTestInOrder DEF Tests, Who
<1>3. ExternalOf(scenario.cell, Who) = External(Ref(Who))
  BY DEF ExternalOf, Ref
<1>4. InOrder(Tests[at.test], External(Ref(Who)))
  BY <1>2, <1>3
<1>5. at.op \in DOMAIN Tests[at.test].ops
  BY Here
<1>6. scenario.cell.flow \notin StoppingFlows => Now \notin FileOps
  BY <1>2, <1>5 DEF Uses, Now
<1> HIDE <1>2, <1>3
<1>7. QED
  BY <1>4, <1>5, <1>6, Here DEF InOrder, Now, Who, Done, Readers

-----------------------------------------------------------------------------
(* What a step leaves the runner with: the next step of the test, the      *)
(* next test, the end of the spec or the test from its beginning.          *)
Onward(p, c) ==
  /\ at.op + 1 \in DOMAIN Tests[at.test].ops
  /\ at' = [test |-> at.test, op |-> at.op + 1]
  /\ page' = p /\ cookies' = c
  /\ run' = run

LeftTest ==
  /\ baseUrl' = "sender" /\ page' = FreshPage(page.top)
  /\ cookies' = NobodySignedIn /\ loaded' = NoFile

NextTest ==
  /\ LeftTest /\ run' = run
  /\ at.test + 1 \in DOMAIN Tests /\ at' = [test |-> at.test + 1, op |-> 1]

SpecOver == LeftTest /\ run' = "ended" /\ at' = at

Restarted ==
  /\ page.origin = None
  /\ \E o \in Origins : page' = FreshPage(o)
  /\ run' = run /\ at' = [test |-> at.test, op |-> 1]
  /\ cookies' = NobodySignedIn /\ baseUrl' = "sender" /\ loaded' = NoFile

(* LeaveTest is the next test or the end of the spec.                      *)
LEMMA LeaveOutcome ==
  ASSUME ScenarioOK, PlaceOK, run = "running", NEW stop \in BOOLEAN, LeaveTest(stop)
  PROVE  /\ stop => SpecOver
         /\ NextTest \/ (SpecOver /\ (stop \/ at.test = Len(Tests)))
<1>1. LeftTest
  BY DEF LeaveTest, LeftTest, BaseUrlAfterTest
<1>2. CASE stop \/ at.test = Len(Tests)
  BY <1>1, <1>2 DEF LeaveTest, SpecOver
<1>3. CASE ~(stop \/ at.test = Len(Tests))
  <2>1. at.test + 1 \in DOMAIN Tests
    BY <1>3, Here
  <2>2. QED
    BY <1>1, <1>3, <2>1 DEF LeaveTest, NextTest
<1>4. QED
  BY <1>2, <1>3

(* A step that works is followed by another, by the next test or, after    *)
(* the last test, by the end of the spec.                                  *)
LEMMA AdvanceOutcome ==
  ASSUME ScenarioOK, PlaceOK, run = "running", NEW p, NEW c, AdvanceOn(p, c)
  PROVE  \/ Onward(p, c) /\ UNCHANGED <<baseUrl, loaded>>
         \/ at.op = Len(Tests[at.test].ops) /\ NextTest
         \/ /\ at.op = Len(Tests[at.test].ops) /\ SpecOver
            /\ at.test = Len(Tests)
<1>1. CASE at.op < Len(Tests[at.test].ops)
  <2>1. at.op + 1 \in DOMAIN Tests[at.test].ops
    BY <1>1, Here
  <2>2. at = [test |-> at.test, op |-> at.op]
    BY DEF PlaceOK
  <2>3. at' = [test |-> at.test, op |-> at.op + 1]
    BY <1>1, <2>2 DEF AdvanceOn
  <2>4. QED
    BY <1>1, <2>1, <2>3 DEF AdvanceOn, Onward
<1>2. CASE ~(at.op < Len(Tests[at.test].ops))
  <2>1. LeaveTest(FALSE)
    BY <1>2 DEF AdvanceOn
  <2>2. NextTest \/ (SpecOver /\ at.test = Len(Tests))
    BY <2>1, LeaveOutcome
  <2>3. at.op = Len(Tests[at.test].ops)
    BY <1>2, Here
  <2>4. QED
    BY <2>2, <2>3
<1>3. QED
  BY <1>1, <1>2

(* A step that fails ends the test, in a flow that stops the spec.         *)
LEMMA FailOutcome ==
  ASSUME ScenarioOK, PlaceOK, run = "running", NEW cause, Fail(cause)
  PROVE  /\ failed' = failed \cup {cause}
         /\ UNCHANGED <<scenario, attempt, sessions, runtime, content, compared>>
         /\ SpecOver \/ NextTest
         /\ scenario.cell.flow \in StoppingFlows => SpecOver
<1>1. LeaveTest(StopsOnFailure(scenario.cell.flow))
  BY DEF Fail
<1>2. CASE scenario.cell.flow \in StoppingFlows
  <2>1. LeaveTest(TRUE)
    BY <1>1, <1>2 DEF StopsOnFailure
  <2>2. SpecOver
    BY <2>1, LeaveOutcome
  <2>3. QED
    BY <2>2 DEF Fail
<1>3. CASE scenario.cell.flow \notin StoppingFlows
  <2>1. LeaveTest(FALSE)
    BY <1>1, <1>3 DEF StopsOnFailure, LeaveTest
  <2>2. SpecOver \/ NextTest
    BY <2>1, LeaveOutcome
  <2>3. QED
    BY <1>3, <2>2 DEF Fail
<1>4. QED
  BY <1>2, <1>3

(* A reload starts the test over and the spec's variables with it.         *)
LEMMA ReloadOutcome ==
  ASSUME PlaceOK, NEW o \in Origins, Reload(o)
  PROVE  /\ Restarted /\ content' = 0
         /\ UNCHANGED <<scenario, attempt, failed, sessions, runtime, compared>>
BY DEF Reload, Restarted, PlaceOK

-----------------------------------------------------------------------------
(* What a test starts with is well typed.                                  *)
LEMMA FreshTypes ==
  /\ NobodySignedIn \in [Origins -> Users \cup {None}]
  /\ \A o \in Origins : NobodySignedIn[o] = None
  /\ NoFile \in [Keys -> 0..MaxAttempts] /\ \A k \in Keys : NoFile[k] = 0
  /\ \A o : /\ FreshPage(o).top = o /\ FreshPage(o).origin = None
            /\ FreshPage(o) = [top |-> FreshPage(o).top, origin |-> FreshPage(o).origin,
                               me |-> FreshPage(o).me]
BY ScenarioAssumption DEF NobodySignedIn, NoFile, FreshPage

(* The runner is well typed where a test starts or the spec ends...        *)
LEMMA FreshPlace ==
  ASSUME ScenarioOK, PlaceOK, run = "running", scenario' = scenario,
         SpecOver \/ NextTest \/ Restarted
  PROVE  PlaceOK'
<1>1. Tests' = Tests
  BY DEF Tests
<1>2. /\ cookies' \in [Origins -> Users \cup {None}] /\ baseUrl' \in Parties
      /\ loaded' \in [Keys -> 0..MaxAttempts]
      /\ page' = [top |-> page'.top, origin |-> page'.origin, me |-> page'.me]
      /\ page'.top \in Origins /\ page'.origin \in Origins \cup {None}
  BY FreshTypes DEF SpecOver, NextTest, Restarted, LeftTest, Parties, PlaceOK
<1>3. /\ run' \in {"running", "ended", "killed"}
      /\ at' = [test |-> at'.test, op |-> at'.op]
      /\ run' = "running" => at'.test \in DOMAIN Tests /\ at'.op \in DOMAIN Tests[at'.test].ops
  BY Here DEF SpecOver, NextTest, Restarted, PlaceOK
<1>4. QED
  BY <1>1, <1>2, <1>3 DEF PlaceOK

(* ... and where a test goes on.                                           *)
LEMMA OnwardPlace ==
  ASSUME ScenarioOK, PlaceOK, run = "running", scenario' = scenario,
         NEW c \in [Origins -> Users \cup {None}], NEW p,
         p = [top |-> p.top, origin |-> p.origin, me |-> p.me],
         p.top \in Origins, p.origin \in Origins \cup {None},
         Onward(p, c), baseUrl' \in Parties, loaded' \in [Keys -> 0..MaxAttempts]
  PROVE  PlaceOK'
<1>1. Tests' = Tests
  BY DEF Tests
<1>2. at.test \in DOMAIN Tests
  BY Here
<1>3. QED
  BY <1>1, <1>2 DEF PlaceOK, Onward

(* The steps before the next one.                                          *)
LEMMA EarlierNext ==
  ASSUME NEW ops, NEW i \in Nat, i > 0, NEW op
  PROVE  Earlier(ops, i + 1, op) <=> Earlier(ops, i, op) \/ ops[i] = op
<1>1. 1..(i + 1 - 1) = 1..(i - 1) \cup {i}
  OBVIOUS
<1>2. QED
  BY <1>1 DEF Earlier

(* A step that is taken is one that has been done...                       *)
LEMMA DoneNext ==
  ASSUME ScenarioOK, PlaceOK, run = "running", scenario' = scenario,
         at' = [test |-> at.test, op |-> at.op + 1], NEW op
  PROVE  Done(op)' <=> Done(op) \/ Now = op
<1>1. Tests' = Tests
  BY DEF Tests
<1>2. at'.test = at.test /\ at'.op = at.op + 1
  OBVIOUS
<1>3. at.op \in Nat /\ at.op > 0
  BY Here
<1>4. Done(op)' <=> Earlier(Tests[at.test].ops, at.op + 1, op)
  BY <1>1, <1>2 DEF Done
<1>5. QED
  BY <1>3, <1>4, EarlierNext DEF Done, Now

(* ... and at its first step a test has done nothing.                      *)
LEMMA DoneFresh ==
  ASSUME NEW op, at'.op = 1
  PROVE  ~Done(op)'
BY DEF Done, Earlier

(* The scenario never changes, nor what is read off it.                    *)
LEMMA SameParty ==
  ASSUME scenario' = scenario
  PROVE  /\ Tests' = Tests
         /\ \A who : Ref(who)' = Ref(who) /\ UserOf(who)' = UserOf(who)
         /\ \A who : Account(who)' = Account(who)
         /\ at'.test = at.test => Who' = Who
         /\ Configured' <=> Configured
         /\ ScenarioOK' <=> ScenarioOK
BY DEF Tests, Ref, UserOf, Account, Who, Configured, ScenarioOK

-----------------------------------------------------------------------------
(* A test that starts is nowhere, signed in nowhere, with the sender's     *)
(* base URL, whatever the test before it left.                             *)
LEMMA FreshPageInv ==
  ASSUME scenario' = scenario, SpecOver \/ NextTest \/ Restarted
  PROVE  PageInv'
<1>1. CASE SpecOver
  BY <1>1 DEF SpecOver, PageInv
<1>2. CASE NextTest \/ Restarted
  <2>1. at'.op = 1 /\ baseUrl' = "sender" /\ cookies' = NobodySignedIn /\ page'.origin = None
    BY <1>2, FreshTypes DEF NextTest, Restarted, LeftTest
  <2>2. ~Done("base")' /\ ~Done("app")' /\ ~Done("idp")'
    BY <2>1, DoneFresh
  <2>3. \A o \in Origins : cookies'[o] = None
    BY <2>1, FreshTypes
  <2>4. QED
    BY <2>1, <2>2, <2>3 DEF PageInv
<1>3. QED
  BY <1>1, <1>2

(* A step that neither logs in nor configures leaves the page alone.       *)
LEMMA QuietPage ==
  ASSUME ScenarioOK, PlaceOK, PageInv, run = "running", scenario' = scenario,
         Onward(page, cookies), baseUrl' = baseUrl, Now \notin {"base", "app", "idp"}
  PROVE  PageInv'
<1>1. \A op \in {"base", "app", "idp"} : Done(op)' <=> Done(op)
  BY DoneNext DEF Onward
<1>2. Who' = Who /\ Account(Who)' = Account(Who) /\ UserOf(Who)' = UserOf(Who)
  BY SameParty DEF Onward, Who, Account, UserOf, Ref, Tests
<1>3. QED
  BY <1>1, <1>2 DEF PageInv, Onward

(* Where a step of a flow that stops may be.                               *)
LEMMA NowHandsOver ==
  ASSUME ScenarioOK, PlaceOK, run = "running", scenario.cell.flow \in StoppingFlows,
         NEW n, n = Warm(scenario.cell)
  PROVE  /\ n \in 0..2 /\ at.test \in 1..(n + 4) /\ Len(Tests) = n + 4
         /\ at.test <= n => Now = "idp" /\ Len(Tests[at.test].ops) = 1
         /\ at.test = n + 1 => /\ Now \in FileOps => Now \in {"clear", "saveInvite", "capture"}
                               /\ Now = "capture" => scenario.cell.flow = "contact-wayf"
                               /\ Now = "saveInvite" <=> at.op = Len(Tests[at.test].ops)
                               /\ Now = "clear" <=> at.op = 1
         /\ at.test = n + 2 => /\ Now \in FileOps => Now \in {"load", "accept", "saveContact"}
                               /\ Now = "saveContact" <=> at.op = Len(Tests[at.test].ops)
         /\ (at.test = n + 3 /\ scenario.cell.flow \in ContactFlows) =>
              /\ Now \in FileOps => Now \in {"load", "needName", "saveContent"}
              /\ at.op = Len(Tests[at.test].ops) => Done("saveContent") /\ Now = "send"
         /\ (at.test = n + 3 /\ scenario.cell.flow \notin ContactFlows) =>
              /\ Now \in FileOps => Now \in {"load", "needName", "saveSender"}
              /\ Now = "saveSender" <=> at.op = Len(Tests[at.test].ops)
         /\ (at.test = n + 4 /\ scenario.cell.flow \in ContactFlows) =>
              /\ Now \in FileOps => Now \in {"load", "needName", "compare"}
              /\ Now = "compare" <=> at.op = Len(Tests[at.test].ops)
         /\ (at.test = n + 4 /\ scenario.cell.flow \notin ContactFlows
             /\ Now \in FileOps) => Now \in {"load", "needName", "needSender", "prove"}
<1> DEFINE c == scenario.cell
           T == TestsOf(c)
           ops == T[at.test].ops
<1>1. Handover(c)
  BY StoppingHandsOver DEF ScenarioOK
<1>2. T = Tests /\ Now = ops[at.op] /\ at.op \in DOMAIN ops /\ DOMAIN ops = 1..Len(ops)
      /\ Len(ops) \in Nat /\ at.op \in 1..Len(ops)
      /\ \A op : Done(op) <=> Earlier(ops, at.op, op)
  BY Here DEF Tests, Now, Done
<1>3. n \in 0..2 /\ at.test \in 1..(n + 4) /\ Len(Tests) = n + 4
  BY <1>1, Here DEF Handover, Tests
<1>4. at.test <= n => Now = "idp" /\ Len(ops) = 1
  <2>1. SUFFICES ASSUME at.test <= n PROVE Now = "idp" /\ Len(ops) = 1
    OBVIOUS
  <2>2. ops = <<"idp">>
    BY <1>1, <1>3, <2>1 DEF Handover
  <2> HIDE DEF ops
  <2>3. Len(ops) = 1 /\ ops[1] = "idp"
    BY <2>2
  <2>4. QED
    BY <1>2, <2>3
<1>5. ASSUME NEW who, NEW ext, NEW first, NEW last, NEW S, Shape(ops, who, ext, first, last, S)
      PROVE  /\ Now \in FileOps => Now \in S
             /\ Now = last <=> at.op = Len(ops)
             /\ Now = first <=> at.op = 1
  BY <1>2, <1>5 DEF Shape, Uses
<1> HIDE DEF T, ops
<1>6. at.test = n + 1 => /\ Now \in FileOps => Now \in {"clear", "saveInvite", "capture"}
                         /\ Now = "capture" => c.flow = "contact-wayf"
                         /\ Now = "saveInvite" <=> at.op = Len(ops)
                         /\ Now = "clear" <=> at.op = 1
  <2>1. SUFFICES ASSUME at.test = n + 1
                 PROVE  /\ Now \in FileOps => Now \in {"clear", "saveInvite", "capture"}
                        /\ Now = "capture" => c.flow = "contact-wayf"
                        /\ Now = "saveInvite" <=> at.op = Len(ops)
                        /\ Now = "clear" <=> at.op = 1
    OBVIOUS
  <2> DEFINE S == {"clear", "saveInvite"} \cup IF c.flow = "contact-wayf" THEN {"capture"} ELSE {}
  <2>2. Shape(ops, "sender", External(c.sender), "clear", "saveInvite", S)
    BY <1>1, <2>1 DEF Handover, ops, T
  <2>3. /\ Now \in FileOps => Now \in S
        /\ Now = "saveInvite" <=> at.op = Len(ops)
        /\ Now = "clear" <=> at.op = 1
    <3> HIDE DEF S
    <3>1. QED
      BY <1>5, <2>2
  <2>4. "capture" \in FileOps
    BY DEF FileOps
  <2>5. QED
    BY <2>3, <2>4
<1>7. at.test = n + 2 => /\ Now \in FileOps => Now \in {"load", "accept", "saveContact"}
                         /\ Now = "saveContact" <=> at.op = Len(ops)
  BY <1>1, <1>5 DEF Handover, ops, T
<1>8. (at.test = n + 3 /\ c.flow \in ContactFlows) =>
        /\ Now \in FileOps => Now \in {"load", "needName", "saveContent"}
        /\ at.op = Len(ops) => Done("saveContent") /\ Now = "send"
  BY <1>1, <1>2, <1>5 DEF Handover, ops, T
<1>9. (at.test = n + 3 /\ c.flow \notin ContactFlows) =>
        /\ Now \in FileOps => Now \in {"load", "needName", "saveSender"}
        /\ Now = "saveSender" <=> at.op = Len(ops)
  BY <1>1, <1>5 DEF Handover, ops, T
<1>10. (at.test = n + 4 /\ c.flow \in ContactFlows) =>
         /\ Now \in FileOps => Now \in {"load", "needName", "compare"}
         /\ Now = "compare" <=> at.op = Len(ops)
  BY <1>1, <1>5 DEF Handover, ops, T
<1>11. (at.test = n + 4 /\ c.flow \notin ContactFlows /\ Now \in FileOps) =>
         Now \in {"load", "needName", "needSender", "prove"}
  BY <1>1, <1>5 DEF Handover, ops, T
<1>12. ops = Tests[at.test].ops
  BY <1>2 DEF ops
<1>13. QED
  BY <1>3, <1>4, <1>6, <1>7, <1>8, <1>9, <1>10, <1>11, <1>12

-----------------------------------------------------------------------------
(* FileInv after a step, without the names of the state before.            *)
LEMMA FileNext ==
  ASSUME scenario' = scenario, NEW n, n = Warm(scenario.cell),
         run' = "running", failed' = {},
         at'.test > n + 1 \/ Done("clear")' => \A k \in Keys : runtime'[k] \in {0, attempt'},
         at'.test > n + 1 => runtime'["invite"] = attempt' /\ runtime'["name"] = attempt',
         (/\ at'.test > n + 3 \/ Done("saveContent")'
          /\ scenario.cell.flow \in ContactFlows /\ GivesContent(Ref("sender"))) =>
           runtime'["content"] = attempt',
         at'.test > n + 3 /\ scenario.cell.flow \notin ContactFlows =>
           runtime'["senderId"] = attempt',
         Done("load")' =>
           /\ loaded'["invite"] = attempt' /\ loaded'["name"] = attempt'
           /\ at'.test > n + 3 => /\ loaded'["content"] = runtime'["content"]
                                  /\ loaded'["senderId"] = runtime'["senderId"]
  PROVE  FileInv'
<1>1. Ref("sender")' = Ref("sender")
  BY SameParty
<1>2. Warm(scenario.cell)' = n
  OBVIOUS
<1>3. QED
  BY <1>1, <1>2 DEF FileInv

(* FileInv of a flow that stops.                                           *)
LEMMA FileNow ==
  ASSUME FileInv, run = "running", scenario.cell.flow \in StoppingFlows,
         NEW n, n = Warm(scenario.cell)
  PROVE  /\ failed = {}
         /\ at.test > n + 1 \/ Done("clear") => \A k \in Keys : runtime[k] \in {0, attempt}
         /\ at.test > n + 1 => runtime["invite"] = attempt /\ runtime["name"] = attempt
         /\ (/\ at.test > n + 3 \/ Done("saveContent")
             /\ scenario.cell.flow \in ContactFlows /\ GivesContent(Ref("sender"))) =>
              runtime["content"] = attempt
         /\ at.test > n + 3 /\ scenario.cell.flow \notin ContactFlows =>
              runtime["senderId"] = attempt
         /\ Done("load") =>
              /\ loaded["invite"] = attempt /\ loaded["name"] = attempt
              /\ at.test > n + 3 => /\ loaded["content"] = runtime["content"]
                                    /\ loaded["senderId"] = runtime["senderId"]
BY DEF FileInv

(* FileInv says nothing of the other flows or of a spec that is over.      *)
LEMMA NoFileInv ==
  ASSUME scenario' = scenario,
         scenario.cell.flow \notin StoppingFlows \/ run' # "running"
  PROVE  FileInv'
BY DEF FileInv

(* A reload loses what the test has read, not the file.                    *)
LEMMA RestartedFile ==
  ASSUME ScenarioOK, PlaceOK, FileInv, run = "running", Restarted,
         UNCHANGED <<scenario, attempt, failed, runtime>>
  PROVE  FileInv'
<1>1. CASE scenario.cell.flow \notin StoppingFlows
  BY <1>1, NoFileInv
<1>2. CASE scenario.cell.flow \in StoppingFlows
  <2> DEFINE n == Warm(scenario.cell)
  <2> HIDE DEF n
  <2>1. /\ at'.test = at.test /\ run' = "running"
        /\ ~Done("clear")' /\ ~Done("saveContent")' /\ ~Done("load")'
    BY DoneFresh DEF Restarted
  <2>2. /\ failed = {}
        /\ at.test > n + 1 => \A k \in Keys : runtime[k] \in {0, attempt}
        /\ at.test > n + 1 => runtime["invite"] = attempt /\ runtime["name"] = attempt
        /\ (at.test > n + 3 /\ scenario.cell.flow \in ContactFlows
            /\ GivesContent(Ref("sender"))) => runtime["content"] = attempt
        /\ at.test > n + 3 /\ scenario.cell.flow \notin ContactFlows =>
             runtime["senderId"] = attempt
    BY <1>2, FileNow DEF n
  <2>3. QED
    BY <2>1, <2>2, FileNext DEF n
<1>3. QED
  BY <1>1, <1>2

(* A step that neither reads nor writes the file.                          *)
LEMMA OnwardFile ==
  ASSUME ScenarioOK, PlaceOK, FileInv, run = "running", NEW p, NEW c, Onward(p, c),
         UNCHANGED <<scenario, attempt, failed, runtime, loaded>>,
         Now \notin {"clear", "load", "saveContent"}
  PROVE  FileInv'
<1>1. CASE scenario.cell.flow \notin StoppingFlows
  BY <1>1, NoFileInv
<1>2. CASE scenario.cell.flow \in StoppingFlows
  <2> DEFINE n == Warm(scenario.cell)
  <2> HIDE DEF n
  <2>1. /\ at'.test = at.test /\ run' = "running"
        /\ Done("clear")' <=> Done("clear")
        /\ Done("saveContent")' <=> Done("saveContent")
        /\ Done("load")' <=> Done("load")
    BY DoneNext DEF Onward
  <2>2. /\ failed = {}
        /\ at.test > n + 1 \/ Done("clear") => \A k \in Keys : runtime[k] \in {0, attempt}
        /\ at.test > n + 1 => runtime["invite"] = attempt /\ runtime["name"] = attempt
        /\ (/\ at.test > n + 3 \/ Done("saveContent")
            /\ scenario.cell.flow \in ContactFlows /\ GivesContent(Ref("sender"))) =>
             runtime["content"] = attempt
        /\ at.test > n + 3 /\ scenario.cell.flow \notin ContactFlows =>
             runtime["senderId"] = attempt
        /\ Done("load") =>
             /\ loaded["invite"] = attempt /\ loaded["name"] = attempt
             /\ at.test > n + 3 => /\ loaded["content"] = runtime["content"]
                                   /\ loaded["senderId"] = runtime["senderId"]
    BY <1>2, FileNow DEF n
  <2>3. QED
    BY <2>1, <2>2, FileNext DEF n
<1>3. QED
  BY <1>1, <1>2

(* A test that ends without a write has written before, or needs not.      *)
LEMMA NextTestFile ==
  ASSUME ScenarioOK, PlaceOK, FileInv, run = "running", NextTest,
         at.op = Len(Tests[at.test].ops), Now \notin Saves,
         UNCHANGED <<scenario, attempt, failed, runtime>>
  PROVE  FileInv'
<1>1. CASE scenario.cell.flow \notin StoppingFlows
  BY <1>1, NoFileInv
<1>2. CASE scenario.cell.flow \in StoppingFlows
  <2> DEFINE n == Warm(scenario.cell)
  <2> HIDE DEF n
  <2>1. /\ at'.test = at.test + 1 /\ run' = "running" /\ at.test + 1 \in DOMAIN Tests
        /\ ~Done("clear")' /\ ~Done("saveContent")' /\ ~Done("load")'
    BY DoneFresh DEF NextTest
  <2>2. /\ failed = {}
        /\ at.test > n + 1 => \A k \in Keys : runtime[k] \in {0, attempt}
        /\ at.test > n + 1 => runtime["invite"] = attempt /\ runtime["name"] = attempt
        /\ (Done("saveContent") /\ scenario.cell.flow \in ContactFlows
            /\ GivesContent(Ref("sender"))) => runtime["content"] = attempt
    BY <1>2, FileNow DEF n
  <2>3. /\ n \in 0..2 /\ at.test \in 1..(n + 4) /\ DOMAIN Tests = 1..(n + 4)
        /\ at.test = n + 1 => Now = "saveInvite"
        /\ at.test = n + 3 /\ scenario.cell.flow \in ContactFlows => Done("saveContent")
        /\ at.test = n + 3 /\ scenario.cell.flow \notin ContactFlows => Now = "saveSender"
    BY <1>2, NowHandsOver, Here DEF n
  <2>4. at.test # n + 1
    BY <2>3 DEF Saves
  <2>5. at.test = n + 3 => scenario.cell.flow \in ContactFlows
    BY <2>3 DEF Saves
  <2>6. at.test < n + 4
    BY <2>1, <2>3
  <2>7. at'.test > n + 1 => at.test > n + 1
    BY <2>1, <2>3, <2>4
  <2>8. at'.test > n + 3 => at.test = n + 3
    BY <2>1, <2>3, <2>6
  <2>9. QED
    BY <2>1, <2>2, <2>3, <2>5, <2>7, <2>8, FileNext DEF n
<1>3. QED
  BY <1>1, <1>2

-----------------------------------------------------------------------------
(* The sessions a flow needs are those of its first tests.                 *)
LEMMA SessionsMadeFirst ==
  ASSUME ScenarioOK, PlaceOK, run = "running"
  PROVE  /\ External(Ref("sender")) /\ at.test = 1 =>
              Now = "idp" /\ Who = "sender" /\ Len(Tests[1].ops) = 1
         /\ (External(Ref("receiver")) /\ scenario.cell.flow # "login"
             /\ at.test = Warm(scenario.cell)) =>
              Now = "idp" /\ Who = "receiver" /\ Len(Tests[at.test].ops) = 1
         /\ (External(Ref("receiver")) /\ scenario.cell.flow # "login") => Warm(scenario.cell) > 0
         /\ Warm(scenario.cell) \in 0..2
         /\ (Now = "idp" /\ Len(Tests[at.test].ops) # 1) =>
              /\ External(Ref(Who))
              /\ Who = "sender" => at.test > 1
              /\ Who = "receiver" => /\ at.test > Warm(scenario.cell)
                                     /\ scenario.cell.flow # "login"
         /\ scenario.cell.flow = "login" => Who = "sender"
<1> DEFINE c == scenario.cell
           n == Warm(c)
<1>1. Legal(c) /\ Ref("sender") = c.sender /\ Ref("receiver") = c.receiver
      /\ c["sender"] = c.sender /\ c["receiver"] = c.receiver
  BY DEF ScenarioOK, Ref
<1>2. /\ (Now = "idp" /\ Len(Tests[at.test].ops) # 1) => External(Ref(Who))
      /\ Who \in Parties
      /\ Len(Tests[at.test].ops) \in Nat /\ at.op \in 1..Len(Tests[at.test].ops)
      /\ at.test \in 1..Len(Tests)
  BY NowInOrder, Here
<1>3. CASE c.flow \in StoppingFlows
  <2>1. Handover(c)
    BY <1>1, <1>3, StoppingHandsOver
  <2>2. /\ n \in 0..2
        /\ \A t \in 1..n : /\ Tests[t].ops = <<"idp">>
                           /\ Tests[t].who = IF t = 1 /\ External(c.sender)
                                             THEN "sender" ELSE "receiver"
        /\ External(c.receiver) => n > 0 /\ Tests[n].who = "receiver"
        /\ External(c.sender) => n > 0
    BY <2>1 DEF Handover, Tests
  <2>3. \A t \in 1..n : Len(Tests[t].ops) = 1 /\ Tests[t].ops[1] = "idp"
    BY <2>2
  <2>4. at.test \in 1..n => Now = "idp" /\ Len(Tests[at.test].ops) = 1
    BY <1>2, <2>3 DEF Now
  <2>5. c.flow # "login"
    BY <1>3 DEF StoppingFlows, ContactFlows
  <2> HIDE DEF n
  <2>6. External(c.sender) /\ at.test = 1 => Who = "sender" /\ 1 \in 1..n
    BY <2>2 DEF Who
  <2>7. (External(c.receiver) /\ at.test = n) => Who = "receiver" /\ n \in 1..n
    BY <2>2 DEF Who
  <2>8. (Now = "idp" /\ Len(Tests[at.test].ops) # 1) =>
          /\ at.test > n
          /\ Who = "sender" => at.test > 1
    <3>1. SUFFICES ASSUME Now = "idp", Len(Tests[at.test].ops) # 1
                   PROVE  at.test > n /\ (Who = "sender" => at.test > 1)
      OBVIOUS
    <3>2. at.test > n
      BY <1>2, <2>2, <2>4, <3>1
    <3>3. Who = "sender" => External(c.sender)
      BY <1>1, <1>2, <3>1
    <3>4. QED
      BY <1>2, <2>2, <3>2, <3>3
  <2>9. QED
    BY <1>1, <1>2, <2>2, <2>4, <2>5, <2>6, <2>7, <2>8 DEF n
<1>4. CASE c.flow = "login"
  <2>1. n = 0 /\ c.flow = "login"
    BY <1>4 DEF Warm
  <2>2. Tests = LoginTests(c)
    BY <1>4 DEF Tests, TestsOf
  <2>3. Who = "sender"
    <3>1. \A t \in DOMAIN LoginTests(c) : LoginTests(c)[t].who = "sender"
      BY DEF LoginTests, Test
    <3>2. QED
      BY <1>2, <2>2, <3>1, Here DEF Who
  <2>4. External(c.sender) /\ at.test = 1 => Now = "idp" /\ Len(Tests[1].ops) = 1
    <3>1. SUFFICES ASSUME External(c.sender), at.test = 1
                   PROVE  Now = "idp" /\ Len(Tests[1].ops) = 1
      OBVIOUS
    <3>2. Tests[1].ops = <<"idp">>
      BY <2>2, <3>1 DEF LoginTests, Test, External
    <3>3. Len(Tests[1].ops) = 1 /\ Tests[1].ops[1] = "idp"
      BY <3>2
    <3>4. QED
      BY <1>2, <3>1, <3>3 DEF Now
  <2>5. (Now = "idp" /\ Len(Tests[at.test].ops) # 1) => at.test > 1
    BY <1>1, <1>2, <2>3, <2>4
  <2> HIDE DEF n
  <2>6. QED
    BY <1>1, <1>2, <2>1, <2>3, <2>4, <2>5 DEF n
<1>5. CASE c.flow = "share-with"
  <2>1. ~External(c.sender) /\ ~External(c.receiver)
    BY <1>1, <1>5, LegalPlatforms DEF Parties, External
  <2>2. n = 0
    BY <1>5 DEF Warm
  <2> HIDE DEF n
  <2>3. ~External(Ref(Who))
    BY <1>1, <1>2, <2>1 DEF Parties
  <2>4. QED
    BY <1>1, <1>2, <1>5, <2>1, <2>2, <2>3 DEF n
<1>6. QED
  BY <1>1, <1>3, <1>4, <1>5 DEF Legal

(* SessionInv after a step.                                                *)
LEMMA SessionNext ==
  ASSUME scenario' = scenario,
         (run' = "running" /\ Configured /\ "product" \notin failed') =>
           /\ External(Ref("sender")) /\ at'.test > 1 => SessionKept("sender")'
           /\ (External(Ref("receiver")) /\ scenario.cell.flow # "login"
               /\ at'.test > Warm(scenario.cell)) => SessionKept("receiver")'
           /\ ~Done("app")' => page'.origin = None
           /\ Done("idp")' => cookies'[scenario.idp[Who']] = UserOf(Who')
  PROVE  SessionInv'
<1>1. /\ Ref("sender")' = Ref("sender") /\ Ref("receiver")' = Ref("receiver")
      /\ Configured' <=> Configured
  BY SameParty
<1>2. UserOf(Who)' = UserOf(Who')
  BY DEF UserOf
<1>3. QED
  BY <1>1, <1>2 DEF SessionInv

(* A session stays in the cache.                                           *)
LEMMA SessionStays ==
  ASSUME scenario' = scenario, sessions \subseteq sessions', NEW who, SessionKept(who)
  PROVE  SessionKept(who)'
BY DEF SessionKept, Cached, UserOf

(* A step that makes no session needs none made.                           *)
LEMMA QuietSession ==
  ASSUME ScenarioOK, PlaceOK, SessionInv, run = "running",
         scenario' = scenario, sessions' = sessions,
         "product" \in failed => "product" \in failed',
         \/ SpecOver \/ Restarted
         \/ NextTest /\ Now # "idp"
         \/ /\ \E p : Onward(p, cookies) /\ (page'.origin = page.origin \/ Done("app")')
            /\ Now # "idp"
  PROVE  SessionInv'
<1>1. SUFFICES ASSUME run' = "running", Configured, "product" \notin failed'
               PROVE  /\ External(Ref("sender")) /\ at'.test > 1 => SessionKept("sender")'
                      /\ (External(Ref("receiver")) /\ scenario.cell.flow # "login"
                          /\ at'.test > Warm(scenario.cell)) => SessionKept("receiver")'
                      /\ ~Done("app")' => page'.origin = None
                      /\ Done("idp")' => cookies'[scenario.idp[Who']] = UserOf(Who')
  BY SessionNext
<1>2. "product" \notin failed
  BY <1>1
<1>3. /\ External(Ref("sender")) /\ at.test > 1 => SessionKept("sender")
      /\ (External(Ref("receiver")) /\ scenario.cell.flow # "login"
          /\ at.test > Warm(scenario.cell)) => SessionKept("receiver")
      /\ ~Done("app") => page.origin = None
      /\ Done("idp") => cookies[scenario.idp[Who]] = UserOf(Who)
  BY <1>1, <1>2 DEF SessionInv
<1>4. /\ SessionKept("sender")' <=> SessionKept("sender")
      /\ SessionKept("receiver")' <=> SessionKept("receiver")
  BY DEF SessionKept, Cached, UserOf
<1>5. ~SpecOver
  BY <1>1 DEF SpecOver
<1>6. CASE Restarted
  <2>1. at'.test = at.test /\ page'.origin = None /\ ~Done("idp")'
    BY <1>6, DoneFresh, FreshTypes DEF Restarted
  <2>2. QED
    BY <1>3, <1>4, <2>1
<1>7. CASE NextTest /\ Now # "idp"
  <2>1. at'.test = at.test + 1 /\ page'.origin = None /\ ~Done("idp")'
    BY <1>7, DoneFresh, FreshTypes DEF NextTest, LeftTest
  <2>2. /\ External(Ref("sender")) => at.test # 1
        /\ (External(Ref("receiver")) /\ scenario.cell.flow # "login") =>
             at.test # Warm(scenario.cell)
        /\ Warm(scenario.cell) \in 0..2 /\ at.test \in Nat /\ at.test > 0
    BY <1>7, SessionsMadeFirst, Here
  <2>3. QED
    BY <1>3, <1>4, <2>1, <2>2
<1>8. CASE /\ \E p : Onward(p, cookies) /\ (page'.origin = page.origin \/ Done("app")')
           /\ Now # "idp"
  <2>1. /\ at' = [test |-> at.test, op |-> at.op + 1] /\ cookies' = cookies
        /\ page'.origin = page.origin \/ Done("app")'
    BY <1>8 DEF Onward
  <2>2. /\ Done("app")' <=> Done("app") \/ Now = "app"
        /\ Done("idp")' <=> Done("idp") \/ Now = "idp"
    BY <2>1, DoneNext
  <2>3. Who' = Who /\ at'.test = at.test
    BY <2>1, SameParty
  <2>4. QED
    BY <1>3, <1>4, <1>8, <2>1, <2>2, <2>3
<1>9. QED
  BY <1>5, <1>6, <1>7, <1>8

-----------------------------------------------------------------------------
(* All but what a contact flow promises once it has passed.                *)
CoreInv ==
  /\ ScenarioOK /\ PlaceOK /\ StoreOK
  /\ PageInv /\ FileInv /\ SessionInv
  /\ RuntimeIsThisAttempts /\ FailsOnlyForTheProducts

(* The inductive invariant.                                                *)
IInv == CoreInv /\ PassedMeansContentCompared

(* With users and providers configured each party has an account, and its  *)
(* provider is the one its application knows.                              *)
LEMMA ConfiguredUsers ==
  ASSUME ScenarioOK, Configured, NEW who \in Parties
  PROVE  UserOf(who) # None /\ IdpConfig(who) = scenario.idp[who]
<1>1. scenario.exposed[who] = scenario.idp[who] /\ scenario.idp[who] \in Idps
  BY DEF Configured, ScenarioOK
<1>2. scenario.exposed[who] # None
  BY <1>1 DEF Idps, None
<1>3. QED
  BY <1>1, <1>2 DEF Configured, IdpConfig

(* A failing step keeps the invariant, if a configured flow only fails for *)
(* its products: the test's page, cookies and base URL are reset, and a    *)
(* flow that stops is over.                                                *)
LEMMA FailStep ==
  ASSUME CoreInv, run = "running", NEW cause, Fail(cause),
         cause \in {"product", "credentials", "account", "origin", "runtime"},
         Configured /\ "product" \notin failed => cause = "product"
  PROVE  IInv'
<1>1. /\ failed' = failed \cup {cause}
      /\ UNCHANGED <<scenario, attempt, sessions, runtime, content, compared>>
      /\ SpecOver \/ NextTest
      /\ scenario.cell.flow \in StoppingFlows => SpecOver
  BY FailOutcome DEF CoreInv
<1> USE DEF CoreInv
<1>2. ScenarioOK' /\ PlaceOK'
  BY <1>1, FreshPlace, SameParty
<1>3. StoreOK'
  BY <1>1 DEF StoreOK
<1>4. PageInv'
  BY <1>1, FreshPageInv
<1>5. FileInv'
  BY <1>1, NoFileInv DEF SpecOver
<1>6. Configured' <=> Configured
  BY <1>1, SameParty
<1>7. FailsOnlyForTheProducts'
  BY <1>1, <1>6 DEF FailsOnlyForTheProducts
<1>8. SessionInv'
  <2>1. Configured => "product" \in failed'
    BY <1>1
  <2>2. QED
    BY <1>1, <2>1, SessionNext
<1>9. RuntimeIsThisAttempts'
  BY <1>1, FreshTypes DEF RuntimeIsThisAttempts, SpecOver, NextTest, LeftTest
<1>10. PassedMeansContentCompared'
  BY <1>1 DEF PassedMeansContentCompared
<1>11. QED
  BY <1>2, <1>3, <1>4, <1>5, <1>7, <1>8, <1>9, <1>10 DEF IInv

(* So does a reload: the file and the sessions outlive it.                 *)
LEMMA ReloadStep ==
  ASSUME CoreInv, run = "running", NEW o \in Origins, Reload(o)
  PROVE  IInv'
<1> USE DEF CoreInv
<1>1. /\ Restarted /\ content' = 0
      /\ UNCHANGED <<scenario, attempt, failed, sessions, runtime, compared>>
  BY ReloadOutcome
<1>2. ScenarioOK' /\ PlaceOK'
  BY <1>1, FreshPlace, SameParty
<1>3. StoreOK'
  BY <1>1, ScenarioAssumption DEF StoreOK
<1>4. PageInv'
  BY <1>1, FreshPageInv
<1>5. FileInv'
  BY <1>1, RestartedFile
<1>6. SessionInv'
  BY <1>1, QuietSession
<1>7. Configured' <=> Configured
  BY <1>1, SameParty
<1>8. FailsOnlyForTheProducts'
  BY <1>1, <1>7 DEF FailsOnlyForTheProducts
<1>9. RuntimeIsThisAttempts'
  BY <1>1, FreshTypes DEF RuntimeIsThisAttempts, Restarted
<1>10. PassedMeansContentCompared'
  BY <1>1 DEF PassedMeansContentCompared, Restarted
<1>11. QED
  BY <1>2, <1>3, <1>4, <1>5, <1>6, <1>8, <1>9, <1>10 DEF IInv

(* A step that works, whatever it leaves in the file.                      *)
LEMMA WorkingStep ==
  ASSUME CoreInv, run = "running", AdvanceOn(page, cookies),
         UNCHANGED <<scenario, attempt, failed, sessions>>,
         Now \notin {"base", "app", "idp", "load"},
         content' \in 0..MaxAttempts, compared' \subseteq 1..MaxAttempts,
         runtime' \in [Keys -> 0..MaxAttempts], FileInv'
  PROVE  CoreInv'
<1> USE DEF CoreInv
<1>1. \/ Onward(page, cookies) /\ UNCHANGED <<baseUrl, loaded>>
      \/ NextTest \/ SpecOver
  BY AdvanceOutcome
<1>2. ScenarioOK'
  BY SameParty
<1>3. StoreOK'
  BY DEF StoreOK
<1>4. Configured' <=> Configured
  BY SameParty
<1>5. FailsOnlyForTheProducts'
  BY <1>4 DEF FailsOnlyForTheProducts
<1>6. RuntimeIsThisAttempts'
  BY <1>1, FreshTypes DEF RuntimeIsThisAttempts, SpecOver, NextTest, LeftTest
<1>7. CASE Onward(page, cookies) /\ UNCHANGED <<baseUrl, loaded>>
  <2>1. PlaceOK'
    BY <1>7, OnwardPlace DEF PlaceOK
  <2>2. PageInv'
    BY <1>7, QuietPage
  <2>3. SessionInv'
    <3>1. page' = page
      BY <1>7 DEF Onward
    <3>2. QED
      BY <1>7, <3>1, QuietSession
  <2>4. QED
    BY <1>2, <1>3, <1>5, <1>6, <2>1, <2>2, <2>3
<1>8. CASE NextTest \/ SpecOver
  <2>1. PlaceOK'
    BY <1>8, FreshPlace
  <2>2. PageInv'
    BY <1>8, FreshPageInv
  <2>3. SessionInv'
    BY <1>8, QuietSession
  <2>4. QED
    BY <1>2, <1>3, <1>5, <1>6, <2>1, <2>2, <2>3
<1>9. QED
  BY <1>1, <1>7, <1>8

(* Only the comparison can be the last step of a contact flow.             *)
LEMMA PassedQuiet ==
  ASSUME ScenarioOK, PlaceOK, run = "running", scenario' = scenario,
         NEW p, NEW c, AdvanceOn(p, c), Now # "compare"
  PROVE  PassedMeansContentCompared'
<1>1. \/ Onward(p, c) \/ NextTest
      \/ at.op = Len(Tests[at.test].ops) /\ SpecOver /\ at.test = Len(Tests)
  BY AdvanceOutcome
<1>2. CASE Onward(p, c) \/ NextTest
  BY <1>2 DEF Onward, NextTest, PassedMeansContentCompared
<1>3. CASE at.op = Len(Tests[at.test].ops) /\ at.test = Len(Tests)
  <2>1. scenario.cell.flow \in ContactFlows => scenario.cell.flow \in StoppingFlows
    BY DEF StoppingFlows
  <2>2. scenario.cell.flow \notin ContactFlows
    BY <1>3, <2>1, NowHandsOver
  <2>3. QED
    BY <2>2 DEF PassedMeansContentCompared
<1>4. QED
  BY <1>1, <1>2, <1>3

(* What a step that leaves the file alone does to FileInv.                 *)
LEMMA QuietFile ==
  ASSUME ScenarioOK, PlaceOK, FileInv, run = "running", NEW p, NEW c, AdvanceOn(p, c),
         UNCHANGED <<scenario, attempt, failed, runtime>>,
         Now \notin Saves \cup {"clear", "load"}
  PROVE  FileInv'
<1>1. \/ Onward(p, c) /\ UNCHANGED <<baseUrl, loaded>>
      \/ at.op = Len(Tests[at.test].ops) /\ NextTest
      \/ SpecOver
  BY AdvanceOutcome
<1>2. CASE Onward(p, c) /\ UNCHANGED <<baseUrl, loaded>>
  BY <1>2, OnwardFile DEF Saves
<1>3. CASE at.op = Len(Tests[at.test].ops) /\ NextTest
  BY <1>3, NextTestFile
<1>4. CASE SpecOver
  BY <1>4, NoFileInv DEF SpecOver
<1>5. QED
  BY <1>1, <1>2, <1>3, <1>4

(* A step that works and touches neither the file nor the sessions.        *)
LEMMA QuietStep ==
  ASSUME CoreInv, run = "running", AdvanceOn(page, cookies),
         UNCHANGED <<scenario, attempt, failed, sessions, runtime>>,
         Now \notin Saves \cup {"base", "app", "idp", "clear", "load", "compare"},
         content' \in 0..MaxAttempts, compared' \subseteq 1..MaxAttempts
  PROVE  IInv'
<1>1. FileInv'
  BY QuietFile DEF CoreInv
<1>2. CoreInv'
  BY <1>1, WorkingStep DEF CoreInv, StoreOK
<1>3. PassedMeansContentCompared'
  BY PassedQuiet DEF CoreInv
<1>4. QED
  BY <1>2, <1>3 DEF IInv

-----------------------------------------------------------------------------
(* The page of a visit, and the account it then shows.                     *)
Visited(q, o, shown) == [q EXCEPT !.origin = o, !.me = shown]

(* The page of a visit is where it went.                                   *)
LEMMA VisitedPage ==
  ASSUME NEW q, q = [top |-> q.top, origin |-> q.origin, me |-> q.me], NEW o, NEW shown
  PROVE  /\ Visited(q, o, shown) = [top |-> q.top, origin |-> o, me |-> shown]
         /\ Visited(q, o, shown).origin = o /\ Visited(q, o, shown).me = shown
         /\ Visited(q, o, shown).top = q.top
<1> DEFINE r == [q EXCEPT !.origin = o, !.me = shown]
<1>1. /\ r.top = q.top /\ r.origin = o /\ r.me = shown
      /\ DOMAIN r = {"top", "origin", "me"} /\ r = [x \in DOMAIN r |-> r[x]]
  OBVIOUS
<1>2. r = [x \in {"top", "origin", "me"} |-> r[x]]
  BY <1>1
<1> HIDE DEF r
<1>3. r = [top |-> q.top, origin |-> o, me |-> shown]
  BY <1>1, <1>2
<1>4. QED
  BY <1>1, <1>3 DEF r, Visited

(* establishIdpSession: from the cache or by a visit, the provider knows   *)
(* this party alone. With its session made ahead a flow never visits the   *)
(* provider in a test that goes on to the application.                     *)
LEMMA IdpInv == IInv /\ Idp => IInv'
<1> SUFFICES ASSUME IInv, Idp PROVE IInv'
  OBVIOUS
<1> DEFINE o   == IdpConfig(Who)
           key == <<o, UserOf(Who)>>
           only(user) == [NobodySignedIn EXCEPT ![o] = user]
<1>1. CoreInv /\ run = "running" /\ Now = "idp"
  BY DEF IInv, Idp, Running
<1> USE DEF CoreInv
<1>2. /\ Who \in Parties /\ ~Done("app") /\ ~Done("idp")
      /\ External(Ref(Who)) \/ Len(Tests[at.test].ops) = 1
  BY <1>1, Here, NowInOrder
<1>3. page.origin = None
  BY <1>1, <1>2 DEF PageInv
<1>4. o \in Idps /\ o \in Origins
  BY <1>1, <1>2 DEF IdpConfig, ScenarioOK, Idps, Origins, Parties
<1>5. Configured => UserOf(Who) # None /\ o = scenario.idp[Who]
  BY <1>1, <1>2, ConfiguredUsers
<1>6. CASE UserOf(Who) = None /\ Fail("credentials")
  BY <1>1, <1>5, <1>6, FailStep
<1>7. ~CannotVisit(o)
  BY <1>3 DEF CannotVisit
<1>8. CASE Reload(o)
  BY <1>1, <1>4, <1>8, ReloadStep
(* Signed in, at the provider, from the cache or by a visit.               *)
<1>9. ASSUME NEW p, AdvanceOn(p, only(UserOf(Who))), UserOf(Who) # None,
             p = [top |-> page.top, origin |-> p.origin, me |-> p.me],
             \/ p.origin = None /\ Cached(key) # {}
             \/ p.origin = o /\ Cached(key) = {},
             UNCHANGED <<scenario, attempt, failed, runtime, content, compared>>,
             sessions \subseteq sessions',
             \A s \in sessions' \ sessions : s = [key |-> key, user |-> UserOf(Who)],
             {s \in sessions' : s.key = key} # {}
      PROVE  IInv'
  <2> USE <1>1
  <2>1. \/ Onward(p, only(UserOf(Who))) /\ UNCHANGED <<baseUrl, loaded>>
        \/ at.op = Len(Tests[at.test].ops) /\ NextTest
        \/ SpecOver
    BY <1>9, AdvanceOutcome
  <2>2. UserOf(Who) \in Users
    BY <1>2, <1>9 DEF UserOf, ScenarioOK
  <2>3. StoreOK'
    BY <1>4, <1>9, <2>2 DEF StoreOK
  <2>4. /\ ScenarioOK' /\ FailsOnlyForTheProducts' /\ RuntimeIsThisAttempts'
        /\ PassedMeansContentCompared'
    <3>1. ScenarioOK' /\ (Configured' <=> Configured)
      BY <1>9, SameParty
    <3>2. FailsOnlyForTheProducts'
      BY <1>9, <3>1 DEF FailsOnlyForTheProducts
    <3>3. RuntimeIsThisAttempts'
      BY <1>9, <2>1, FreshTypes DEF RuntimeIsThisAttempts, SpecOver, NextTest, LeftTest
    <3>4. PassedMeansContentCompared'
      BY <1>9, PassedQuiet
    <3>5. QED
      BY <3>1, <3>2, <3>3, <3>4
  <2>5. FileInv'
    BY <1>9, QuietFile DEF Saves
  <2>6. CASE SpecOver
    BY <1>9, <2>3, <2>4, <2>5, <2>6, FreshPlace, FreshPageInv, SessionNext
    DEF IInv, SpecOver
  <2>7. (Configured /\ "product" \notin failed) =>
           /\ External(Ref("sender")) /\ at.test > 1 => SessionKept("sender")'
           /\ (External(Ref("receiver")) /\ scenario.cell.flow # "login"
               /\ at.test > Warm(scenario.cell)) => SessionKept("receiver")'
           /\ \A w : w = Who => SessionKept(w)'
    <3>1. SUFFICES ASSUME Configured, "product" \notin failed
                   PROVE  /\ External(Ref("sender")) /\ at.test > 1 => SessionKept("sender")'
                          /\ (External(Ref("receiver")) /\ scenario.cell.flow # "login"
                              /\ at.test > Warm(scenario.cell)) => SessionKept("receiver")'
                          /\ \A w : w = Who => SessionKept(w)'
      OBVIOUS
    <3>2. /\ External(Ref("sender")) /\ at.test > 1 => SessionKept("sender")
          /\ (External(Ref("receiver")) /\ scenario.cell.flow # "login"
              /\ at.test > Warm(scenario.cell)) => SessionKept("receiver")
      BY <3>1 DEF SessionInv
    <3>3. \A who : SessionKept(who) => SessionKept(who)'
      BY <1>9, SessionStays
    <3>4. ASSUME NEW w, w = Who
          PROVE  SessionKept(w)'
      <4>1. key = <<scenario.idp[w], scenario.user[w]>>
        BY <1>5, <3>1, <3>4 DEF UserOf
      <4>2. {s \in sessions' : s.key = <<scenario.idp[w], scenario.user[w]>>} # {}
        BY <1>9, <4>1
      <4>3. QED
        BY <1>9, <4>2 DEF SessionKept, Cached, UserOf
    <3>5. QED
      BY <3>2, <3>3, <3>4
  <2>8. CASE at.op = Len(Tests[at.test].ops) /\ NextTest
    <3>1. PlaceOK' /\ PageInv'
      BY <1>9, <2>8, FreshPlace, FreshPageInv
    <3>2. /\ at'.test = at.test + 1 /\ page'.origin = None /\ ~Done("idp")'
      BY <2>8, DoneFresh, FreshTypes DEF NextTest, LeftTest
    <3>3. /\ External(Ref("sender")) /\ at.test = 1 => Who = "sender"
          /\ (External(Ref("receiver")) /\ scenario.cell.flow # "login"
              /\ at.test = Warm(scenario.cell)) => Who = "receiver"
          /\ Warm(scenario.cell) \in 0..2 /\ at.test \in Nat /\ at.test > 0
      BY SessionsMadeFirst, Here
    <3>4. SessionInv'
      BY <1>9, <2>7, <3>2, <3>3, SessionNext
    <3>5. QED
      BY <2>3, <2>4, <2>5, <3>1, <3>4 DEF IInv
  <2>9. CASE Onward(p, only(UserOf(Who))) /\ UNCHANGED <<baseUrl, loaded>>
    <3>1. /\ at' = [test |-> at.test, op |-> at.op + 1]
          /\ page' = p /\ cookies' = only(UserOf(Who)) /\ at'.test = at.test
          /\ baseUrl' = baseUrl
      BY <2>9 DEF Onward
    <3>2. /\ only(UserOf(Who)) \in [Origins -> Users \cup {None}]
          /\ only(UserOf(Who))[o] = UserOf(Who)
          /\ \A x \in Origins : only(UserOf(Who))[x] \in {None, UserOf(Who)}
      BY <1>4, <2>2, FreshTypes DEF NobodySignedIn
    <3>3. PlaceOK'
      <4>1. p.top \in Origins /\ p.origin \in Origins \cup {None}
        BY <1>4, <1>9 DEF PlaceOK
      <4>2. p = [top |-> p.top, origin |-> p.origin, me |-> p.me]
        BY <1>9
      <4>3. baseUrl' \in Parties /\ loaded' \in [Keys -> 0..MaxAttempts]
        BY <2>9 DEF PlaceOK
      <4>4. QED
        BY <1>9, <2>9, <3>2, <4>1, <4>2, <4>3, OnwardPlace
    <3>4. /\ ~Done("app")' /\ Done("idp")' /\ (Done("base")' <=> Done("base"))
          /\ Who' = Who /\ UserOf(Who)' = UserOf(Who)
      <4>1. ~Done("app")' /\ Done("idp")' /\ (Done("base")' <=> Done("base"))
        BY <1>2, <1>9, <3>1, DoneNext
      <4>2. QED
        BY <1>9, <3>1, <4>1, SameParty DEF UserOf
    <3>5. PageInv'
      BY <3>1, <3>2, <3>4 DEF PageInv
    <3>6. SessionInv'
      <4>1. SUFFICES ASSUME run' = "running", Configured, "product" \notin failed'
                     PROVE  /\ External(Ref("sender")) /\ at'.test > 1 => SessionKept("sender")'
                            /\ (External(Ref("receiver")) /\ scenario.cell.flow # "login"
                                /\ at'.test > Warm(scenario.cell)) => SessionKept("receiver")'
                            /\ ~Done("app")' => page'.origin = None
                            /\ Done("idp")' => cookies'[scenario.idp[Who']] = UserOf(Who')
        BY <1>9, SessionNext
      <4>2. "product" \notin failed
        BY <1>9, <4>1
      <4>3. p.origin = None
        <5>1. SUFFICES ASSUME Cached(key) = {} PROVE FALSE
          BY <1>9
        <5>2. Len(Tests[at.test].ops) # 1
          BY <2>9, Here DEF Onward
        <5>3. SessionKept(Who)
          BY <1>2, <4>1, <4>2, <5>2, SessionsMadeFirst DEF SessionInv, Parties
        <5>4. QED
          BY <1>5, <4>1, <5>1, <5>3 DEF SessionKept
      <4>4. QED
        BY <1>5, <2>7, <3>1, <3>2, <3>4, <4>1, <4>2, <4>3
    <3>7. QED
      BY <2>3, <2>4, <2>5, <3>3, <3>5, <3>6 DEF IInv
  <2>10. QED
    BY <2>1, <2>6, <2>8, <2>9
<1>10. ASSUME NEW s \in Cached(key), UserOf(Who) # None,
              AdvanceOn([page EXCEPT !.me = None], only(s.user)),
              UNCHANGED <<scenario, attempt, failed, sessions, runtime, content, compared>>
       PROVE  IInv'
  <2> DEFINE p == [page EXCEPT !.me = None]
  <2>1. s \in sessions /\ s.key = key /\ s.user = UserOf(Who)
    BY <1>1 DEF Cached, StoreOK
  <2>2. p = [top |-> page.top, origin |-> p.origin, me |-> p.me] /\ p.origin = None
    BY <1>1, <1>3 DEF PlaceOK
  <2>3. AdvanceOn(p, only(UserOf(Who)))
    BY <1>10, <2>1
  <2> HIDE DEF p, key, only
  <2>4. QED
    BY <1>9, <1>10, <2>1, <2>2, <2>3
<1>11. ASSUME UserOf(Who) # None, Cached(key) = {},
              sessions' = sessions \cup {[key |-> key, user |-> UserOf(Who)]},
              AdvanceOn([page EXCEPT !.origin = o, !.me = None], only(UserOf(Who))),
              UNCHANGED <<scenario, attempt, failed, runtime, content, compared>>
       PROVE  IInv'
  <2> DEFINE p == [page EXCEPT !.origin = o, !.me = None]
  <2>1. p = [top |-> page.top, origin |-> p.origin, me |-> p.me] /\ p.origin = o
    <3> HIDE DEF o
    <3>1. page = [top |-> page.top, origin |-> page.origin, me |-> page.me]
      BY <1>1 DEF PlaceOK
    <3>2. p = Visited(page, o, None)
      BY DEF Visited
    <3>3. QED
      BY <3>1, <3>2, VisitedPage
  <2>2. /\ sessions \subseteq sessions'
        /\ \A s \in sessions' \ sessions : s = [key |-> key, user |-> UserOf(Who)]
        /\ {s \in sessions' : s.key = key} # {}
    <3> HIDE DEF key
    <3>1. [key |-> key, user |-> UserOf(Who)] \in sessions'
      BY <1>11
    <3>2. [key |-> key, user |-> UserOf(Who)].key = key
      OBVIOUS
    <3>3. QED
      BY <1>11, <3>1, <3>2
  <2>3. AdvanceOn(p, only(UserOf(Who)))
    BY <1>11
  <2> HIDE DEF p, key, only
  <2>4. QED
    BY <1>9, <1>11, <2>1, <2>2, <2>3
<1>12. QED
  <2>1. \/ UserOf(Who) = None /\ Fail("credentials")
        \/ /\ UserOf(Who) # None
           /\ \E s \in Cached(key) : AdvanceOn([page EXCEPT !.me = None], only(s.user))
           /\ UNCHANGED <<scenario, attempt, failed, sessions, runtime, content, compared>>
        \/ Reload(o)
        \/ /\ UserOf(Who) # None /\ Cached(key) = {}
           /\ sessions' = sessions \cup {[key |-> key, user |-> UserOf(Who)]}
           /\ AdvanceOn([page EXCEPT !.origin = o, !.me = None], only(UserOf(Who)))
           /\ UNCHANGED <<scenario, attempt, failed, runtime, content, compared>>
    BY <1>7 DEF Idp
  <2> HIDE DEF key, only, o
  <2>2. QED
    BY <1>6, <1>8, <1>10, <1>11, <2>1

(* A login page is not a page an adapter takes for its application.        *)
LEMMA GrantedLogin ==
  ASSUME NEW ref, NEW granted \in BOOLEAN,
         ref.platform \in {"nextcloud", "ocmgo", "ocis", "opencloud", "cernbox"},
         PageAfter(ref, granted) \in LoggedInPages(ref)
  PROVE  granted
BY DEF PageAfter, LoggedInPages, nextcloudLoggedIn, ocmgoLoggedIn, ocisLoggedIn,
       opencloudLoggedIn, cernboxLoggedIn

(* A login shows the party's own account: at its provider, or in the form. *)
LEMMA AppInv == IInv /\ App => IInv'
<1> SUFFICES ASSUME IInv, App PROVE IInv'
  OBVIOUS
<1> DEFINE o == baseUrl
<1>1. CoreInv /\ run = "running" /\ Now = "app"
  BY DEF IInv, App, Running
<1> USE DEF CoreInv
<1>2. /\ Who \in Parties
      /\ Who = "receiver" <=> Done("base")
      /\ External(Ref(Who)) => Done("idp")
  BY <1>1, Here, NowInOrder
<1>3. o = Who /\ o \in Origins
  BY <1>1, <1>2 DEF PageInv, Parties, Origins
<1>4. Ref(Who).platform \in {"nextcloud", "ocmgo", "ocis", "opencloud", "cernbox"}
  <2>1. Legal(scenario.cell) /\ (scenario.cell.flow # "login" \/ Who = "sender")
    BY <1>1, SessionsMadeFirst DEF ScenarioOK
  <2>2. Ref(Who) = scenario.cell[Who]
    BY <1>2 DEF Ref, Parties
  <2>3. QED
    BY <1>2, <2>1, <2>2, LegalPlatforms
<1>5. Configured => UserOf(Who) # None
  BY <1>1, <1>2, ConfiguredUsers
<1>6. SignedIn(o) \in {None, UserOf(Who)}
  <2>1. scenario.idp[o] \in Origins
    BY <1>1, <1>2, <1>3 DEF ScenarioOK, Origins
  <2>2. cookies[scenario.idp[o]] \in {None, UserOf(Who)}
    BY <1>1, <2>1 DEF PageInv
  <2>3. QED
    BY <2>2 DEF SignedIn
<1>7. (Configured /\ "product" \notin failed) => SignedIn(o) # None /\ ~CannotVisit(o)
  <2>1. SUFFICES ASSUME Configured, "product" \notin failed
                 PROVE  SignedIn(o) # None /\ ~CannotVisit(o)
    OBVIOUS
  <2>2. /\ ~Done("app") => page.origin = None
        /\ Done("idp") => cookies[scenario.idp[Who]] = UserOf(Who)
    BY <1>1, <2>1 DEF SessionInv
  <2>3. Done("app") => page.origin = Who
    BY <1>1 DEF PageInv
  <2>4. ~CannotVisit(o)
    BY <1>3, <2>2, <2>3 DEF CannotVisit
  <2>5. SignedIn(o) = UserOf(Who)
    BY <1>2, <1>3, <2>2 DEF SignedIn, External
  <2>6. QED
    BY <1>5, <2>1, <2>4, <2>5
<1>8. CASE UserOf(Who) = None /\ Fail("credentials")
  BY <1>1, <1>5, <1>8, FailStep
<1>9. CASE CannotVisit(o) /\ Fail("origin")
  BY <1>1, <1>7, <1>9, FailStep
<1>10. CASE Reload(o)
  BY <1>1, <1>3, <1>10, ReloadStep
<1>11. CASE SignedIn(o) = None /\ Fail("account")
  BY <1>1, <1>7, <1>11, FailStep
<1>12. CASE Fail("product")
  BY <1>1, <1>12, FailStep
(* Logged in: the page shows the account of the party.                     *)
<1>13. ASSUME NEW granted \in BOOLEAN, LoggedIn(granted),
              NEW p, p = Visited(page, o, IF granted THEN AccountShown(o, SignedIn(o)) ELSE None),
              AdvanceOn(p, cookies),
              UNCHANGED <<scenario, attempt, failed, sessions, runtime, content, compared>>
       PROVE  IInv'
  <2> USE <1>1
  <2>1. granted /\ SignedIn(o) = UserOf(Who)
    BY <1>4, <1>6, <1>13, GrantedLogin DEF LoggedIn
  <2>2. AccountShown(o, SignedIn(o)) = Account(Who)
    BY <1>3, <2>1 DEF AccountShown, Account
  <2>3. /\ p.top = page.top /\ p.origin = Who /\ p.me = Account(Who)
        /\ p = [top |-> p.top, origin |-> p.origin, me |-> p.me]
    <3>1. page = [top |-> page.top, origin |-> page.origin, me |-> page.me]
      BY DEF PlaceOK
    <3>2. p = Visited(page, o, Account(Who))
      BY <1>13, <2>1, <2>2
    <3>3. QED
      BY <1>3, <3>1, <3>2, VisitedPage
  <2>4. \/ Onward(p, cookies) /\ UNCHANGED <<baseUrl, loaded>>
        \/ NextTest \/ SpecOver
    BY <1>13, AdvanceOutcome
  <2>5. ScenarioOK' /\ StoreOK' /\ FailsOnlyForTheProducts' /\ RuntimeIsThisAttempts'
    <3>1. ScenarioOK' /\ (Configured' <=> Configured)
      BY <1>13, SameParty
    <3>2. FailsOnlyForTheProducts'
      BY <1>13, <3>1 DEF FailsOnlyForTheProducts
    <3>3. RuntimeIsThisAttempts'
      BY <1>13, <2>4, FreshTypes DEF RuntimeIsThisAttempts, SpecOver, NextTest, LeftTest
    <3>4. StoreOK'
      BY <1>13 DEF StoreOK
    <3>5. QED
      BY <3>1, <3>2, <3>3, <3>4
  <2>6. FileInv' /\ PassedMeansContentCompared'
    BY <1>13, QuietFile, PassedQuiet DEF Saves
  <2>7. CASE NextTest \/ SpecOver
    <3>1. PlaceOK' /\ PageInv' /\ SessionInv'
      BY <1>13, <2>7, FreshPlace, FreshPageInv, QuietSession
    <3>2. QED
      BY <2>5, <2>6, <3>1 DEF IInv
  <2>8. CASE Onward(p, cookies) /\ UNCHANGED <<baseUrl, loaded>>
    <3>1. /\ at' = [test |-> at.test, op |-> at.op + 1] /\ at'.test = at.test
          /\ page' = p /\ cookies' = cookies /\ baseUrl' = baseUrl
      BY <2>8 DEF Onward
    <3>2. /\ Done("app")' /\ (Done("base")' <=> Done("base"))
          /\ Who' = Who /\ Account(Who)' = Account(Who) /\ UserOf(Who)' = UserOf(Who)
      <4>1. Done("app")' /\ (Done("base")' <=> Done("base"))
        BY <1>13, <3>1, DoneNext
      <4>2. QED
        BY <1>13, <3>1, <4>1, SameParty DEF Account, UserOf, Ref
    <3>3. PlaceOK'
      BY <1>3, <1>13, <2>3, <2>8, OnwardPlace DEF PlaceOK
    <3>4. PageInv'
      BY <2>3, <3>1, <3>2 DEF PageInv
    <3>5. SessionInv'
      BY <1>13, <2>8, <3>2, QuietSession
    <3>6. QED
      BY <2>5, <2>6, <3>3, <3>4, <3>5 DEF IInv
  <2>9. QED
    BY <2>4, <2>7, <2>8
<1>14. QED
  <2>1. \/ UserOf(Who) = None /\ Fail("credentials")
        \/ CannotVisit(o) /\ Fail("origin")
        \/ Reload(o)
        \/ SignedIn(o) = None /\ Fail("account")
        \/ Fail("product")
        \/ \E granted \in BOOLEAN :
             /\ LoggedIn(granted)
             /\ AdvanceOn(Visited(page, o, IF granted THEN AccountShown(o, SignedIn(o)) ELSE None),
                          cookies)
             /\ UNCHANGED <<scenario, attempt, failed, sessions, runtime, content, compared>>
    BY DEF App, Visited
  <2> HIDE DEF o
  <2>2. QED
    BY <1>8, <1>9, <1>10, <1>11, <1>12, <1>13, <2>1

(* The configuration points at the receiver from here to the test's end.   *)
LEMMA SetBaseUrlInv == IInv /\ SetBaseUrl => IInv'
<1> SUFFICES ASSUME IInv, SetBaseUrl PROVE IInv'
  OBVIOUS
<1>1. /\ CoreInv /\ run = "running" /\ Now = "base" /\ baseUrl' = "receiver"
      /\ UNCHANGED <<scenario, attempt, run, failed, page, cookies, sessions,
                     runtime, loaded, content, compared>>
  BY DEF IInv, SetBaseUrl, Running
<1> USE <1>1 DEF CoreInv
<1>2. at.op + 1 \in DOMAIN Tests[at.test].ops
  BY NowInOrder
<1>3. Onward(page, cookies) /\ at' = [test |-> at.test, op |-> at.op + 1]
  <2>1. at = [test |-> at.test, op |-> at.op]
    BY DEF PlaceOK
  <2>2. at' = [test |-> at.test, op |-> at.op + 1]
    BY <2>1 DEF SetBaseUrl
  <2>3. QED
    BY <1>2, <2>2 DEF Onward
<1>4. PlaceOK'
  BY <1>3, OnwardPlace DEF PlaceOK, Parties
<1>5. PageInv'
  <2>1. /\ Done("base")' /\ (Done("app")' <=> Done("app")) /\ (Done("idp")' <=> Done("idp"))
    BY <1>3, DoneNext
  <2>2. at'.test = at.test
    BY <1>3
  <2>3. Who' = Who /\ Account(Who)' = Account(Who) /\ UserOf(Who)' = UserOf(Who)
    BY <2>2, SameParty DEF Account, UserOf, Ref
  <2>4. QED
    BY <2>1, <2>3 DEF PageInv
<1>6. FileInv'
  BY <1>3, OnwardFile
<1>7. SessionInv'
  BY <1>3, QuietSession
<1>8. ScenarioOK' /\ (Configured' <=> Configured)
  BY SameParty
<1>9. StoreOK' /\ RuntimeIsThisAttempts' /\ FailsOnlyForTheProducts'
  BY <1>8 DEF StoreOK, RuntimeIsThisAttempts, FailsOnlyForTheProducts
<1>10. PassedMeansContentCompared'
  BY DEF PassedMeansContentCompared
<1>11. QED
  BY <1>4, <1>5, <1>6, <1>7, <1>8, <1>9, <1>10 DEF IInv

(* The first test of a flow that stops begins with an empty file.          *)
LEMMA ClearRuntimeInv == IInv /\ ClearRuntime => IInv'
<1> SUFFICES ASSUME IInv, ClearRuntime PROVE IInv'
  OBVIOUS
<1> DEFINE n == Warm(scenario.cell)
<1> HIDE DEF n
<1>1. /\ CoreInv /\ run = "running" /\ Now = "clear" /\ runtime' = NoFile
      /\ AdvanceOn(page, cookies)
      /\ UNCHANGED <<scenario, attempt, failed, sessions, content, compared>>
  BY DEF IInv, ClearRuntime, Running, Advance
<1> USE <1>1 DEF CoreInv
<1>2. Now \in FileOps /\ Now # "saveInvite"
  BY DEF FileOps
<1>3. scenario.cell.flow \in StoppingFlows
  BY <1>2, NowInOrder
<1>4. /\ n \in 0..2 /\ at.test = n + 1 /\ at.op = 1
      /\ at.op # Len(Tests[at.test].ops)
  <2>1. /\ n \in 0..2 /\ at.test \in 1..(n + 4)
        /\ at.test <= n => Now = "idp"
        /\ at.test = n + 1 => /\ Now = "saveInvite" <=> at.op = Len(Tests[at.test].ops)
                              /\ Now = "clear" <=> at.op = 1
        /\ at.test = n + 2 => Now \in {"load", "accept", "saveContact"}
        /\ at.test = n + 3 => Now \in {"load", "needName", "saveContent", "saveSender"}
        /\ at.test = n + 4 => Now \in {"load", "needName", "needSender", "compare", "prove"}
    BY <1>2, <1>3, NowHandsOver DEF n
  <2>2. QED
    BY <2>1
<1>5. Onward(page, cookies) /\ UNCHANGED <<baseUrl, loaded>>
  BY <1>4, AdvanceOutcome
<1>6. FileInv'
  <2>1. ~Done("saveContent") /\ ~Done("load")
    BY <1>4 DEF Done, Earlier
  <2>2. /\ ~Done("saveContent")' /\ ~Done("load")' /\ at'.test = at.test /\ run' = "running"
    BY <1>5, <2>1, DoneNext DEF Onward
  <2>3. failed = {}
    BY <1>3, FileNow
  <2>4. \A k \in Keys : runtime'[k] \in {0, attempt'}
    BY FreshTypes
  <2>5. QED
    BY <1>4, <2>2, <2>3, <2>4, FileNext DEF n
<1>7. CoreInv'
  BY <1>6, FreshTypes, WorkingStep DEF StoreOK
<1>8. PassedMeansContentCompared'
  BY PassedQuiet
<1>9. QED
  BY <1>7, <1>8 DEF IInv

(* A test finds a file, and finds this attempt's.                          *)
LEMMA ReadRuntimeInv == IInv /\ ReadRuntime => IInv'
<1> SUFFICES ASSUME IInv, ReadRuntime PROVE IInv'
  OBVIOUS
<1> DEFINE n == Warm(scenario.cell)
<1> HIDE DEF n
<1>1. CoreInv /\ run = "running" /\ Now = "load"
  BY DEF IInv, ReadRuntime, Running
<1> USE <1>1 DEF CoreInv
<1>2. Now \in FileOps
  BY DEF FileOps
<1>3. scenario.cell.flow \in StoppingFlows
  BY <1>2, NowInOrder
<1>4. n \in 0..2 /\ at.test \in 1..(n + 4) /\ at.test > n + 1
  <2>1. /\ n \in 0..2 /\ at.test \in 1..(n + 4)
        /\ at.test <= n => Now = "idp"
        /\ at.test = n + 1 => Now \in {"clear", "saveInvite", "capture"}
    BY <1>2, <1>3, NowHandsOver DEF n
  <2>2. QED
    BY <2>1
<1>5. /\ failed = {}
      /\ \A k \in Keys : runtime[k] \in {0, attempt}
      /\ runtime["invite"] = attempt /\ runtime["name"] = attempt
      /\ (/\ at.test > n + 3 \/ Done("saveContent")
          /\ scenario.cell.flow \in ContactFlows /\ GivesContent(Ref("sender"))) =>
           runtime["content"] = attempt
      /\ at.test > n + 3 /\ scenario.cell.flow \notin ContactFlows =>
           runtime["senderId"] = attempt
  BY <1>3, <1>4, FileNow DEF n
<1>6. runtime # NoFile
  <2>1. "invite" \in Keys
    BY DEF Keys
  <2>2. attempt # 0
    BY DEF StoreOK
  <2>3. QED
    BY <1>5, <2>1, <2>2, FreshTypes
<1>7. /\ loaded' = runtime /\ at' = [at EXCEPT !.op = @ + 1]
      /\ UNCHANGED <<scenario, attempt, run, failed, page, cookies, sessions,
                     baseUrl, runtime, content, compared>>
  BY <1>6 DEF ReadRuntime
<1> USE <1>7
<1>8. Onward(page, cookies) /\ at' = [test |-> at.test, op |-> at.op + 1]
  <2>1. at = [test |-> at.test, op |-> at.op]
    BY DEF PlaceOK
  <2>2. at' = [test |-> at.test, op |-> at.op + 1]
    BY <2>1
  <2>3. at.op + 1 \in DOMAIN Tests[at.test].ops
    BY NowInOrder
  <2>4. QED
    BY <2>2, <2>3 DEF Onward
<1>9. PlaceOK'
  BY <1>8, OnwardPlace DEF PlaceOK, StoreOK
<1>10. PageInv'
  BY <1>8, QuietPage
<1>11. SessionInv'
  BY <1>8, QuietSession
<1>12. FileInv'
  <2>1. /\ at'.test = at.test
        /\ Done("saveContent")' <=> Done("saveContent")
    BY <1>8, DoneNext
  <2>2. QED
    BY <1>4, <1>5, <2>1, FileNext DEF n
<1>13. ScenarioOK' /\ (Configured' <=> Configured)
  BY SameParty
<1>14. StoreOK' /\ FailsOnlyForTheProducts' /\ PassedMeansContentCompared'
  BY <1>13 DEF StoreOK, FailsOnlyForTheProducts, PassedMeansContentCompared
<1>15. RuntimeIsThisAttempts'
  BY <1>5 DEF RuntimeIsThisAttempts
<1>16. QED
  BY <1>9, <1>10, <1>11, <1>12, <1>13, <1>14, <1>15 DEF IInv

-----------------------------------------------------------------------------
(* What a test has read is complete: no key it requires is missing.        *)
LEMMA RequireStringInv == IInv /\ RequireString => IInv'
<1> SUFFICES ASSUME IInv, RequireString PROVE IInv'
  OBVIOUS
<1> DEFINE n == Warm(scenario.cell)
<1> HIDE DEF n
<1>1. CoreInv /\ run = "running" /\ Now \in {"needName", "needSender"}
  BY DEF IInv, RequireString
<1> USE <1>1 DEF CoreInv
<1>2. Now \in FileOps /\ Now \in Readers
  BY DEF FileOps, Readers
<1>3. scenario.cell.flow \in StoppingFlows /\ Done("load")
  BY <1>2, NowInOrder
<1>4. attempt # 0
  BY DEF StoreOK
<1>5. loaded["name"] = attempt
  BY <1>3, FileNow
<1>6. Now = "needSender" => loaded["senderId"] = attempt
  <2>1. SUFFICES ASSUME Now = "needSender" PROVE loaded["senderId"] = attempt
    OBVIOUS
  <2>2. /\ n \in 0..2 /\ at.test \in 1..(n + 4)
        /\ at.test <= n => Now = "idp"
        /\ at.test = n + 1 => Now \in {"clear", "saveInvite", "capture"}
        /\ at.test = n + 2 => Now \in {"load", "accept", "saveContact"}
        /\ at.test = n + 3 => Now \in {"load", "needName", "saveContent", "saveSender"}
        /\ at.test = n + 4 /\ scenario.cell.flow \in ContactFlows =>
             Now \in {"load", "needName", "compare"}
    BY <1>2, <1>3, NowHandsOver DEF n
  <2>3. at.test > n + 3 /\ scenario.cell.flow \notin ContactFlows
    BY <2>1, <2>2
  <2>4. QED
    BY <1>3, <2>3, FileNow DEF n
<1>7. loaded[Required] # 0
  BY <1>4, <1>5, <1>6 DEF Required
<1>8. /\ AdvanceOn(page, cookies)
      /\ UNCHANGED <<scenario, attempt, failed, sessions, runtime, content, compared>>
  BY <1>7 DEF RequireString, Advance
<1>9. QED
  BY <1>8, QuietStep DEF Saves, StoreOK

(* Only a party without an account has no address.                         *)
LEMMA ResolveRecipientInv == IInv /\ ResolveRecipient => IInv'
<1> SUFFICES ASSUME IInv, ResolveRecipient PROVE IInv'
  OBVIOUS
<1>1. CoreInv /\ run = "running" /\ Now = "recipient"
  BY DEF IInv, ResolveRecipient, Running
<1>2. CASE (\E who \in Parties : UserOf(who) = None) /\ Fail("credentials")
  <2>1. ~Configured
    BY <1>2 DEF Configured
  <2>2. QED
    BY <1>1, <1>2, <2>1, FailStep
<1>3. CASE /\ AdvanceOn(page, cookies)
           /\ UNCHANGED <<scenario, attempt, failed, sessions, runtime, content, compared>>
  BY <1>1, <1>3, QuietStep DEF Saves, StoreOK, CoreInv
<1>4. QED
  BY <1>2, <1>3 DEF ResolveRecipient, Advance

(* An adapter's step is allowed where it is, and has the invite it needs.  *)
LEMMA ActInv == IInv /\ Act => IInv'
<1> SUFFICES ASSUME IInv, Act PROVE IInv'
  OBVIOUS
<1> DEFINE n == Warm(scenario.cell)
<1> HIDE DEF n
<1>1. CoreInv /\ run = "running" /\ Now \in AppOps \ {"compare", "compareKept"}
  BY DEF IInv, Act
<1> USE <1>1 DEF CoreInv
<1>2. Now = "accept" => loaded["invite"] # 0
  <2>1. SUFFICES ASSUME Now = "accept" PROVE loaded["invite"] # 0
    OBVIOUS
  <2>2. Now \in FileOps /\ Now \in Readers
    BY <2>1 DEF FileOps, Readers
  <2>3. scenario.cell.flow \in StoppingFlows /\ Done("load")
    BY <2>2, NowInOrder
  <2>4. loaded["invite"] = attempt /\ attempt # 0
    BY <2>3, FileNow DEF StoreOK
  <2>5. QED
    BY <2>4
<1>3. Now \in {"capture", "prove"} => CrossOriginAllowed(scenario.cell.flow)
  <2>1. SUFFICES ASSUME Now \in {"capture", "prove"}
                 PROVE  CrossOriginAllowed(scenario.cell.flow)
    OBVIOUS
  <2>2. Now \in FileOps
    BY <2>1 DEF FileOps
  <2>3. scenario.cell.flow \in StoppingFlows
    BY <2>2, NowInOrder
  <2>4. /\ n \in 0..2 /\ at.test \in 1..(n + 4)
        /\ at.test <= n => Now = "idp"
        /\ at.test = n + 1 /\ Now = "capture" => scenario.cell.flow = "contact-wayf"
        /\ at.test = n + 1 => Now # "prove"
        /\ at.test = n + 2 => Now \in {"load", "accept", "saveContact"}
        /\ at.test = n + 3 => Now \in {"load", "needName", "saveContent", "saveSender"}
        /\ at.test = n + 4 /\ scenario.cell.flow \in ContactFlows =>
             Now \in {"load", "needName", "compare"}
    BY <2>2, <2>3, NowHandsOver DEF n
  <2>5. scenario.cell.flow = "contact-wayf" \/ scenario.cell.flow \notin ContactFlows
    BY <2>1, <2>4
  <2>6. QED
    BY <2>3, <2>5 DEF CrossOriginAllowed, StoppingFlows
<1>4. /\ AdvanceOn(page, cookies)
      /\ UNCHANGED <<scenario, attempt, failed, sessions, runtime, content, compared>>
  BY <1>2, <1>3 DEF Act, Advance
<1>5. Now \notin Saves \cup {"base", "app", "idp", "clear", "load", "compare"}
  BY DEF AppOps, Saves
<1>6. QED
  BY <1>4, <1>5, QuietStep DEF StoreOK

(* The variable of the spec may change, the file does not.                 *)
LEMMA KeepContentInv == IInv /\ KeepContent => IInv'
<1> SUFFICES ASSUME IInv, KeepContent PROVE IInv'
  OBVIOUS
<1>1. /\ CoreInv /\ run = "running" /\ Now = "keepContent"
      /\ content' = IF GivesContent(Ref("sender")) THEN attempt ELSE 0
      /\ AdvanceOn(page, cookies)
      /\ UNCHANGED <<scenario, attempt, failed, sessions, runtime, compared>>
  BY DEF IInv, KeepContent, Running, Advance
<1>2. content' \in 0..MaxAttempts /\ compared' \subseteq 1..MaxAttempts
  BY <1>1, ScenarioAssumption DEF CoreInv, StoreOK
<1>3. QED
  BY <1>1, <1>2, QuietStep DEF Saves

(* The last test of a contact flow compares what this attempt saved.       *)
LEMMA CompareInv == IInv /\ Compare => IInv'
<1> SUFFICES ASSUME IInv, Compare PROVE IInv'
  OBVIOUS
<1> DEFINE n == Warm(scenario.cell)
<1> HIDE DEF n
<1>1. /\ CoreInv /\ run = "running" /\ Now \in {"compare", "compareKept"}
      /\ compared' = IF ChecksContent(Ref("receiver")) /\ Handed # 0
                     THEN compared \cup {Handed} ELSE compared
      /\ AdvanceOn(page, cookies)
      /\ UNCHANGED <<scenario, attempt, failed, sessions, runtime, content>>
  BY DEF IInv, Compare, Advance
<1> USE <1>1 DEF CoreInv
<1>2. content' \in 0..MaxAttempts /\ compared' \subseteq 1..MaxAttempts
  <2>1. Handed \in 0..MaxAttempts
    BY DEF Handed, PlaceOK, StoreOK, Keys
  <2>2. MaxAttempts \in Nat
    BY ScenarioAssumption
  <2>3. QED
    BY <2>1, <2>2 DEF StoreOK
<1>3. CASE Now = "compareKept"
  BY <1>2, <1>3, QuietStep DEF Saves
<1>4. CASE Now = "compare"
  <2>1. Now \in FileOps /\ Now \in Readers
    BY <1>4 DEF FileOps, Readers
  <2>2. scenario.cell.flow \in StoppingFlows /\ Done("load")
    BY <2>1, NowInOrder
  <2>3. CoreInv'
    <3>1. FileInv'
      BY <1>4, QuietFile DEF Saves
    <3>2. QED
      BY <1>2, <1>4, <3>1, WorkingStep DEF StoreOK
  <2>4. /\ n \in 0..2 /\ at.test \in 1..(n + 4) /\ Len(Tests) = n + 4
    BY <2>2, NowHandsOver DEF n
  <2>5. ASSUME at.test = Len(Tests), scenario.cell.flow \in ContactFlows,
               GivesContent(Ref("sender")), ChecksContent(Ref("receiver"))
        PROVE  attempt \in compared'
    <3>1. at.test > n + 3
      BY <2>4, <2>5
    <3>2. loaded["content"] = attempt
      BY <2>2, <2>5, <3>1, FileNow DEF n
    <3>3. Handed = attempt /\ attempt # 0
      BY <1>4, <3>2 DEF Handed, StoreOK
    <3>4. QED
      BY <2>5, <3>3
  <2>6. \/ Onward(page, cookies) \/ NextTest
        \/ SpecOver /\ at.test = Len(Tests)
    BY AdvanceOutcome
  <2>7. /\ Ref("sender")' = Ref("sender") /\ Ref("receiver")' = Ref("receiver")
    BY SameParty
  <2>8. PassedMeansContentCompared'
    BY <2>5, <2>6, <2>7 DEF PassedMeansContentCompared, Onward, NextTest
  <2>9. QED
    BY <2>3, <2>8 DEF IInv
<1>5. QED
  BY <1>3, <1>4

(* Each of the four saves leaves a file the tests after it can use.        *)
LEMMA WriteRuntimeInv == IInv /\ WriteRuntime => IInv'
<1> SUFFICES ASSUME IInv, WriteRuntime PROVE IInv'
  OBVIOUS
<1> DEFINE n == Warm(scenario.cell)
<1> HIDE DEF n
<1>1. /\ CoreInv /\ run = "running" /\ Now \in Saves /\ runtime' = Written
      /\ AdvanceOn(page, cookies)
      /\ UNCHANGED <<scenario, attempt, failed, sessions, content, compared>>
  BY DEF IInv, WriteRuntime, Saves, Advance
<1> USE <1>1 DEF CoreInv
<1>2. Now \in FileOps
  BY DEF FileOps
<1>3. scenario.cell.flow \in StoppingFlows
  BY <1>2, NowInOrder
<1>4. /\ n \in 0..2 /\ at.test \in 1..(n + 4) /\ Len(Tests) = n + 4
      /\ Now = "saveInvite" => at.test = n + 1 /\ at.op = Len(Tests[at.test].ops)
      /\ Now = "saveContact" => at.test = n + 2 /\ at.op = Len(Tests[at.test].ops)
      /\ Now = "saveContent" => /\ at.test = n + 3 /\ scenario.cell.flow \in ContactFlows
                                /\ at.op # Len(Tests[at.test].ops)
      /\ Now = "saveSender" => /\ at.test = n + 3 /\ scenario.cell.flow \notin ContactFlows
                               /\ at.op = Len(Tests[at.test].ops)
  <2>1. /\ n \in 0..2 /\ at.test \in 1..(n + 4) /\ Len(Tests) = n + 4
        /\ at.test <= n => Now = "idp"
        /\ at.test = n + 1 => /\ Now \in {"clear", "saveInvite", "capture"}
                              /\ Now = "saveInvite" <=> at.op = Len(Tests[at.test].ops)
        /\ at.test = n + 2 => /\ Now \in {"load", "accept", "saveContact"}
                              /\ Now = "saveContact" <=> at.op = Len(Tests[at.test].ops)
        /\ (at.test = n + 3 /\ scenario.cell.flow \in ContactFlows) =>
             /\ Now \in {"load", "needName", "saveContent"}
             /\ at.op = Len(Tests[at.test].ops) => Now = "send"
        /\ (at.test = n + 3 /\ scenario.cell.flow \notin ContactFlows) =>
             /\ Now \in {"load", "needName", "saveSender"}
             /\ Now = "saveSender" <=> at.op = Len(Tests[at.test].ops)
        /\ at.test = n + 4 => Now \in {"load", "needName", "needSender", "compare", "prove"}
    BY <1>2, <1>3, NowHandsOver DEF n
  <2>2. \/ at.test <= n \/ at.test = n + 1 \/ at.test = n + 2
        \/ at.test = n + 3 \/ at.test = n + 4
    BY <2>1
  <2>3. Now \notin {"idp", "load", "needName", "needSender", "compare", "prove"}
    BY DEF Saves
  <2>4. QED
    BY <2>1, <2>2, <2>3
<1>5. Now # "saveInvite" => /\ Done("load")
                            /\ loaded["invite"] = attempt /\ loaded["name"] = attempt
  <2>1. Now # "saveInvite" => Now \in Readers
    BY DEF Saves, Readers
  <2>2. Now # "saveInvite" => Done("load")
    BY <2>1, NowInOrder
  <2>3. QED
    BY <1>3, <2>2, FileNow
<1>6. /\ runtime' \in [Keys -> 0..MaxAttempts]
      /\ \A k \in Keys : runtime'[k] \in {0, attempt}
      /\ runtime'["invite"] = attempt /\ runtime'["name"] = attempt
      /\ Now = "saveContent" /\ GivesContent(Ref("sender")) => runtime'["content"] = attempt
      /\ Now = "saveSender" => runtime'["senderId"] = attempt
  <2>1. /\ attempt \in 0..MaxAttempts
        /\ loaded \in [Keys -> 0..MaxAttempts] /\ runtime \in [Keys -> 0..MaxAttempts]
        /\ \A k \in Keys : loaded[k] \in {0, attempt}
        /\ "invite" \in Keys /\ "name" \in Keys /\ "contact" \in Keys
        /\ "content" \in Keys /\ "senderId" \in Keys
    BY ScenarioAssumption DEF PlaceOK, StoreOK, RuntimeIsThisAttempts, Keys
  <2>2. CASE Now = "saveInvite"
    <3>1. runtime' = [NoFile EXCEPT !["invite"] = attempt, !["name"] = attempt]
      BY <2>2 DEF Written
    <3>2. QED
      BY <2>1, <2>2, <3>1, FreshTypes
  <2>3. CASE Now = "saveContact"
    <3>1. runtime' = [loaded EXCEPT !["contact"] = attempt]
      BY <2>3 DEF Written
    <3>2. QED
      BY <1>5, <2>1, <2>3, <3>1
  <2>4. CASE Now = "saveContent" /\ GivesContent(Ref("sender"))
    <3>1. runtime' = [loaded EXCEPT !["content"] = attempt]
      BY <2>4 DEF Written
    <3>2. QED
      BY <1>5, <2>1, <2>4, <3>1
  <2>5. CASE Now = "saveContent" /\ ~GivesContent(Ref("sender"))
    <3>1. runtime' = runtime
      BY <2>5 DEF Written
    <3>2. /\ \A k \in Keys : runtime[k] \in {0, attempt}
          /\ runtime["invite"] = attempt /\ runtime["name"] = attempt
      BY <1>3, <1>4, <2>5, FileNow DEF n
    <3>3. QED
      BY <2>1, <2>5, <3>1, <3>2
  <2>6. CASE Now = "saveSender"
    <3>1. runtime' = [loaded EXCEPT !["senderId"] = attempt]
      BY <2>6 DEF Written
    <3>2. QED
      BY <1>5, <2>1, <2>6, <3>1
  <2>7. QED
    BY <2>2, <2>3, <2>4, <2>5, <2>6 DEF Saves
<1>7. FileInv'
  <2>1. failed' = {}
    BY <1>3, FileNow
  <2>2. \/ Onward(page, cookies) /\ UNCHANGED <<baseUrl, loaded>>
        \/ at.op = Len(Tests[at.test].ops) /\ NextTest
        \/ SpecOver
    BY AdvanceOutcome
  <2>3. CASE Onward(page, cookies) /\ UNCHANGED <<baseUrl, loaded>>
    <3>1. at.op # Len(Tests[at.test].ops)
      BY <2>3, Here DEF Onward
    <3>2. Now = "saveContent"
      BY <1>4, <3>1 DEF Saves
    <3>3. at'.test = at.test /\ run' = "running" /\ (Done("load")' <=> Done("load"))
      BY <2>3, <3>2, DoneNext DEF Onward
    <3>4. at'.test = n + 3
      BY <1>4, <3>2, <3>3
    <3>5. QED
      BY <1>4, <1>5, <1>6, <2>1, <2>3, <3>2, <3>3, <3>4, FileNext DEF n
  <2>4. CASE at.op = Len(Tests[at.test].ops) /\ NextTest
    <3>1. /\ at'.test = at.test + 1 /\ run' = "running"
          /\ ~Done("saveContent")' /\ ~Done("load")'
      BY <2>4, DoneFresh DEF NextTest
    <3>2. Now # "saveContent"
      BY <1>4, <2>4
    <3>3. at'.test > n + 3 => Now = "saveSender"
      BY <1>4, <3>1, <3>2 DEF Saves
    <3>4. QED
      BY <1>4, <1>6, <2>1, <3>1, <3>3, FileNext DEF n
  <2>5. CASE SpecOver
    BY <2>5, NoFileInv DEF SpecOver
  <2>6. QED
    BY <2>2, <2>3, <2>4, <2>5
<1>8. CoreInv'
  BY <1>6, <1>7, WorkingStep DEF Saves, StoreOK
<1>9. PassedMeansContentCompared'
  BY PassedQuiet DEF Saves
<1>10. QED
  BY <1>8, <1>9 DEF IInv

-----------------------------------------------------------------------------
(* A product may fail at any step.                                         *)
LEMMA ProductFailsInv == IInv /\ ProductFails => IInv'
BY FailStep DEF IInv, ProductFails

(* A killed run leaves what it has written.                                *)
LEMMA KillInv == IInv /\ Kill => IInv'
<1> SUFFICES ASSUME IInv, Kill PROVE IInv'
  OBVIOUS
<1>1. /\ CoreInv /\ run' = "killed"
      /\ UNCHANGED <<scenario, attempt, at, failed, page, cookies, sessions,
                     baseUrl, runtime, loaded, content, compared>>
  BY DEF IInv, Kill
<1> USE <1>1 DEF CoreInv
<1>2. ScenarioOK' /\ (Configured' <=> Configured) /\ Tests' = Tests
  BY SameParty
<1>3. PlaceOK' /\ StoreOK'
  BY <1>2 DEF PlaceOK, StoreOK
<1>4. PageInv' /\ FileInv' /\ SessionInv' /\ PassedMeansContentCompared'
  BY DEF PageInv, FileInv, SessionInv, PassedMeansContentCompared
<1>5. RuntimeIsThisAttempts' /\ FailsOnlyForTheProducts'
  BY <1>2 DEF RuntimeIsThisAttempts, FailsOnlyForTheProducts
<1>6. QED
  BY <1>2, <1>3, <1>4, <1>5 DEF IInv

(* Where a flow begins, and whose sessions its first tests make.           *)
LEMMA FirstTests ==
  ASSUME ScenarioOK
  PROVE  /\ 1 \in DOMAIN Tests /\ 1 \in DOMAIN Tests[1].ops
         /\ Warm(scenario.cell) \in 0..2
         /\ (External(Ref("receiver")) /\ scenario.cell.flow # "login") =>
              Warm(scenario.cell) > 0
<1> DEFINE c == scenario.cell
<1>1. Legal(c) /\ Ref("receiver") = c.receiver /\ c["receiver"] = c.receiver
  BY DEF ScenarioOK, Ref
<1>2. 1 \in DOMAIN Tests /\ 1 \in DOMAIN Tests[1].ops
  BY <1>1, EveryTestInOrder DEF Tests, InOrder
<1>3. CASE c.flow \in StoppingFlows
  <2>1. Handover(c)
    BY <1>1, <1>3, StoppingHandsOver
  <2>2. QED
    BY <1>1, <1>2, <2>1 DEF Handover
<1>4. CASE c.flow \in {"login", "share-with"}
  <2>1. Warm(c) = 0
    BY <1>4 DEF Warm
  <2>2. c.flow # "login" => ~External(c.receiver)
    BY <1>1, <1>4, LegalPlatforms DEF Parties, External
  <2>3. QED
    BY <1>1, <1>2, <2>1, <2>2
<1>5. QED
  BY <1>1, <1>3, <1>4 DEF Legal

(* A later attempt may find an old file and old sessions.                  *)
LEMMA AgainInv == IInv /\ Again => IInv'
<1> SUFFICES ASSUME IInv, Again PROVE IInv'
  OBVIOUS
<1>1. /\ CoreInv /\ attempt < MaxAttempts /\ attempt' = attempt + 1
      /\ run' = "running" /\ at' = [test |-> 1, op |-> 1]
      /\ failed' = {} /\ page' = FreshPage("sender") /\ cookies' = NobodySignedIn
      /\ sessions' \subseteq sessions
      /\ baseUrl' = "sender" /\ loaded' = NoFile /\ content' = 0 /\ compared' = {}
      /\ UNCHANGED <<scenario, runtime>>
  BY DEF IInv, Again
<1> USE <1>1 DEF CoreInv
<1>2. ScenarioOK' /\ Tests' = Tests /\ Ref("receiver")' = Ref("receiver")
  BY SameParty
<1>3. \A op : ~Done(op)'
  BY DoneFresh
<1>4. PlaceOK'
  <2>1. /\ at' = [test |-> at'.test, op |-> at'.op]
        /\ at'.test \in DOMAIN Tests /\ at'.op \in DOMAIN Tests[at'.test].ops
    BY FirstTests
  <2>2. /\ page' = [top |-> page'.top, origin |-> page'.origin, me |-> page'.me]
        /\ page'.top \in Origins /\ page'.origin \in Origins \cup {None}
    BY FreshTypes DEF Origins, Parties
  <2>3. QED
    BY <1>2, <2>1, <2>2, FreshTypes DEF PlaceOK, Parties
<1>5. StoreOK'
  BY ScenarioAssumption DEF StoreOK
<1>6. PageInv'
  BY <1>3, FreshTypes DEF PageInv
<1>7. FileInv'
  <2>1. at'.test = 1 /\ Warm(scenario.cell) \in 0..2
    BY FirstTests
  <2>2. QED
    BY <1>3, <2>1, FileNext
<1>8. SessionInv'
  <2>1. /\ at'.test = 1 /\ Warm(scenario.cell) \in 0..2
        /\ (External(Ref("receiver")) /\ scenario.cell.flow # "login") =>
             Warm(scenario.cell) > 0
    BY FirstTests
  <2>2. page'.origin = None
    BY FreshTypes
  <2>3. /\ ~(at'.test > 1)
        /\ ~(External(Ref("receiver")) /\ scenario.cell.flow # "login"
             /\ at'.test > Warm(scenario.cell))
    BY <2>1
  <2>4. QED
    BY <1>3, <2>2, <2>3, SessionNext
<1>9. RuntimeIsThisAttempts' /\ FailsOnlyForTheProducts' /\ PassedMeansContentCompared'
  BY FreshTypes DEF RuntimeIsThisAttempts, FailsOnlyForTheProducts,
     PassedMeansContentCompared
<1>10. QED
  BY <1>2, <1>4, <1>5, <1>6, <1>7, <1>8, <1>9 DEF IInv

-----------------------------------------------------------------------------
(* The first attempt starts with neither.                                  *)
LEMMA InitIInv == Init => IInv
<1> SUFFICES ASSUME Init PROVE IInv
  OBVIOUS
<1>1. /\ attempt = 1 /\ run = "running" /\ at = [test |-> 1, op |-> 1]
      /\ failed = {} /\ page = FreshPage("sender")
      /\ cookies = NobodySignedIn /\ sessions = {} /\ baseUrl = "sender"
      /\ runtime = NoFile /\ loaded = NoFile /\ content = 0 /\ compared = {}
  BY DEF Init
<1>2. ScenarioOK
  <2>1. PICK c \in Cells, user \in [Parties -> Users \cup {None}],
             exposed \in [Parties -> Idps \cup {None}], second \in Idps :
          /\ scenario = [cell |-> c, user |-> user, exposed |-> exposed,
                         idp |-> [sender |-> "idp1", receiver |-> second]]
          /\ \A who \in Parties :
               (c.flow # "login" \/ who = "sender") => Supports(c.flow, who, c[who])
    BY DEF Init
  <2>2. c.flow \in StoppingFlows \cup {"login", "share-with"}
    BY <2>1, ScenarioAssumption
  <2>3. Legal(c)
    BY <2>1, <2>2 DEF Legal
  <2>4. [sender |-> "idp1", receiver |-> second] \in [Parties -> Idps]
    BY DEF Parties, Idps
  <2>5. QED
    BY <2>1, <2>3, <2>4 DEF ScenarioOK
<1> USE <1>1
<1>3. \A op : ~Done(op)
  BY DEF Done, Earlier
<1>4. PlaceOK
  <2>1. /\ at = [test |-> at.test, op |-> at.op]
        /\ at.test \in DOMAIN Tests /\ at.op \in DOMAIN Tests[at.test].ops
    BY <1>2, FirstTests
  <2>2. /\ page = [top |-> page.top, origin |-> page.origin, me |-> page.me]
        /\ page.top \in Origins /\ page.origin \in Origins \cup {None}
    BY FreshTypes DEF Origins, Parties
  <2>3. QED
    BY <2>1, <2>2, FreshTypes DEF PlaceOK, Parties
<1>5. StoreOK
  BY ScenarioAssumption, FreshTypes DEF StoreOK
<1>6. PageInv
  BY <1>3, FreshTypes DEF PageInv
<1>7. FileInv
  BY <1>2, <1>3, FirstTests DEF FileInv
<1>8. SessionInv
  <2>1. page.origin = None
    BY FreshTypes
  <2>2. QED
    BY <1>2, <1>3, <2>1, FirstTests DEF SessionInv
<1>9. RuntimeIsThisAttempts /\ FailsOnlyForTheProducts /\ PassedMeansContentCompared
  BY FreshTypes DEF RuntimeIsThisAttempts, FailsOnlyForTheProducts,
     PassedMeansContentCompared
<1>10. QED
  BY <1>2, <1>4, <1>5, <1>6, <1>7, <1>8, <1>9 DEF IInv, CoreInv

(* Every action keeps the invariant.                                       *)
LEMMA NextIInv == IInv /\ [Next]_vars => IInv'
<1> SUFFICES ASSUME IInv, [Next]_vars PROVE IInv'
  OBVIOUS
<1>1. CASE UNCHANGED vars
  <2>1. UNCHANGED <<scenario, attempt, run, at, failed, page, cookies, sessions,
                    baseUrl, runtime, loaded, content, compared>>
    BY <1>1 DEF vars
  <2>2. QED
    BY <2>1 DEF IInv, CoreInv, ScenarioOK, PlaceOK, StoreOK, PageInv, FileInv, SessionInv,
       SessionKept, Cached, Configured, UserOf, Account, Ref, Done, Who, Tests,
       RuntimeIsThisAttempts, FailsOnlyForTheProducts, PassedMeansContentCompared
<1>2. CASE Next
  BY <1>2, IdpInv, AppInv, SetBaseUrlInv, ClearRuntimeInv, ReadRuntimeInv,
     RequireStringInv, ResolveRecipientInv, WriteRuntimeInv, ActInv, KeepContentInv,
     CompareInv, ProductFailsInv, KillInv, AgainInv DEF Next
<1>3. QED
  BY <1>1, <1>2

(* What the invariant promises: an adapter works only once it is logged in *)
(* as the party of its test, and a key of the file is this attempt's.      *)
LEMMA IInvImplies ==
  ASSUME IInv
  PROVE  /\ TypeOK /\ ActsAsTheIntendedUser /\ RuntimeIsThisAttempts
         /\ FailsOnlyForTheProducts /\ PassedMeansContentCompared
<1>1. TypeOK
  BY DEF IInv, CoreInv, ScenarioOK, PlaceOK, StoreOK, TypeOK
<1>2. ActsAsTheIntendedUser
  <2>1. (run = "running" /\ Now \in AppOps) => Done("app")
    BY NowInOrder DEF IInv, CoreInv
  <2>2. QED
    BY <2>1 DEF ActsAsTheIntendedUser, IInv, CoreInv, PageInv
<1>3. QED
  BY <1>1, <1>2 DEF IInv, CoreInv

(* The invariant holds in every reachable state, for all cells, users and  *)
(* numbers of attempts.                                                    *)
THEOREM Invariance == Spec => []IInv
<1>1. Init => IInv
  BY InitIInv
<1>2. IInv /\ [Next]_vars => IInv'
  BY NextIInv
<1>3. QED
  BY <1>1, <1>2, PTL DEF Spec

(* Every reachable state is well typed; a running flow is at a step of a   *)
(* test.                                                                   *)
THEOREM TypeCorrect == Spec => []TypeOK
<1>1. IInv => TypeOK
  BY IInvImplies
<1>2. QED
  BY <1>1, Invariance, PTL

(* Whatever the cached sessions and whatever failed before, what an        *)
(* adapter does in the flow's tests it does as its party's account on that *)
(* party's application: isolation, reloads and the base URL reset in       *)
(* afterEach let no other party through.                                   *)
THEOREM EveryStepAsTheIntendedUser == Spec => []ActsAsTheIntendedUser
<1>1. IInv => ActsAsTheIntendedUser
  BY IInvImplies
<1>2. QED
  BY <1>1, Invariance, PTL

(* A test never takes from the runtime file what an earlier run of the     *)
(* spec left in it: the first test clears the file, and a flow that stops  *)
(* does not come to a read without it.                                     *)
THEOREM NothingFromAnEarlierAttempt == Spec => []RuntimeIsThisAttempts
<1>1. IInv => RuntimeIsThisAttempts
  BY IInvImplies
<1>2. QED
  BY <1>1, Invariance, PTL

(* With users and providers configured, no flow fails for a missing        *)
(* account, an unreachable origin or a missing key unless a product failed *)
(* first.                                                                  *)
THEOREM NoFlowTrapsItself == Spec => []FailsOnlyForTheProducts
<1>1. IInv => FailsOnlyForTheProducts
  BY IInvImplies
<1>2. QED
  BY <1>1, Invariance, PTL

(* A contact flow that ended without a failure has compared this attempt's *)
(* content, wherever both adapters can, reloads and kills notwithstanding. *)
THEOREM PassedFlowsCompared == Spec => []PassedMeansContentCompared
<1>1. IInv => PassedMeansContentCompared
  BY IInvImplies
<1>2. QED
  BY <1>1, Invariance, PTL

-----------------------------------------------------------------------------
(* Why share-with compares nothing: the content is in a variable of the    *)
(* spec, and the receiver's test cannot begin without a reload.            *)
KeptAtTheSender == content # 0 => page.top = "sender"

(* The invariant: a test that has been somewhere is where the runner is,   *)
(* and what share-with has captured lives on the sender's origin.          *)
ShareInv ==
  /\ page.origin # None => page.top = page.origin
  /\ scenario.cell.flow = "share-with" => compared = {} /\ KeptAtTheSender

(* The two tests of share-with: the sender's keeps the content after its   *)
(* login, the receiver's compares.                                         *)
LEMMA ShareWithOps ==
  ASSUME NEW c, NEW test \in {ShareWithTests(c)[1], ShareWithTests(c)[2]},
         NEW i \in DOMAIN test.ops
  PROVE  /\ test.ops[i] = "keepContent" => test.who = "sender" /\ Earlier(test.ops, i, "app")
         /\ test.ops[i] = "compareKept" => test.who = "receiver"
<1>1. CASE test = ShareWithTests(c)[1]
  <2> DEFINE P == <<"recipient">>
             R == <<"prepare", "keepContent", "send">>
             ops == P \o Login(c.sender) \o R
             q == Len(P) + Len(Login(c.sender))
  <2>1. test.ops = ops /\ test.who = "sender"
    BY <1>1 DEF ShareWithTests, Test
  <2>2. P \in Seq(PreOps) /\ R \in Seq(PostOps)
    BY DEF PreOps, PostOps, AppOps, Saves
  <2>3. /\ Len(P) = 1 /\ Len(R) = 3 /\ P[1] = "recipient"
        /\ R[1] = "prepare" /\ R[2] = "keepContent" /\ R[3] = "send"
    OBVIOUS
  <2> HIDE DEF P, R
  <2>4. Within(ops, P, q, R, External(c.sender))
    BY <2>2, LoginWithin
  <2> HIDE DEF ops, q
  <2>5. /\ q \in 2..3 /\ DOMAIN ops = 1..(q + 3)
        /\ \A j \in 1..q : ops[j] \in {"recipient", "idp", "app"}
        /\ ops[q] = "app"
        /\ \A k \in 1..3 : ops[q + k] = R[k]
    BY <2>3, <2>4 DEF Within
  <2>6. CASE i <= q
    BY <2>1, <2>5, <2>6
  <2>7. CASE i > q
    <3>1. Earlier(ops, i, "app")
      BY <2>1, <2>5, <2>7 DEF Earlier
    <3>2. PICK k \in 1..3 : i = q + k
      BY <2>1, <2>5, <2>7
    <3>3. ops[i] # "compareKept"
      BY <2>3, <2>5, <3>2
    <3>4. QED
      BY <2>1, <3>1, <3>3
  <2>8. QED
    BY <2>1, <2>5, <2>6, <2>7
<1>2. CASE test = ShareWithTests(c)[2]
  <2> DEFINE P == <<"base">>
             R == <<"receive", "compareKept">>
             ops == P \o Login(c.receiver) \o R
             q == Len(P) + Len(Login(c.receiver))
  <2>1. test.ops = ops /\ test.who = "receiver"
    BY <1>2 DEF ShareWithTests, Test
  <2>2. P \in Seq(PreOps) /\ R \in Seq(PostOps)
    BY DEF PreOps, PostOps, AppOps, Saves
  <2>3. /\ Len(P) = 1 /\ Len(R) = 2 /\ P[1] = "base"
        /\ R[1] = "receive" /\ R[2] = "compareKept"
    OBVIOUS
  <2> HIDE DEF P, R
  <2>4. Within(ops, P, q, R, External(c.receiver))
    BY <2>2, LoginWithin
  <2> HIDE DEF ops, q
  <2>5. /\ q \in 2..3 /\ DOMAIN ops = 1..(q + 2)
        /\ \A j \in 1..q : ops[j] \in {"base", "idp", "app"}
        /\ \A k \in 1..2 : ops[q + k] = R[k]
    BY <2>3, <2>4 DEF Within
  <2>6. CASE i <= q
    BY <2>1, <2>5, <2>6
  <2>7. CASE i > q
    <3>1. PICK k \in 1..2 : i = q + k
      BY <2>1, <2>5, <2>7
    <3>2. ops[i] # "keepContent"
      BY <2>3, <2>5, <3>1
    <3>3. QED
      BY <2>1, <3>2
  <2>8. QED
    BY <2>1, <2>5, <2>6, <2>7
<1>3. QED
  BY <1>1, <1>2

(* So in share-with the content is kept on the sender's application and    *)
(* compared on the receiver's.                                             *)
LEMMA ShareWithNow ==
  ASSUME CoreInv, run = "running", scenario.cell.flow = "share-with"
  PROVE  /\ Now = "keepContent" => page.origin = "sender"
         /\ Now = "compareKept" => page.origin = "receiver"
         /\ Now # "compare"
<1> USE DEF CoreInv
<1>1. Tests = ShareWithTests(scenario.cell)
  BY DEF Tests, TestsOf
<1>2. Tests[at.test] \in {Tests[1], Tests[2]} /\ at.op \in DOMAIN Tests[at.test].ops
  <2>1. Len(Tests) = 2
    BY <1>1 DEF ShareWithTests
  <2>2. at.test \in 1..Len(Tests) /\ at.op \in DOMAIN Tests[at.test].ops
    BY Here
  <2>3. QED
    BY <2>1, <2>2
<1>3. /\ Now = "keepContent" => Who = "sender" /\ Done("app")
      /\ Now = "compareKept" => Who = "receiver"
  BY <1>1, <1>2, ShareWithOps DEF Now, Who, Done
<1>4. Now = "compareKept" => Done("app")
  BY NowInOrder DEF AppOps
<1>5. Now # "compare"
  BY NowInOrder DEF StoppingFlows, ContactFlows, FileOps
<1>6. QED
  BY <1>3, <1>4, <1>5 DEF PageInv

(* A page that stays on its origin, or begins a test on it.                *)
Stays(p) == p.top = page.top /\ p.origin \in {None, p.top}

(* What a step may do to the page without leaving the invariant.           *)
LEMMA ShareStays ==
  ASSUME ShareInv, Stays(page'), UNCHANGED <<scenario, content, compared>>
  PROVE  ShareInv'
BY DEF ShareInv, Stays, KeptAtTheSender

(* The pages that a step leaves on the runner's origin.                    *)
LEMMA StaysOnTop ==
  ASSUME ShareInv, PlaceOK
  PROVE  /\ Stays(page) /\ Stays(FreshPage(page.top))
         /\ Stays([page EXCEPT !.me = None])
         /\ \A o, shown : o # None /\ MayVisit(o) => Stays(Visited(page, o, shown))
<1>1. page = [top |-> page.top, origin |-> page.origin, me |-> page.me]
  BY DEF PlaceOK
<1>2. Stays(page)
  BY DEF ShareInv, Stays
<1>3. Stays(FreshPage(page.top))
  BY DEF FreshPage, Stays
<1>4. Stays([page EXCEPT !.me = None])
  <2>1. /\ [page EXCEPT !.me = None].top = page.top
        /\ [page EXCEPT !.me = None].origin = page.origin
    BY <1>1
  <2>2. QED
    BY <1>2, <2>1 DEF Stays
<1>5. ASSUME NEW o, NEW shown, o # None, MayVisit(o)
      PROVE  Stays(Visited(page, o, shown))
  <2>1. page.top = o
    BY <1>5 DEF MayVisit, ShareInv
  <2>2. /\ Visited(page, o, shown).top = page.top
        /\ Visited(page, o, shown).origin = o
    BY <1>1, VisitedPage
  <2>3. QED
    BY <2>1, <2>2 DEF Stays
<1>6. QED
  BY <1>2, <1>3, <1>4, <1>5

(* A step that works leaves its page, or the next test a new one.          *)
LEMMA AdvanceStays ==
  ASSUME ShareInv, PlaceOK, NEW p, NEW c, AdvanceOn(p, c), Stays(p)
  PROVE  Stays(page')
<1>1. page' = p \/ page' = FreshPage(page.top)
  BY DEF AdvanceOn, LeaveTest
<1>2. QED
  BY <1>1, StaysOnTop

(* A failure ends the test and leaves the runner where it was.             *)
LEMMA FailShare ==
  ASSUME ShareInv, PlaceOK, NEW cause, Fail(cause)
  PROVE  ShareInv'
<1>1. /\ page' = FreshPage(page.top)
      /\ UNCHANGED <<scenario, content, compared>>
  BY DEF Fail, LeaveTest
<1>2. QED
  BY <1>1, StaysOnTop, ShareStays

(* A reload moves the runner and drops what the spec has kept.             *)
LEMMA ReloadShare ==
  ASSUME ShareInv, NEW o, Reload(o)
  PROVE  ShareInv'
BY DEF ShareInv, KeptAtTheSender, Reload, FreshPage

(* A session is made at the runner's own origin, or after a reload.        *)
LEMMA IdpShare == ShareInv /\ IInv /\ Idp => ShareInv'
<1> SUFFICES ASSUME ShareInv, IInv, Idp PROVE ShareInv'
  OBVIOUS
<1> DEFINE o == IdpConfig(Who)
<1>1. PlaceOK /\ ScenarioOK /\ run = "running"
  BY DEF IInv, CoreInv, Idp, Running
<1>2. o # None
  <2>1. o \in Idps
    BY <1>1, Here DEF IdpConfig, ScenarioOK, Idps, Parties
  <2>2. QED
    BY <2>1 DEF Idps, None
<1>3. CASE Fail("credentials") \/ Fail("origin")
  BY <1>1, <1>3, FailShare
<1>4. CASE Reload(o)
  BY <1>4, ReloadShare
<1>5. ASSUME NEW c,
             \/ AdvanceOn([page EXCEPT !.me = None], c)
             \/ MayVisit(o) /\ AdvanceOn(Visited(page, o, None), c),
             UNCHANGED <<scenario, content, compared>>
      PROVE  ShareInv'
  <2>1. Stays([page EXCEPT !.me = None]) /\ (MayVisit(o) => Stays(Visited(page, o, None)))
    BY <1>1, <1>2, StaysOnTop
  <2>2. Stays(page')
    BY <1>1, <1>5, <2>1, AdvanceStays
  <2>3. QED
    BY <1>5, <2>2, ShareStays
<1>6. QED
  <2>1. Visited(page, o, None) = [page EXCEPT !.origin = o, !.me = None]
    BY DEF Visited
  <2> HIDE DEF o
  <2>2. \/ Fail("credentials") \/ Fail("origin") \/ Reload(o)
        \/ /\ UNCHANGED <<scenario, content, compared>>
           /\ \/ \E c : AdvanceOn([page EXCEPT !.me = None], c)
              \/ MayVisit(o) /\ \E c : AdvanceOn(Visited(page, o, None), c)
    BY <2>1 DEF Idp, o
  <2>3. QED
    BY <1>3, <1>4, <1>5, <2>2

(* So is the login of an application.                                      *)
LEMMA AppShare == ShareInv /\ IInv /\ App => ShareInv'
<1> SUFFICES ASSUME ShareInv, IInv, App PROVE ShareInv'
  OBVIOUS
<1> DEFINE o == baseUrl
<1>1. PlaceOK /\ o # None
  BY DEF IInv, CoreInv, PlaceOK, Parties, None
<1>2. ASSUME NEW shown, MayVisit(o), AdvanceOn(Visited(page, o, shown), cookies),
             UNCHANGED <<scenario, content, compared>>
      PROVE  ShareInv'
  <2>1. Stays(Visited(page, o, shown))
    BY <1>1, <1>2, StaysOnTop
  <2>2. QED
    BY <1>1, <1>2, <2>1, AdvanceStays, ShareStays
<1>3. \/ \E cause : Fail(cause)
      \/ Reload(o)
      \/ \E shown :
           /\ MayVisit(o) /\ AdvanceOn(Visited(page, o, shown), cookies)
           /\ UNCHANGED <<scenario, content, compared>>
  BY DEF App, Visited
<1>4. QED
  BY <1>1, <1>2, <1>3, FailShare, ReloadShare

(* The content is kept where the sender's application is.                  *)
LEMMA KeepContentShare == ShareInv /\ IInv /\ KeepContent => ShareInv'
<1> SUFFICES ASSUME ShareInv, IInv, KeepContent PROVE ShareInv'
  OBVIOUS
<1>1. /\ CoreInv /\ PlaceOK /\ run = "running" /\ Now = "keepContent"
      /\ AdvanceOn(page, cookies) /\ UNCHANGED <<scenario, compared>>
  BY DEF IInv, CoreInv, KeepContent, Running, Advance
<1>2. Stays(page')
  BY <1>1, StaysOnTop, AdvanceStays
<1>3. scenario.cell.flow = "share-with" => page'.top = "sender"
  <2>1. scenario.cell.flow = "share-with" => page.origin = "sender"
    BY <1>1, ShareWithNow
  <2>2. QED
    BY <1>2, <2>1 DEF Stays, ShareInv, None
<1>4. QED
  BY <1>1, <1>2, <1>3 DEF ShareInv, Stays, KeptAtTheSender

(* On the receiver's application there is nothing left to compare.         *)
LEMMA CompareShare == ShareInv /\ IInv /\ Compare => ShareInv'
<1> SUFFICES ASSUME ShareInv, IInv, Compare PROVE ShareInv'
  OBVIOUS
<1>1. /\ CoreInv /\ PlaceOK /\ run = "running" /\ Now \in {"compare", "compareKept"}
      /\ compared' = IF ChecksContent(Ref("receiver")) /\ Handed # 0
                     THEN compared \cup {Handed} ELSE compared
      /\ AdvanceOn(page, cookies) /\ UNCHANGED <<scenario, content>>
  BY DEF IInv, CoreInv, Compare, Advance
<1>2. Stays(page')
  BY <1>1, StaysOnTop, AdvanceStays
<1>3. ASSUME scenario.cell.flow = "share-with"
      PROVE  compared' = compared
  <2>1. Now = "compareKept" /\ page.origin = "receiver"
    BY <1>1, <1>3, ShareWithNow
  <2>2. page.top = "receiver"
    BY <2>1 DEF ShareInv, None
  <2>3. content = 0
    BY <1>3, <2>2 DEF ShareInv, KeptAtTheSender
  <2>4. Handed = 0
    BY <2>1, <2>3 DEF Handed
  <2>5. QED
    BY <1>1, <2>4
<1>4. QED
  BY <1>1, <1>2, <1>3 DEF ShareInv, Stays, KeptAtTheSender

(* The invariant is kept by every step.                                    *)
LEMMA ShareStep == ShareInv /\ IInv /\ [Next]_vars => ShareInv'
<1> SUFFICES ASSUME ShareInv, IInv, [Next]_vars PROVE ShareInv'
  OBVIOUS
<1>1. PlaceOK /\ Stays(page)
  BY StaysOnTop DEF IInv, CoreInv
<1>2. ASSUME AdvanceOn(page, cookies), UNCHANGED <<scenario, content, compared>>
      PROVE  ShareInv'
  BY <1>1, <1>2, AdvanceStays, ShareStays
<1>3. ASSUME UNCHANGED <<page, scenario, content, compared>>
      PROVE  ShareInv'
  BY <1>1, <1>3, ShareStays DEF Stays
<1>4. ASSUME \E cause : Fail(cause)
      PROVE  ShareInv'
  BY <1>1, <1>4, FailShare
<1>5. CASE Idp \/ App \/ KeepContent \/ Compare
  BY <1>5, IdpShare, AppShare, KeepContentShare, CompareShare
<1>6. CASE SetBaseUrl \/ Kill \/ UNCHANGED vars
  BY <1>3, <1>6 DEF SetBaseUrl, Kill, vars
<1>7. CASE ClearRuntime \/ WriteRuntime
  BY <1>2, <1>7 DEF ClearRuntime, WriteRuntime, Advance
<1>8. CASE ReadRuntime
  BY <1>3, <1>4, <1>8 DEF ReadRuntime
<1>9. CASE RequireString \/ ResolveRecipient \/ Act
  BY <1>2, <1>4, <1>9 DEF RequireString, ResolveRecipient, Act, Advance
<1>10. CASE ProductFails
  BY <1>4, <1>10 DEF ProductFails
<1>11. CASE Again
  BY <1>11 DEF Again, ShareInv, KeptAtTheSender, FreshPage
<1>12. QED
  BY <1>5, <1>6, <1>7, <1>8, <1>9, <1>10, <1>11 DEF Next

(* Whatever the platforms, users and outcomes, share-with compares no      *)
(* content at all: the reload that brings its second test to the           *)
(* receiver's origin empties the variable (capturedExpectedContent) that   *)
(* the first test has filled. What the run ContentLost shows of one cell   *)
(* is so for every cell.                                                   *)
THEOREM ShareWithComparesNothing ==
  Spec => [](scenario.cell.flow = "share-with" => compared = {})
<1>1. Init => ShareInv
  BY DEF Init, ShareInv, KeptAtTheSender, FreshPage
<1>2. ShareInv => (scenario.cell.flow = "share-with" => compared = {})
  BY DEF ShareInv
<1>3. QED
  BY <1>1, <1>2, ShareStep, Invariance, PTL DEF Spec

=============================================================================
