------------------------------ MODULE Replica ------------------------------
(***************************************************************************)
(* What one mirror instance promises of a resource, without saying how: a  *)
(* copy per key that only moves forward through the published versions,    *)
(* and a debt to every client it redirected, that the copy is at least as  *)
(* recent as the version owed.  An answer that rests on asking the origin  *)
(* owes the version published when its work began.                         *)
(***************************************************************************)
EXTENDS Integers, TLAPS

CONSTANTS Client, Key, MaxVersion

VARIABLES
    published,  \* the newest published version
    copy,       \* copy[k]: the version held under k, 0 for none
    begun,      \* begun[k]: what was published when k's work began, 0 for none
    owed        \* owed[c]: what client c is owed, {} unless it was redirected

vars == <<published, copy, begun, owed>>

Debt == [key : Key, least : 1..MaxVersion]

Init ==
    /\ published = 1
    /\ copy \in [Key -> 0..1]
    /\ begun = [k \in Key |-> 0]
    /\ owed = [c \in Client |-> {}]

Publish ==
    /\ published < MaxVersion
    /\ published' = published + 1
    /\ UNCHANGED <<copy, begun, owed>>

Begin(k) ==
    /\ begun[k] = 0
    /\ begun' = [begun EXCEPT ![k] = published]
    /\ UNCHANGED <<published, copy, owed>>

\* The copy may move to any later published version while work is under way.
Forward(k) == \E n \in 1..published : n >= copy[k] /\ copy' = [copy EXCEPT ![k] = n]

Renew(k) ==
    /\ begun[k] # 0
    /\ Forward(k)
    /\ UNCHANGED <<published, begun, owed>>

\* Work on k ends and the clients that waited are owed the same: the copy now
\* held, or an older one if the answer does not vouch for the origin.
Answer(k) ==
    \E waiting \in SUBSET Client, least \in 1..MaxVersion, checked \in BOOLEAN :
      /\ begun[k] # 0
      /\ Forward(k) \/ UNCHANGED copy
      /\ least <= copy'[k]
      /\ checked => least >= begun[k]
      /\ begun' = [begun EXCEPT ![k] = 0]
      /\ owed' = [c \in Client |-> IF c \in waiting
                                   THEN {[key |-> k, least |-> least]} ELSE owed[c]]
      /\ UNCHANGED published

\* Work ends without an answer to follow: an error, or a crash.
Abandon ==
    /\ \E ks \in SUBSET Key :
         begun' = [k \in Key |-> IF k \in ks THEN 0 ELSE begun[k]]
    /\ UNCHANGED <<published, copy, owed>>

Settle(c) ==
    /\ owed' = [owed EXCEPT ![c] = {}]
    /\ UNCHANGED <<published, copy, begun>>

Next ==
    \/ Publish
    \/ \E k \in Key : Begin(k) \/ Renew(k) \/ Answer(k)
    \/ Abandon
    \/ \E c \in Client : Settle(c)

Spec == Init /\ [][Next]_vars

-----------------------------------------------------------------------------

TypeOK ==
    /\ published \in 1..MaxVersion
    /\ copy \in [Key -> 0..MaxVersion]
    /\ begun \in [Key -> 0..MaxVersion]
    /\ owed \in [Client -> SUBSET Debt]

\* Every debt can be paid, and from a published version: the copy a client is
\* sent to stays as recent as its answer said.
DebtsCovered ==
    /\ \A k \in Key : copy[k] <= published
    /\ \A c \in Client : \A d \in owed[c] : d.least <= copy[d.key]

\* The debts stay covered: the copy only moves forward, and an answer owes no
\* more than what is held.
THEOREM Covered ==
    ASSUME MaxVersion \in Nat \ {0}
    PROVE  Spec => [](TypeOK /\ DebtsCovered)
  <1>1. Init => TypeOK /\ DebtsCovered
    BY DEF Init, TypeOK, DebtsCovered
  <1>2. TypeOK /\ DebtsCovered /\ [Next]_vars => (TypeOK /\ DebtsCovered)'
    <2> SUFFICES ASSUME TypeOK, DebtsCovered, [Next]_vars
                 PROVE  TypeOK' /\ DebtsCovered'
      OBVIOUS
    <2> USE DEF TypeOK, DebtsCovered
    <2>1. CASE Publish
      BY <2>1 DEF Publish
    <2>2. CASE \E k \in Key : Begin(k)
      BY <2>2 DEF Begin
    <2>3. CASE \E k \in Key : Renew(k)
      BY <2>3 DEF Renew, Forward, Debt
    <2>4. CASE \E k \in Key : Answer(k)
      <3>1. PICK k \in Key : Answer(k)
        BY <2>4
      <3>2. PICK waiting \in SUBSET Client, least \in 1..MaxVersion :
              /\ Forward(k) \/ UNCHANGED copy
              /\ least <= copy'[k]
              /\ begun' = [begun EXCEPT ![k] = 0]
              /\ owed' = [c \in Client |-> IF c \in waiting
                                           THEN {[key |-> k, least |-> least]} ELSE owed[c]]
              /\ UNCHANGED published
        BY <3>1 DEF Answer
      <3>3. /\ copy' \in [Key -> 0..MaxVersion]
            /\ \A l \in Key : copy'[l] <= published' /\ copy[l] <= copy'[l]
        BY <3>2 DEF Forward
      <3>4. [key |-> k, least |-> least] \in Debt
        BY DEF Debt
      <3>5. TypeOK'
        <4>1. begun' \in [Key -> 0..MaxVersion]
          BY <3>2
        <4> DEFINE debt == [key |-> k, least |-> least]
        <4> HIDE DEF debt
        <4>2. owed' = [c \in Client |-> IF c \in waiting THEN {debt} ELSE owed[c]]
          BY <3>2 DEF debt
        <4>3. owed' \in [Client -> SUBSET Debt]
          BY <3>4, <4>2 DEF debt
        <4>4. published' \in 1..MaxVersion
          BY <3>2
        <4> QED
          BY <3>3, <4>1, <4>3, <4>4
      <3>6. ASSUME NEW c \in Client, NEW d \in owed'[c]
            PROVE  d.least <= copy'[d.key]
        <4>1. CASE c \in waiting
          <5>1. d = [key |-> k, least |-> least]
            BY <3>2, <4>1
          <5>2. d.key = k /\ d.least = least
            BY <5>1
          <5> QED
            BY <3>2, <5>2
        <4>2. CASE c \notin waiting
          <5>1. d \in owed[c] /\ d \in Debt
            BY <3>2, <4>2
          <5>2. d.least <= copy[d.key] /\ d.key \in Key /\ d.least \in Int
            BY <5>1 DEF Debt
          <5> QED
            BY <3>3, <5>1, <5>2
        <4> QED
          BY <4>1, <4>2
      <3> QED
        BY <3>3, <3>5, <3>6
    <2>5. CASE Abandon
      BY <2>5 DEF Abandon
    <2>6. CASE \E c \in Client : Settle(c)
      BY <2>6 DEF Settle
    <2>7. CASE UNCHANGED vars
      BY <2>7 DEF vars
    <2> QED
      BY <2>1, <2>2, <2>3, <2>4, <2>5, <2>6, <2>7 DEF Next
  <1> QED
    BY <1>1, <1>2, PTL DEF Spec
=============================================================================
