----------------------- MODULE PaymentAgreementProofs -----------------------
(* What PaymentAgreement comes to, for any requests and memos. Whatever       *)
(* implements it has these properties too.                                    *)
EXTENDS PaymentAgreement, TLAPS

Answers == Refusals \cup {"open", "paid", "error"}

\* The types, with findings left open.
AgreementTypes ==
  /\ approved \subseteq Requests /\ sent \subseteq Requests
  /\ answer \in [Requests -> Answers]
  /\ DOMAIN found = Requests

ConsistentInv == AgreementTypes /\ Consistent

\* Every step keeps the types.
LEMMA TypesStep == AgreementTypes /\ [Next]_vars => AgreementTypes'
BY DEF AgreementTypes, Answers, Refusals, vars, Next, Approve, Refuse, Pay, PayLate, GiveUp,
   Find

\* Nobody is approved after a refusal or paid without an approval, and whoever
\* waits may hear anything that is so.
LEMMA ConsistentStep == ConsistentInv /\ [Next]_vars => ConsistentInv'
<1> SUFFICES ASSUME AgreementTypes, Consistent, [Next]_vars
             PROVE  Consistent'
  BY TypesStep DEF ConsistentInv
<1> USE DEF AgreementTypes, Consistent, Answers, Refusals
<1>1. ASSUME NEW a \in Requests, Approve(a)
      PROVE  Consistent'
  BY <1>1 DEF Approve
<1>2. ASSUME NEW a \in Requests, Refuse(a)
      PROVE  Consistent'
  BY <1>2 DEF Refuse
<1>3. ASSUME NEW a \in Requests, Pay(a) \/ PayLate(a)
      PROVE  Consistent'
  BY <1>3 DEF Pay, PayLate
<1>4. ASSUME NEW a \in Requests, Find(a)
      PROVE  Consistent'
  BY <1>4 DEF Find
<1>5. CASE GiveUp
  BY <1>5 DEF GiveUp
<1>6. CASE UNCHANGED vars
  BY <1>6 DEF vars
<1>7. QED
  BY <1>1, <1>2, <1>3, <1>4, <1>5, <1>6 DEF Next

\* Nobody has heard or done anything yet.
LEMMA ConsistentInit == Init => ConsistentInv
BY DEF Init, ConsistentInv, AgreementTypes, Consistent, Answers, Refusals

\* The receiver, the ledger and the caller agree on every request: what is paid
\* was approved, what the caller was told is so, and what is found was approved
\* under the memo asked for.
THEOREM AllAgree == Spec => []Consistent
<1>1. ConsistentInv => Consistent
  BY DEF ConsistentInv
<1>2. QED
  BY <1>1, ConsistentInit, ConsistentStep, PTL DEF Spec

\* Nothing is taken back, and a caller who was told how it ended is not paid for
\* afterwards.
THEOREM AgreementStands == Spec => NothingTakenBack
<1>1. ConsistentInv /\ [Next]_vars =>
        [/\ approved \subseteq approved' /\ sent \subseteq sent'
         /\ \A a \in Requests :
              /\ answer[a] # "open" => answer'[a] = answer[a]
              /\ answer[a] \in {"paid", "pending", "denied"} => (a \in sent' <=> a \in sent)
              /\ found[a] # "none" => found'[a] = found[a]]_vars
  BY DEF ConsistentInv, AgreementTypes, Consistent, Refusals, vars, Next, Approve, Refuse,
     Pay, PayLate, GiveUp, Find
<1>2. QED
  BY <1>1, ConsistentInit, ConsistentStep, PTL DEF Spec, NothingTakenBack

=============================================================================
