---------------------- MODULE ComplianceProtocolProofs ----------------------
(* Proofs about ComplianceProtocol, for any requests, users, allow lists and  *)
(* crashes.                                                                   *)
EXTENDS ComplianceProtocol, PaymentFormProofs

-----------------------------------------------------------------------------
(* The inductive invariant.                                                   *)

\* What the receiver's handler has decided, by where it is, and what is stored.
HandlerOrder ==
  \A a \in Requests :
    /\ front[a] \in {"idle", "send"} => handler[a] = "idle"
    /\ front[a] \in {"pending", "denied"} => handler[a] = "answered"
    /\ a \in authorized => Approved(a) /\ handler[a] \in {"reply", "answered", "failed"}
    /\ handler[a] = "reply" /\ Approved(a) => a \in authorized
    /\ a \in info => handler[a] \in {"persist", "reply", "answered", "failed"}
    /\ handler[a] = "ask" => AskUser
    /\ handler[a] # "idle" => Sendable(form[a])

\* What the sender submits is stored at the receiver.
PaidIsStored ==
  /\ \A a \in Requests : front[a] \in {"submit", "lost"} => a \in authorized
  /\ paid \subseteq authorized

\* What /receive served was stored, under the memo asked for.
ServedIsStored ==
  \A a \in Requests :
    served[a] # "none" => served[a] \in authorized /\ Memo[served[a]] = Memo[a]

\* Type and agreement: the part that does not need the allow lists.
AgreementInv == TypeOK /\ HandlerOrder /\ PaidIsStored /\ ServedIsStored

\* Nobody is known twice as w.
OneRow(w) == \A g, h \in grants : g.who = w /\ h.who = w => g = h

\* A removal of w under way has the row to remove, unless w was allowed since; and
\* w has no row when excluded.
ListExact(w) ==
  /\ \A q \in Removers :
       remover[q] # Idle /\ remover[q].who = w /\ remover[q].sole =>
         \A g \in grants : g.who = w => g.id = remover[q].id
  /\ w \in excluded => ~Allowed(w)

\* AllowedFI is unique by domain, so the institution has one row at most.
InstitutionExact == OneRow(Institution) /\ ListExact(Institution)

\* No user is allowed under two public keys at once.
UsersOnce == \A a \in Requests : OneRow(User[a])

UsersExact == \A a \in Requests : ListExact(User[a])

\* Requests that may get no info do not.
BarredGetNothing ==
  \A a \in barred :
    /\ ~Allowed(User[a]) /\ ~Allowed(Institution)
    /\ ~AskUser => handler[a] # "fetch" /\ a \notin info

AccessInv ==
  TypeOK /\ HandlerOrder /\ InstitutionExact /\ UsersExact /\ BarredGetNothing

-----------------------------------------------------------------------------
(* Types.                                                                     *)

\* Every step keeps the types.
LEMMA TypeStep == TypeOK /\ [Next]_vars => TypeOK'
<1> SUFFICES ASSUME TypeOK, [Next]_vars PROVE TypeOK'
  OBVIOUS
<1> USE DEF authVars, listVars, procVars, ToFront, ToHandler, TxKnown, InfoKnown
<1>1. ASSUME NEW a \in Requests, Sender(a)
      PROVE  TypeOK'
  <2> USE DEF TypeOK, Front, Returned, Handler, Over
  <2>1. CASE Payment(a) \/ SendFails(a)
    BY <2>1 DEF Payment, SendFails
  <2>2. CASE HandlerSend(a)
    BY <2>2 DEF HandlerSend
  <2>3. CASE AuthAnswered(a)
    BY <2>3 DEF AuthAnswered, Decision
  <2>4. CASE SubmitPayment(a) \/ LateApply(a)
    BY <2>4 DEF SubmitPayment, LateApply
  <2>5. QED
    BY <1>1, <2>1, <2>2, <2>3, <2>4 DEF Sender
<1>2. ASSUME NEW a \in Requests, HandlerAuth(a)
      PROVE  TypeOK'
  <2> USE DEF TypeOK, Handler, Over, AuthStatus
  <2>1. CASE CheckAuth(a) \/ AskSanctions(a)
    BY <2>1 DEF CheckAuth, AskSanctions
  <2>2. CASE UserInfo(a)
    BY <2>2 DEF UserInfo
  <2>3. CASE AskUserAnswers(a)
    BY <2>3 DEF AskUserAnswers
  <2>4. CASE GetAllowedFi(a) \/ GetAllowedUser(a)
    BY <2>4 DEF GetAllowedFi, GetAllowedUser, CheckList
  <2>5. CASE FetchInfo(a) \/ AuthFails(a)
    BY <2>5 DEF FetchInfo, AuthFails
  <2>6. CASE PersistAuthorized(a) \/ PersistAuthorizedFails(a)
    BY <2>6 DEF PersistAuthorized, PersistAuthorizedFails
  <2>7. QED
    BY <1>2, <2>1, <2>2, <2>3, <2>4, <2>5, <2>6 DEF HandlerAuth
<1>3. ASSUME NEW a \in Requests, HandlerReceive(a)
      PROVE  TypeOK'
  BY <1>3 DEF HandlerReceive, GetAuthorizedTransactionByMemo, TypeOK
<1>4. CASE HandlerAllowAccess
  <2>1. PICK w \in Who, k \in Keys :
          /\ grants' = grants \cup {[id |-> nextId, who |-> w, key |-> k]}
          /\ excluded' = excluded \ {w}
          /\ remover' = [q \in Removers |->
                           IF remover[q] # Idle /\ remover[q].who = w
                             THEN Removing(remover[q].id, w, FALSE) ELSE remover[q]]
          /\ barred' \subseteq barred
    BY <1>4 DEF HandlerAllowAccess
  <2>2. remover' \in [Removers -> Remover]
    <3>1. \A q \in Removers : remover[q] # Idle => remover[q].id \in Nat
      BY DEF TypeOK, Remover
    <3>2. \A i \in Nat : Removing(i, w, FALSE) \in Remover
      BY DEF Remover, Removing
    <3>3. \A q \in Removers : remover[q] \in Remover
      BY DEF TypeOK
    <3>4. QED
      BY <2>1, <3>1, <3>2, <3>3
  <2>3. grants' \subseteq Grant /\ nextId' \in Nat
    BY <1>4, <2>1 DEF HandlerAllowAccess, TypeOK, Grant
  <2>4. QED
    BY <1>4, <2>1, <2>2, <2>3 DEF HandlerAllowAccess, TypeOK
<1>5. ASSUME NEW q \in Removers, HandlerRemoveAccess(q)
      PROVE  TypeOK'
  <2>1. CASE FindGrant(q)
    BY <2>1 DEF FindGrant, TypeOK, Remover, Removing, Grant
  <2>2. CASE DeleteGrant(q)
    <3>1. remover[q] \in [pc : {"delete"}, id : Nat, who : Who, sole : BOOLEAN]
      BY <2>2 DEF DeleteGrant, TypeOK, Remover
    <3>2. remover' \in [Removers -> Remover] /\ excluded' \subseteq Who
      BY <2>2, <3>1 DEF DeleteGrant, TypeOK, Remover
    <3>3. QED
      BY <2>2, <3>2 DEF DeleteGrant, TypeOK
  <2>3. CASE RemoveFails(q)
    <3>1. remover' \in [Removers -> Remover] /\ grants' \subseteq grants
      BY <2>3 DEF RemoveFails, TypeOK, Remover
    <3>2. QED
      BY <2>3, <3>1 DEF RemoveFails, TypeOK
  <2>4. QED
    BY <1>5, <2>1, <2>2, <2>3 DEF HandlerRemoveAccess
<1>6. CASE ReceiverCrash
  <2>1. remover' \in [Removers -> Remover] /\ handler' \in [Requests -> Handler]
    BY <1>6 DEF ReceiverCrash, TypeOK, Remover, Handler, Over
  <2>2. crashes' \in 0..MaxCrashes
    BY <1>6, BoundsAssumption DEF ReceiverCrash, TypeOK
  <2>3. QED
    BY <1>6, <2>1, <2>2 DEF ReceiverCrash, TypeOK
<1>7. CASE SenderCrash
  <2>1. front' \in [Requests -> Front]
    BY <1>7 DEF SenderCrash, TypeOK, Front, Returned
  <2>2. crashes' \in 0..MaxCrashes
    BY <1>7, BoundsAssumption DEF SenderCrash, TypeOK
  <2>3. QED
    BY <1>7, <2>1, <2>2 DEF SenderCrash, TypeOK
<1>8. CASE UNCHANGED vars
  BY <1>8 DEF vars, TypeOK
<1>9. CASE Serve
  BY <1>9 DEF Serve, TypeOK
<1>10. QED
  BY <1>1, <1>2, <1>3, <1>4, <1>5, <1>6, <1>7, <1>8, <1>9 DEF Next

\* The types hold at the start.
LEMMA TypeInit == Init => TypeOK
BY BoundsAssumption DEF Init, TypeOK, Front, Handler, Over, Remover, TxKnown, InfoKnown

\* Both sides' variables keep their types.
THEOREM TypeCorrect == Spec => []TypeOK
BY TypeInit, TypeStep, PTL DEF Spec

-----------------------------------------------------------------------------
(* Agreement.                                                                 *)

\* Steps of the allow lists touch nothing of the payments.
LEMMA ListsApart ==
  ASSUME HandlerAllowAccess \/ \E q \in Removers : HandlerRemoveAccess(q)
  PROVE  UNCHANGED <<form, front, handler, txStatus, infoStatus, info, authorized, paid,
                     served>>
BY DEF HandlerAllowAccess, HandlerRemoveAccess, FindGrant, DeleteGrant, RemoveFails,
   authVars, procVars

\* A handler decides first and stores then, and once it has stored it changes
\* nothing any more.
LEMMA HandlerOrderStep ==
  ASSUME TypeOK, HandlerOrder, [Next]_vars
  PROVE  HandlerOrder'
<1> USE DEF HandlerOrder, Approved, procVars
<1>1. ASSUME NEW a \in Requests, Sender(a)
      PROVE  HandlerOrder'
  <2> USE DEF TypeOK, ToFront, ToHandler
  <2>1. CASE Payment(a) \/ SendFails(a) \/ SubmitPayment(a) \/ LateApply(a)
    BY <2>1 DEF Payment, SendFails, SubmitPayment, LateApply
  <2>2. CASE HandlerSend(a)
    BY <2>2 DEF HandlerSend
  <2>3. CASE AuthAnswered(a)
    BY <2>3 DEF AuthAnswered, Decision
  <2>4. QED
    BY <1>1, <2>1, <2>2, <2>3 DEF Sender
<1>2. ASSUME NEW a \in Requests, HandlerAuth(a)
      PROVE  HandlerOrder'
  <2> USE DEF TypeOK, ToHandler, AuthStatus
  <2>1. CASE CheckAuth(a) \/ AskSanctions(a)
    BY <2>1 DEF CheckAuth, AskSanctions
  <2>2. CASE UserInfo(a)
    BY <2>2 DEF UserInfo
  <2>3. CASE AskUserAnswers(a)
    BY <2>3 DEF AskUserAnswers
  <2>4. CASE GetAllowedFi(a) \/ GetAllowedUser(a)
    BY <2>4 DEF GetAllowedFi, GetAllowedUser, CheckList
  <2>5. CASE FetchInfo(a) \/ AuthFails(a)
    BY <2>5 DEF FetchInfo, AuthFails
  <2>6. CASE PersistAuthorized(a) \/ PersistAuthorizedFails(a)
    BY <2>6 DEF PersistAuthorized, PersistAuthorizedFails
  <2>7. QED
    BY <1>2, <2>1, <2>2, <2>3, <2>4, <2>5, <2>6 DEF HandlerAuth
<1>3. CASE \E a \in Requests : HandlerReceive(a)
  BY <1>3 DEF HandlerReceive, authVars
<1>4. CASE HandlerAllowAccess \/ \E q \in Removers : HandlerRemoveAccess(q)
  BY <1>4, ListsApart
<1>5. CASE ReceiverCrash \/ SenderCrash
  BY <1>5 DEF ReceiverCrash, SenderCrash, Over, Returned, TypeOK
<1>6. CASE Serve \/ UNCHANGED vars
  BY <1>6 DEF Serve, authVars, vars
<1>7. QED
  BY <1>1, <1>2, <1>3, <1>4, <1>5, <1>6 DEF Next

\* AuthorizedTransaction rows are never removed.
LEMMA StoredStays ==
  ASSUME [Next]_vars
  PROVE  authorized \subseteq authorized'
BY ListsApart DEF Next, Sender, Payment, HandlerSend, SendFails, AuthAnswered, SubmitPayment,
   LateApply, HandlerAuth, CheckAuth, AskSanctions, UserInfo, AskUserAnswers, GetAllowedFi,
   GetAllowedUser, CheckList, FetchInfo, PersistAuthorized, PersistAuthorizedFails,
   AuthFails, HandlerReceive, Serve, ReceiverCrash, SenderCrash, vars

\* The bridge submits on an answer that was given after the row was stored.
LEMMA PaidStep ==
  ASSUME TypeOK, HandlerOrder, PaidIsStored, [Next]_vars
  PROVE  PaidIsStored'
<1>1. ASSUME NEW a \in Requests, Sender(a)
      PROVE  PaidIsStored'
  <2> USE DEF PaidIsStored, TypeOK, ToFront
  <2>1. CASE Payment(a) \/ SendFails(a) \/ HandlerSend(a) \/ SubmitPayment(a) \/ LateApply(a)
    BY <2>1 DEF Payment, SendFails, HandlerSend, SubmitPayment, LateApply
  <2>2. CASE AuthAnswered(a)
    <3>1. Decision(a) = "submit" => a \in authorized
      BY <2>2 DEF AuthAnswered, Decision, HandlerOrder, TxKnown, InfoKnown, Approved,
         AuthStatus
    <3>2. Decision(a) # "lost"
      BY DEF Decision
    <3>3. QED
      BY <2>2, <3>1, <3>2 DEF AuthAnswered
  <2>3. QED
    BY <1>1, <2>1, <2>2 DEF Sender
<1>2. CASE UNCHANGED <<front, paid>>
  BY <1>2, StoredStays DEF PaidIsStored
<1>3. ASSUME NEW a \in Requests, HandlerAuth(a) \/ HandlerReceive(a)
      PROVE  UNCHANGED <<front, paid>>
  BY <1>3 DEF HandlerAuth, CheckAuth, AskSanctions, UserInfo, AskUserAnswers, GetAllowedFi,
     GetAllowedUser, CheckList, FetchInfo, PersistAuthorized, PersistAuthorizedFails,
     AuthFails, HandlerReceive, authVars
<1>4. CASE SenderCrash
  BY <1>4 DEF SenderCrash, PaidIsStored, TypeOK
<1>5. QED
  BY <1>1, <1>2, <1>3, <1>4, ListsApart DEF Next, Serve, ReceiverCrash, authVars, vars

\* /receive finds the row of a payment that was submitted.
LEMMA ServedStep ==
  ASSUME TypeOK, PaidIsStored, ServedIsStored, [Next]_vars
  PROVE  ServedIsStored'
<1>1. CASE UNCHANGED served
  BY <1>1, StoredStays DEF ServedIsStored
<1>2. ASSUME NEW a \in Requests, HandlerReceive(a)
      PROVE  ServedIsStored'
  <2>1. a \in GetAuthorizedTransactionByMemo(Memo[a])
    BY <1>2 DEF HandlerReceive, GetAuthorizedTransactionByMemo, PaidIsStored
  <2>2. PICK b \in GetAuthorizedTransactionByMemo(Memo[a]) :
          served' = [served EXCEPT ![a] = b]
    BY <1>2, <2>1 DEF HandlerReceive
  <2>3. b \in authorized /\ Memo[b] = Memo[a] /\ authorized' = authorized
    BY <1>2, <2>2 DEF HandlerReceive, GetAuthorizedTransactionByMemo
  <2>4. QED
    BY <2>2, <2>3 DEF ServedIsStored, TypeOK
<1>3. ASSUME NEW a \in Requests, Sender(a) \/ HandlerAuth(a)
      PROVE  UNCHANGED served
  BY <1>3 DEF Sender, Payment, HandlerSend, SendFails, AuthAnswered, SubmitPayment,
     LateApply, HandlerAuth, CheckAuth, AskSanctions, UserInfo, AskUserAnswers, GetAllowedFi,
     GetAllowedUser, CheckList, FetchInfo, PersistAuthorized, PersistAuthorizedFails,
     AuthFails
<1>4. QED
  BY <1>1, <1>2, <1>3, ListsApart DEF Next, Serve, ReceiverCrash, SenderCrash, vars

\* The agreement invariant holds at the start.
LEMMA AgreementInit == Init => AgreementInv
BY TypeInit DEF Init, AgreementInv, HandlerOrder, PaidIsStored, ServedIsStored, Approved

\* Every step keeps it.
LEMMA AgreementStep == AgreementInv /\ [Next]_vars => AgreementInv'
BY TypeStep, HandlerOrderStep, PaidStep, ServedStep DEF AgreementInv

\* What is submitted, is stored and is served agrees, in every reachable state.
THEOREM Agreement == Spec => []AgreementInv
BY AgreementInit, AgreementStep, PTL DEF Spec

\* /payment submits only what the other institution's /auth approved for it.
THEOREM PaymentsApproved == Spec => []PaidWasApproved
<1>1. AgreementInv => PaidWasApproved
  BY DEF AgreementInv, PaidIsStored, HandlerOrder, PaidWasApproved, TypeOK
<1>2. QED
  BY <1>1, Agreement, PTL

\* /receive finds the data of every payment that /auth approved.
THEOREM PaymentsFound == Spec => []PaidIsFound
<1>1. AgreementInv => PaidIsFound
  BY DEF AgreementInv, ServedIsStored, HandlerOrder, PaidIsFound, TypeOK
<1>2. QED
  BY <1>1, Agreement, PTL

\* What is submitted is what the caller of /payment asked for: only a form that
\* passes both servers' checks gets as far, and neither form on the way changes it.
THEOREM PaymentsAsked == Spec => []PaidIsAsked
<1>1. AgreementInv => PaidIsAsked
  <2> SUFFICES ASSUME AgreementInv, NEW a \in paid,
                      ~(0..5 \subseteq DOMAIN form[a].code)
               PROVE  /\ DirectOperation(form[a]) # Refused
                      /\ SendOperation(form[a]) = DirectOperation(form[a])
    BY DEF PaidIsAsked
  <2>1. SendOperation(form[a]) = DirectOperation(form[a])
    BY SameOperation
  <2>2. a \in Requests /\ handler[a] # "idle"
    BY DEF AgreementInv, TypeOK, PaidIsStored, HandlerOrder
  <2>3. SendOperation(form[a]) # Refused
    BY <2>2 DEF AgreementInv, HandlerOrder, Sendable
  <2>4. QED
    BY <2>1, <2>3
<1>2. QED
  BY <1>1, Agreement, PTL

-----------------------------------------------------------------------------
(* The agreement implemented.                                                 *)

\* What a caller has been told, as PaymentAgreement has it.
Told == [a \in Requests |-> IF front[a] = "lost" THEN "error"
                            ELSE IF front[a] \in Returned THEN front[a] ELSE "open"]

\* Nobody waits and nothing is approved at the start.
LEMMA AgreedInit == Init => Agreed!Init
BY DEF Init, Agreed!Init, Returned

\* Errors told to those who waited, and nothing else, are a GiveUp.
LEMMA ErrorsAgree ==
  ASSUME \A a \in Requests : Told'[a] = Told[a] \/ (Told[a] = "open" /\ Told'[a] = "error"),
         UNCHANGED <<authorized, paid, served>>
  PROVE  Agreed!GiveUp
<1> DEFINE waiting == {a \in Requests : Told'[a] # Told[a]}
<1>1. waiting \in SUBSET {a \in Requests : Told[a] = "open"}
  OBVIOUS
<1>2. Told' = [a \in Requests |-> IF a \in waiting THEN "error" ELSE Told[a]]
  BY DEF Told
<1>3. QED
  BY <1>1, <1>2 DEF Told, Agreed!GiveUp

\* A step on the sender's side tells its caller something or nobody anything.
LEMMA SenderAgrees ==
  ASSUME AgreementInv, NEW a \in Requests, Sender(a)
  PROVE  [Agreed!Next]_(Agreed!vars)
<1> DEFINE Same == UNCHANGED <<authorized, paid, served>>
<1> USE DEF AgreementInv, TypeOK, ToFront, Front, Returned, listVars, procVars
<1>1. CASE Payment(a) \/ SendFails(a)
  <2>1. Same /\ front[a] \notin Returned
    BY <1>1 DEF Payment, SendFails
  <2>2. \A b \in Requests : Told'[b] = Told[b] \/ (Told[b] = "open" /\ Told'[b] = "error")
    BY <1>1, <2>1 DEF Payment, SendFails, Told
  <2>3. QED
    BY <2>1, <2>2, ErrorsAgree DEF Agreed!Next
<1>2. CASE HandlerSend(a)
  <2>1. Same /\ Told' = Told
    BY <1>2 DEF HandlerSend, Told
  <2>2. QED
    BY <2>1 DEF Told, Agreed!vars
<1>3. CASE AuthAnswered(a)
  <2>1. Same /\ front[a] = "auth" /\ front' = [front EXCEPT ![a] = Decision(a)]
    BY <1>3 DEF AuthAnswered
  <2>2. CASE a \in authorized
    <3>1. Decision(a) = "submit"
      BY <2>2 DEF HandlerOrder, Approved, Decision
    <3>2. Told' = Told
      BY <2>1, <3>1 DEF Told
    <3>3. QED
      BY <2>1, <3>2 DEF Told, Agreed!vars
  <2>3. CASE a \notin authorized
    <3>1. Decision(a) \in {"pending", "denied"}
      BY <1>3, <2>3 DEF AuthAnswered, Decision, HandlerOrder, TxKnown, InfoKnown, Approved,
         AuthStatus
    <3>2. Told[a] = "open" /\ Told' = [Told EXCEPT ![a] = Decision(a)]
      BY <2>1, <3>1 DEF Told
    <3>3. Agreed!Refuse(a)
      BY <2>1, <2>3, <3>1, <3>2 DEF Told, Agreed!Refuse, Agreed!Refusals
    <3>4. QED
      BY <3>3 DEF Agreed!Next
  <2>4. QED
    BY <2>2, <2>3
<1>4. CASE SubmitPayment(a)
  <2>1. a \in authorized /\ Told[a] = "open" /\ UNCHANGED <<authorized, served>>
    BY <1>4 DEF SubmitPayment, PaidIsStored, Told
  <2>2. CASE front' = [front EXCEPT ![a] = "paid"] /\ paid' = paid \cup {a}
    <3>1. Told' = [Told EXCEPT ![a] = "paid"]
      BY <2>2 DEF Told
    <3>2. Agreed!Pay(a)
      BY <2>1, <2>2, <3>1 DEF Told, Agreed!Pay
    <3>3. QED
      BY <3>2 DEF Agreed!Next
  <2>3. CASE front' = [front EXCEPT ![a] = "lost"] /\ UNCHANGED paid
    <3>1. Told' = [Told EXCEPT ![a] = "error"] /\ DOMAIN Told = Requests
      BY <2>3 DEF Told
    <3>2. Agreed!GiveUp
      BY <2>1, <2>3, <3>1, ErrorsAgree
    <3>3. QED
      BY <3>2 DEF Agreed!Next
  <2>4. QED
    BY <1>4, <2>2, <2>3 DEF SubmitPayment
<1>5. CASE LateApply(a)
  <2>1. a \in authorized /\ Told[a] = "error" /\ Told' = Told
    BY <1>5 DEF LateApply, PaidIsStored, Told
  <2>2. Agreed!PayLate(a)
    BY <1>5, <2>1 DEF LateApply, Told, Agreed!PayLate
  <2>3. QED
    BY <2>2 DEF Agreed!Next
<1>6. QED
  BY <1>1, <1>2, <1>3, <1>4, <1>5 DEF Sender

\* A step of the receiver's handler approves or is not heard of.
LEMMA HandlerAgrees ==
  ASSUME AgreementInv, NEW a \in Requests, HandlerAuth(a)
  PROVE  [Agreed!Next]_(Agreed!vars)
<1>1. UNCHANGED <<front, paid, served>>
  BY DEF HandlerAuth, CheckAuth, AskSanctions, UserInfo, AskUserAnswers, GetAllowedFi,
     GetAllowedUser, CheckList, FetchInfo, PersistAuthorized, PersistAuthorizedFails,
     AuthFails
<1>2. authorized' = authorized \/ (handler[a] = "persist" /\ authorized' = authorized \cup {a})
  BY DEF HandlerAuth, CheckAuth, AskSanctions, UserInfo, AskUserAnswers, GetAllowedFi,
     GetAllowedUser, CheckList, FetchInfo, PersistAuthorized, PersistAuthorizedFails,
     AuthFails
<1>3. CASE authorized' = authorized
  BY <1>1, <1>3 DEF Agreed!vars
<1>4. CASE handler[a] = "persist" /\ authorized' = authorized \cup {a}
  <2>1. a \notin authorized
    BY <1>4 DEF AgreementInv, HandlerOrder
  <2>2. front[a] \notin {"pending", "denied"}
    BY <1>4 DEF AgreementInv, HandlerOrder
  <2>3. Agreed!Approve(a)
    BY <1>1, <1>4, <2>1, <2>2 DEF Agreed!Approve, Agreed!Refusals, Returned
  <2>4. QED
    BY <2>3 DEF Agreed!Next
<1>5. QED
  BY <1>2, <1>3, <1>4

\* /receive finds an approved request with the memo.
LEMMA ReceiveAgrees ==
  ASSUME AgreementInv, NEW a \in Requests, HandlerReceive(a)
  PROVE  Agreed!Find(a)
<1>1. a \in GetAuthorizedTransactionByMemo(Memo[a])
  BY DEF HandlerReceive, GetAuthorizedTransactionByMemo, AgreementInv, PaidIsStored
<1>2. PICK b \in GetAuthorizedTransactionByMemo(Memo[a]) :
        served' = [served EXCEPT ![a] = b]
  BY <1>1 DEF HandlerReceive
<1>3. QED
  BY <1>2 DEF HandlerReceive, GetAuthorizedTransactionByMemo, authVars, Agreed!Find

\* Every step is one of PaymentAgreement's or leaves what it speaks of alone.
LEMMA AgreedStep ==
  ASSUME AgreementInv, [Next]_vars
  PROVE  [Agreed!Next]_(Agreed!vars)
<1>1. CASE \E a \in Requests : Sender(a) \/ HandlerAuth(a) \/ HandlerReceive(a)
  BY <1>1, SenderAgrees, HandlerAgrees, ReceiveAgrees DEF Agreed!Next
<1>2. CASE HandlerAllowAccess \/ \E q \in Removers : HandlerRemoveAccess(q)
  BY <1>2, ListsApart DEF Agreed!vars
<1>3. CASE Serve \/ ReceiverCrash \/ UNCHANGED vars
  BY <1>3 DEF Serve, ReceiverCrash, vars, authVars, Agreed!vars
<1>4. CASE SenderCrash
  <2>1. \A a \in Requests : Told'[a] = Told[a] \/ (Told[a] = "open" /\ Told'[a] = "error")
    BY <1>4 DEF SenderCrash, Told, Returned, AgreementInv, TypeOK, Front
  <2>2. Agreed!GiveUp
    BY <1>4, <2>1, ErrorsAgree DEF SenderCrash
  <2>3. QED
    BY <2>2 DEF Agreed!Next
<1>5. QED
  BY <1>1, <1>2, <1>3, <1>4 DEF Next

\* The two servers keep what PaymentAgreement promises.
THEOREM ServersImplementAgreement == Spec => ImplementsAgreement
BY AgreedInit, AgreedStep, Agreement, PTL DEF Spec, ImplementsAgreement, Agreed!Spec

\* So the promise's consequences are the servers'.
Promise == INSTANCE PaymentAgreementProofs WITH
  approved <- authorized, answer <- Told, sent <- paid, found <- served

\* The two instances say the same.
LEMMA AgreedIsPromise == Agreed!Spec => Promise!Spec
<1>1. Agreed!Init => Promise!Init
  BY DEF Agreed!Init, Promise!Init, Told
<1>2. [Agreed!Next]_(Agreed!vars) => [Promise!Next]_(Promise!vars)
  BY DEF Agreed!Next, Agreed!vars, Promise!Next, Promise!vars, Told, Agreed!Approve,
     Agreed!Refuse, Agreed!Pay, Agreed!PayLate, Agreed!GiveUp, Agreed!Find, Agreed!Refusals,
     Promise!Approve, Promise!Refuse, Promise!Pay, Promise!PayLate, Promise!GiveUp,
     Promise!Find, Promise!Refusals
<1>3. QED
  BY <1>1, <1>2, PTL DEF Agreed!Spec, Promise!Spec

\* What callers of /payment were told is so, whatever is lost and whoever dies.
THEOREM CallersToldRight == Spec => []CallersTold
<1>1. Promise!Consistent => CallersTold
  BY DEF Promise!Consistent, Promise!Refusals, CallersTold, Told, Returned
<1>2. QED
  BY <1>1, AgreedIsPromise, ServersImplementAgreement, Promise!AllAgree, PTL
     DEF ImplementsAgreement

\* ... and stays so: neither a crash nor a late answer changes what was said, and
\* the payment of a request that was answered 200, pending or denied is settled.
THEOREM AnswersStand ==
  Spec => [][\A a \in Requests :
               front[a] \in {"paid", "pending", "denied"} =>
                 front'[a] = front[a] /\ (a \in paid' <=> a \in paid)]_vars
<1>1. [/\ authorized \subseteq authorized' /\ paid \subseteq paid'
       /\ \A a \in Requests :
            /\ Told[a] # "open" => Told'[a] = Told[a]
            /\ Told[a] \in {"paid", "pending", "denied"} => (a \in paid' <=> a \in paid)
            /\ served[a] # "none" => served'[a] = served[a]]_(Promise!vars)
      => [\A a \in Requests :
            front[a] \in {"paid", "pending", "denied"} =>
              front'[a] = front[a] /\ (a \in paid' <=> a \in paid)]_vars
  BY DEF Promise!vars, Told, Returned
<1>2. QED
  BY <1>1, AgreedIsPromise, ServersImplementAgreement, Promise!AgreementStands, PTL
     DEF ImplementsAgreement, Promise!NothingTakenBack

-----------------------------------------------------------------------------
(* The allow lists.                                                           *)

\* What an ALLOW, a REMOVE and every other step do to the list of someone who is on
\* it once.
LEMMA ListStep ==
  ASSUME TypeOK, NEW v \in Who, OneRow(v), ListExact(v), [Next]_vars
  PROVE  ListExact(v)'
<1> USE DEF ListExact
<1>1. CASE HandlerAllowAccess
  <2>1. PICK w \in Who, k \in Keys :
          /\ grants' = grants \cup {[id |-> nextId, who |-> w, key |-> k]}
          /\ excluded' = excluded \ {w}
          /\ remover' = [q \in Removers |->
                           IF remover[q] # Idle /\ remover[q].who = w
                             THEN Removing(remover[q].id, w, FALSE) ELSE remover[q]]
    BY <1>1 DEF HandlerAllowAccess
  <2>2. ASSUME NEW q \in Removers, remover'[q] # Idle, remover'[q].who = v,
               remover'[q].sole, NEW g \in grants', g.who = v
        PROVE  g.id = remover'[q].id
    <3>1. CASE remover[q] # Idle /\ remover[q].who = w
      <4>1. remover'[q] = Removing(remover[q].id, w, FALSE)
        BY <2>1, <3>1
      <4>2. QED
        BY <2>2, <4>1 DEF Removing
    <3>2. CASE ~(remover[q] # Idle /\ remover[q].who = w)
      <4>1. remover'[q] = remover[q]
        BY <2>1, <3>2
      <4>2. remover[q] # Idle /\ g.who # w
        BY <2>2, <3>2, <4>1
      <4>3. g \in grants \/ g.who = w
        BY <2>1
      <4>4. QED
        BY <2>2, <4>1, <4>2, <4>3
    <3>3. QED
      BY <3>1, <3>2
  <2>3. v \in excluded' => ~Allowed(v)'
    BY <2>1 DEF Allowed
  <2>4. QED
    BY <2>2, <2>3
<1>2. ASSUME NEW q \in Removers, FindGrant(q)
      PROVE  ListExact(v)'
  <2>1. PICK g \in grants : remover' = [remover EXCEPT ![q] = Removing(g.id, g.who, TRUE)]
    BY <1>2 DEF FindGrant
  <2>2. UNCHANGED <<grants, excluded>>
    BY <1>2 DEF FindGrant
  <2>3. ASSUME NEW p \in Removers, remover'[p] # Idle, remover'[p].who = v,
               remover'[p].sole, NEW h \in grants, h.who = v
        PROVE  h.id = remover'[p].id
    <3>1. CASE p = q
      <4>1. remover'[p] = Removing(g.id, g.who, TRUE)
        BY <2>1, <3>1 DEF TypeOK
      <4>2. h = g
        BY <2>3, <4>1 DEF Removing, OneRow
      <4>3. QED
        BY <4>1, <4>2 DEF Removing
    <3>2. CASE p # q
      BY <2>1, <2>3, <3>2 DEF TypeOK
    <3>3. QED
      BY <3>1, <3>2
  <2>4. QED
    BY <2>2, <2>3 DEF Allowed
<1>3. ASSUME NEW q \in Removers, DeleteGrant(q) \/ RemoveFails(q)
      PROVE  ListExact(v)'
  <2>1. /\ grants' \subseteq grants
        /\ \A p \in Removers : remover'[p] # Idle => remover'[p] = remover[p]
    BY <1>3 DEF DeleteGrant, RemoveFails, TypeOK
  <2>2. v \in excluded => ~Allowed(v)'
    BY <2>1 DEF Allowed
  <2>3. v \in excluded' => ~Allowed(v)'
    <3>1. CASE RemoveFails(q)
      BY <2>2, <3>1 DEF RemoveFails
    <3>2. CASE DeleteGrant(q) /\ remover[q].sole
      <4>1. remover[q].who = v => \A g \in grants' : g.who # v
        BY <3>2 DEF DeleteGrant
      <4>2. QED
        BY <2>2, <3>2, <4>1 DEF DeleteGrant, Allowed
    <3>3. CASE DeleteGrant(q) /\ ~remover[q].sole
      BY <2>2, <3>3 DEF DeleteGrant
    <3>4. QED
      BY <1>3, <3>1, <3>2, <3>3
  <2>4. QED
    BY <2>1, <2>3
<1>4. CASE ReceiverCrash
  BY <1>4 DEF ReceiverCrash, Allowed
<1>5. CASE UNCHANGED <<grants, remover, excluded>>
  BY <1>5 DEF Allowed
<1>6. ASSUME NEW a \in Requests, Sender(a) \/ HandlerAuth(a) \/ HandlerReceive(a)
      PROVE  UNCHANGED <<grants, remover, excluded>>
  BY <1>6 DEF Sender, Payment, HandlerSend, SendFails, AuthAnswered, SubmitPayment,
     LateApply, HandlerAuth, CheckAuth, AskSanctions, UserInfo, AskUserAnswers, GetAllowedFi,
     GetAllowedUser, CheckList, FetchInfo, PersistAuthorized, PersistAuthorizedFails,
     AuthFails, HandlerReceive, listVars
<1>7. QED
  BY <1>1, <1>2, <1>3, <1>4, <1>5, <1>6 DEF Next, HandlerRemoveAccess, Serve,
     SenderCrash, listVars, vars

\* The institution stays on its list once, under whatever keys.
LEMMA InstitutionStep ==
  ASSUME TypeOK, InstitutionExact, [Next]_vars
  PROVE  InstitutionExact'
<1>1. ListExact(Institution)'
  BY ListStep DEF InstitutionExact, Who
<1>2. CASE HandlerAllowAccess
  <2>1. PICK w \in Who, k \in Keys :
          /\ ~\E g \in grants : Conflicts(g, w, k)
          /\ grants' = grants \cup {[id |-> nextId, who |-> w, key |-> k]}
    BY <1>2 DEF HandlerAllowAccess
  <2>2. w = Institution => \A g \in grants : g.who # Institution
    BY <2>1 DEF Conflicts
  <2>3. OneRow(Institution)'
    BY <2>1, <2>2 DEF InstitutionExact, OneRow
  <2>4. QED
    BY <1>1, <2>3 DEF InstitutionExact
<1>3. CASE ~HandlerAllowAccess
  <2>1. grants' \subseteq grants
    BY <1>3 DEF Next, Sender, Payment, HandlerSend, SendFails, AuthAnswered, SubmitPayment,
       LateApply, HandlerAuth, CheckAuth, AskSanctions, UserInfo, AskUserAnswers,
       GetAllowedFi, GetAllowedUser, CheckList, FetchInfo, PersistAuthorized,
       PersistAuthorizedFails, AuthFails, HandlerReceive, HandlerRemoveAccess, FindGrant,
       DeleteGrant, RemoveFails, Serve, ReceiverCrash, SenderCrash, listVars, vars
  <2>2. QED
    BY <1>1, <2>1 DEF InstitutionExact, OneRow
<1>4. QED
  BY <1>2, <1>3

\* A request that found nobody allowed gets nothing until somebody is.
LEMMA BarredStep ==
  ASSUME TypeOK, HandlerOrder, InstitutionExact, UsersExact, BarredGetNothing, [Next]_vars
  PROVE  BarredGetNothing'
<1> USE DEF BarredGetNothing
<1>1. ASSUME NEW a \in Requests, HandlerSend(a)
      PROVE  BarredGetNothing'
  <2>1. a \in barred' /\ a \notin barred => ~Allowed(User[a]) /\ ~Allowed(Institution)
    BY <1>1 DEF HandlerSend, InstitutionExact, UsersExact, ListExact
  <2>2. QED
    BY <1>1, <2>1 DEF HandlerSend, HandlerOrder, Allowed, TypeOK, ToHandler
<1>2. ASSUME NEW a \in Requests,
             \/ Payment(a) \/ SendFails(a) \/ AuthAnswered(a)
             \/ SubmitPayment(a) \/ LateApply(a)
      PROVE  BarredGetNothing'
  BY <1>2 DEF Payment, SendFails, AuthAnswered, SubmitPayment, LateApply, Allowed, TypeOK,
     ToHandler, listVars
<1>3. ASSUME NEW a \in Requests, HandlerAuth(a)
      PROVE  BarredGetNothing'
  <2> USE DEF TypeOK, ToHandler, Allowed, listVars
  <2>1. CASE CheckAuth(a) \/ AskSanctions(a) \/ UserInfo(a)
    BY <2>1 DEF CheckAuth, AskSanctions, UserInfo
  <2>2. CASE AskUserAnswers(a)
    <3>1. AskUser
      BY <2>2 DEF AskUserAnswers, HandlerOrder
    <3>2. QED
      BY <2>2, <3>1 DEF AskUserAnswers
  <2>3. CASE GetAllowedFi(a) \/ GetAllowedUser(a)
    BY <2>3 DEF GetAllowedFi, GetAllowedUser, CheckList
  <2>4. CASE FetchInfo(a) \/ AuthFails(a)
    BY <2>4 DEF FetchInfo, AuthFails
  <2>5. CASE PersistAuthorized(a) \/ PersistAuthorizedFails(a)
    BY <2>5 DEF PersistAuthorized, PersistAuthorizedFails
  <2>6. QED
    BY <1>3, <2>1, <2>2, <2>3, <2>4, <2>5 DEF HandlerAuth
<1>4. ASSUME NEW a \in Requests, HandlerReceive(a)
      PROVE  BarredGetNothing'
  BY <1>4 DEF HandlerReceive, authVars, listVars, Allowed
<1>5. CASE HandlerAllowAccess
  <2>1. PICK w \in Who, k \in Keys :
          /\ grants' = grants \cup {[id |-> nextId, who |-> w, key |-> k]}
          /\ barred' = IF w = Institution THEN {} ELSE {a \in barred : User[a] # w}
    BY <1>5 DEF HandlerAllowAccess
  <2>2. \A g \in grants' : g \in grants \/ g.who = w
    BY <2>1
  <2>3. \A a \in barred' : a \in barred /\ User[a] # w /\ Institution # w
    BY <2>1
  <2>4. QED
    BY <1>5, <2>2, <2>3, ListsApart DEF Allowed
<1>6. CASE \E q \in Removers : HandlerRemoveAccess(q)
  <2>1. grants' \subseteq grants /\ barred' = barred
    BY <1>6 DEF HandlerRemoveAccess, FindGrant, DeleteGrant, RemoveFails
  <2>2. QED
    BY <1>6, <2>1, ListsApart DEF Allowed
<1>7. CASE Serve \/ ReceiverCrash \/ SenderCrash \/ UNCHANGED vars
  BY <1>7 DEF Serve, authVars, ReceiverCrash, SenderCrash, vars, listVars, Allowed, TypeOK
<1>8. QED
  BY <1>1, <1>2, <1>3, <1>4, <1>5, <1>6, <1>7 DEF Next, Sender

\* /remove_access is exact for an institution, under whatever keys it was allowed,
\* in whatever order removals and new permissions come and whoever dies meanwhile:
\* once answered 200, unless the institution was allowed since, no row is left.
THEOREM InstitutionRemoved == Spec => [](Institution \in excluded => ~Allowed(Institution))
<1>1. Init => TypeOK /\ InstitutionExact
  BY TypeInit DEF Init, InstitutionExact, OneRow, ListExact, Allowed
<1>2. TypeOK /\ InstitutionExact /\ [Next]_vars => (TypeOK /\ InstitutionExact)'
  BY TypeStep, InstitutionStep
<1>3. InstitutionExact => (Institution \in excluded => ~Allowed(Institution))
  BY DEF InstitutionExact, ListExact
<1>4. QED
  BY <1>1, <1>2, <1>3, PTL DEF Spec

\* So requests that arrive when their user and the institution are excluded get no
\* info until one is allowed anew, as long as no user is on the list under two keys
\* at once, which the table's own key does not prevent.
THEOREM RemovalWorks == Spec /\ []UsersOnce => []RevokedGetsNoInfo
<1>1. Init => AccessInv
  BY TypeInit DEF Init, AccessInv, HandlerOrder, InstitutionExact, UsersExact, OneRow,
     ListExact, Allowed, BarredGetNothing, Approved
<1>2. ASSUME AccessInv, UsersOnce, [Next]_vars  PROVE UsersExact'
  BY <1>2, ListStep DEF AccessInv, UsersExact, UsersOnce, Who
<1>3. AccessInv /\ UsersOnce /\ [Next]_vars => AccessInv'
  BY <1>2, TypeStep, HandlerOrderStep, InstitutionStep, BarredStep DEF AccessInv
<1>4. AccessInv => RevokedGetsNoInfo
  BY DEF AccessInv, BarredGetNothing, RevokedGetsNoInfo
<1>5. QED
  BY <1>1, <1>3, <1>4, PTL DEF Spec

=============================================================================
