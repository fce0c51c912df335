------------------------ MODULE PaymentEndpointProofs ------------------------
(* Proofs about PaymentEndpoint, for any requests, payloads and destinations. *)
EXTENDS PaymentEndpoint, FiniteSetTheorems, TLAPS

-----------------------------------------------------------------------------
(* The inductive invariant.                                                   *)

\* What a request has, by where it is.
Phase ==
  \A r \in Requests :
    /\ pc[r] \in {"idle", "dest", "source", "unsent"} => num[r] = 0
    /\ pc[r] \in {"source", "submit", "wait"} => op[r] # "none"
    /\ pc[r] \in {"submit", "wait"} => num[r] # 0
    /\ answer[r] = "none" <=> pc[r] \notin {"done", "unsent"}
    /\ answer[r] = "ok" => pc[r] = "done"

\* A transaction is pending or on the ledger, with one result, and uses up its
\* number.
LedgerInv ==
  /\ \A t \in pool : t.num # 0
  /\ \A x \in applied : x.tx.num # 0 /\ x.tx.num <= ledgerSeq /\ x.tx \notin pool
  /\ \A x, y \in applied : x.tx = y.tx => x.code = y.code

\* What the network has was sent by a request that no longer changes it.
Sent(t) == \E q \in Requests : pc[q] \in {"wait", "done"} /\ Tx(q) = t
AllSent == (\A t \in pool : Sent(t)) /\ (\A x \in applied : Sent(x.tx))

\* 200 is given for what is on the ledger, and for success only, unless the
\* operation was a create_account.
OkOnLedger ==
  \A r \in Requests :
    answer[r] = "ok" =>
      \E x \in applied : /\ x.tx = Tx(r)
                         /\ op[r] = "create_account" \/ x.code = "success"

\* A later request's number is above those of the requests answered before it.
Ordered ==
  \A r \in Requests : \A q \in earlier[r] :
    /\ answer[q] = "ok"
    /\ Payload[r] \notin Trust /\ num[r] # 0 => num[q] < num[r]

\* A transaction that failed for good stays so, unless another request has sent the
\* same one.
Unpaid(t) == t \notin pool /\ \A x \in applied : x.tx = t => x.code # "success"
Twin(r, q) == q # r /\ pc[q] \in {"wait", "done"} /\ Tx(q) = Tx(r)
FailedForGood ==
  \A r \in Requests :
    answer[r] \notin {"none", "ok", "internal_server_error"} =>
      Unpaid(Tx(r)) \/ \E q \in Requests : Twin(r, q)

Inv == /\ TypeOK /\ Phase /\ LedgerInv /\ AllSent
       /\ OkOnLedger /\ Ordered /\ FailedForGood

-----------------------------------------------------------------------------
(* Answers and types.                                                         *)

\* What ErrorFromHorizonResponse makes of a result on the ledger: 200 for nothing
\* but success and what a create_account came to, and never an error for success.
LEMMA AnswerToResult ==
  ASSUME NEW o \in Op, NEW c \in Result
  PROVE  LET e == ErrorFromHorizonResponse(o, c)
         IN  /\ e \in Answers \ {"none"}
             /\ e = "ok" => c = "success" \/ o = "create_account"
             /\ e \notin {"ok", "internal_server_error"} => c # "success"
  BY DEF ErrorFromHorizonResponse, Op, Result, Answers, OperationErrors,
         TransactionErrors, PaymentErrors, PathPaymentErrors, AllowTrustErrors,
         CreateAccountErrors

\* A refused transaction is never answered 200.
LEMMA AnswerToRefusal ==
  ASSUME NEW o \in Op, NEW c \in Refusals
  PROVE  ErrorFromHorizonResponse(o, c) \in Answers \ {"none", "ok"}
  BY DEF ErrorFromHorizonResponse, Op, Answers, Refusals, OperationErrors,
         TransactionErrors, PaymentErrors, PathPaymentErrors, AllowTrustErrors,
         CreateAccountErrors

\* What the ledger makes of an operation is a known result.
LEMMA ResultsKnown ==
  ASSUME NEW o \in Op, NEW d PROVE Results(o, d) \subseteq Result
  BY DEF Results, Result, Op, OperationErrors, PaymentErrors, PathPaymentErrors,
         AllowTrustErrors, CreateAccountErrors

\* Every step keeps the types.
LEMMA TypeStep == TypeOK /\ Phase /\ [Next]_vars => TypeOK'
<1> SUFFICES ASSUME TypeOK, Phase, [Next]_vars PROVE TypeOK'
  OBVIOUS
<1> USE DEF netVars, Goto, Return, ReturnUnsent, Arrive
<1>1. ASSUME NEW r \in Requests, Payment(r) \/ LoadDestination(r)
      PROVE  TypeOK'
  BY <1>1 DEF Payment, LoadDestination, PayOp, TypeOK, PC, Op
<1>2. ASSUME NEW r \in Requests, LoadSource(r) \/ Authorize(r)
      PROVE  TypeOK'
  <2>1. num' \in [Requests -> Nat]
    BY <1>2, BoundsAssumption DEF LoadSource, Authorize, TypeOK
  <2>2. QED
    BY <1>2, <2>1 DEF LoadSource, Authorize, TypeOK, PC, Op
<1>3. ASSUME NEW r \in Requests, ValidateFails(r) \/ Reject(r)
                                 \/ SubmitFails(r) \/ NoAnswer(r)
      PROVE  TypeOK'
  BY <1>3 DEF ValidateFails, Reject, SubmitFails, NoAnswer, TypeOK, PC, Answers
<1>4. ASSUME NEW r \in Requests, Submit(r)
      PROVE  TypeOK'
  <2>1. Tx(r) \in Envelope
    BY <1>4 DEF Submit, Tx, Envelope, TypeOK, Phase, Payloads
  <2>2. QED
    BY <1>4, <2>1 DEF Submit, TypeOK, PC
<1>5. ASSUME NEW r \in Requests, AnswerApplied(r)
      PROVE  TypeOK'
  <2>1. op[r] \in Op
    BY <1>5 DEF AnswerApplied, TypeOK, Phase
  <2>2. PICK c \in Result : Return(r, ErrorFromHorizonResponse(op[r], c))
    BY <1>5 DEF AnswerApplied
  <2>3. ErrorFromHorizonResponse(op[r], c) \in Answers
    BY <2>1, AnswerToResult
  <2>4. QED
    BY <1>5, <2>2, <2>3 DEF AnswerApplied, TypeOK, PC
<1>6. ASSUME NEW r \in Requests, AnswerRejected(r)
      PROVE  TypeOK'
  <2>1. op[r] \in Op
    BY <1>6 DEF AnswerRejected, TypeOK, Phase
  <2>2. PICK c \in Refusals : Return(r, ErrorFromHorizonResponse(op[r], c))
    BY <1>6 DEF AnswerRejected
  <2>3. ErrorFromHorizonResponse(op[r], c) \in Answers
    BY <2>1, AnswerToRefusal
  <2>4. QED
    BY <1>6, <2>2, <2>3 DEF AnswerRejected, TypeOK, PC
<1>7. CASE Apply
  <2>1. PICK t \in pool : \E c \in Results(t.op, Dest[t.pay]) :
          /\ pool' = pool \ {t}
          /\ applied' = applied \cup {[tx |-> t, code |-> c]}
          /\ exists' = IF t.op = "create_account" /\ c = "success"
                         THEN exists \cup {Dest[t.pay]} ELSE exists
    BY <1>7 DEF Apply
  <2>2. t \in Envelope /\ t.op \in Op /\ t.pay \in Payloads
    BY DEF TypeOK, Envelope
  <2>3. Results(t.op, Dest[t.pay]) \subseteq Result
    BY <2>2, ResultsKnown
  <2>4. QED
    BY <1>7, <2>1, <2>2, <2>3 DEF Apply, TypeOK
<1>8. CASE ForeignTransaction
  BY <1>8 DEF ForeignTransaction, TypeOK
<1>9. CASE UNCHANGED vars
  BY <1>9 DEF vars, TypeOK
<1>10. QED
  BY <1>1, <1>2, <1>3, <1>4, <1>5, <1>6, <1>7, <1>8, <1>9 DEF Next, Handle

\* Every step keeps what a request has, by where it is.
LEMMA PhaseStep == TypeOK /\ Phase /\ [Next]_vars => Phase'
<1> SUFFICES ASSUME TypeOK, Phase, [Next]_vars PROVE Phase'
  OBVIOUS
<1> USE DEF netVars, Goto, Return, ReturnUnsent, Arrive
<1>1. ASSUME NEW r \in Requests, Payment(r) \/ LoadDestination(r)
      PROVE  Phase'
  BY <1>1 DEF Payment, LoadDestination, PayOp, TypeOK, Phase
<1>2. ASSUME NEW r \in Requests, LoadSource(r)
      PROVE  Phase'
  BY <1>2 DEF LoadSource, TypeOK, Phase
<1>3. ASSUME NEW r \in Requests, Authorize(r)
      PROVE  Phase'
  BY <1>3, BoundsAssumption DEF Authorize, TypeOK, Phase
<1>4. ASSUME NEW r \in Requests,
             Submit(r) \/ ValidateFails(r) \/ Reject(r) \/ SubmitFails(r)
             \/ NoAnswer(r)
      PROVE  Phase'
  BY <1>4 DEF Submit, ValidateFails, Reject, SubmitFails, NoAnswer, TypeOK, Phase
<1>5. ASSUME NEW r \in Requests, AnswerApplied(r) \/ AnswerRejected(r)
      PROVE  Phase'
  <2>1. op[r] \in Op /\ pc[r] = "wait"
    BY <1>5 DEF AnswerApplied, AnswerRejected, TypeOK, Phase
  <2>2. PICK e \in Answers \ {"none"} : Return(r, e)
    BY <1>5, <2>1, AnswerToResult, AnswerToRefusal DEF AnswerApplied, AnswerRejected
  <2>3. op' = op /\ num' = num
    BY <1>5 DEF AnswerApplied, AnswerRejected
  <2>4. QED
    BY <2>1, <2>2, <2>3 DEF TypeOK, Phase
<1>6. CASE Apply \/ ForeignTransaction \/ UNCHANGED vars
  BY <1>6 DEF Apply, ForeignTransaction, vars, Phase
<1>7. QED
  BY <1>1, <1>2, <1>3, <1>4, <1>5, <1>6 DEF Next, Handle

-----------------------------------------------------------------------------
(* The network.                                                               *)

\* Every step keeps one result for each transaction, pending or applied.
LEMMA LedgerStep == TypeOK /\ Phase /\ LedgerInv /\ [Next]_vars => LedgerInv'
<1> SUFFICES ASSUME TypeOK, Phase, LedgerInv, [Next]_vars PROVE LedgerInv'
  OBVIOUS
<1> USE DEF netVars
<1>1. ASSUME NEW r \in Requests, Submit(r)
      PROVE  LedgerInv'
  <2>1. Tx(r).num # 0
    BY <1>1 DEF Submit, Tx, Phase
  <2>2. CASE OnLedger(Tx(r))
    BY <1>1, <2>2 DEF Submit, LedgerInv
  <2>3. CASE ~OnLedger(Tx(r))
    <3>1. \A x \in applied : x.tx # Tx(r)
      BY <2>3 DEF OnLedger, Applied, TypeOK
    <3>2. QED
      BY <1>1, <2>1, <2>3, <3>1 DEF Submit, LedgerInv
  <2>4. QED
    BY <2>2, <2>3
<1>2. ASSUME NEW r \in Requests, AnswerRejected(r) \/ NoAnswer(r)
      PROVE  LedgerInv'
  BY <1>2 DEF AnswerRejected, NoAnswer, LedgerInv
<1>3. CASE Apply
  <2>1. PICK t \in pool : \E c : /\ t.num = ledgerSeq + 1
                                 /\ pool' = pool \ {t}
                                 /\ applied' = applied \cup {[tx |-> t, code |-> c]}
    BY <1>3 DEF Apply
  <2>2. ledgerSeq \in Nat /\ ledgerSeq' = ledgerSeq + 1 /\ t.num # 0
    BY <1>3 DEF Apply, TypeOK, LedgerInv
  <2>3. \A x \in applied : x.tx # t /\ x.tx.num \in Nat
    BY DEF LedgerInv, TypeOK, Envelope
  <2>4. QED
    BY <2>1, <2>2, <2>3 DEF LedgerInv
<1>4. CASE ForeignTransaction
  <2>1. \A x \in applied : x.tx.num \in Nat
    BY DEF TypeOK, Envelope
  <2>2. QED
    BY <1>4, <2>1 DEF ForeignTransaction, TypeOK, LedgerInv
<1>5. ASSUME UNCHANGED <<pool, applied, ledgerSeq>>
      PROVE  LedgerInv'
  BY <1>5 DEF LedgerInv
<1>6. QED
  BY <1>1, <1>2, <1>3, <1>4, <1>5
  DEF Next, Handle, Payment, LoadDestination, ValidateFails, Reject, LoadSource,
      Authorize,
      SubmitFails, AnswerApplied, vars

\* A request that has sent its transaction keeps it, and so does one that is answered.
LEMMA SentKept ==
  ASSUME TypeOK, [Next]_vars, NEW q \in Requests,
         pc[q] \in {"wait", "done", "unsent"}
  PROVE  /\ Tx(q)' = Tx(q)
         /\ pc[q] \in {"wait", "done"} => pc[q]' \in {"wait", "done"}
<1> USE DEF netVars, Goto, Return, ReturnUnsent, TypeOK, Tx
<1>1. ASSUME NEW r \in Requests, Payment(r) \/ LoadDestination(r) \/ LoadSource(r)
                                 \/ Authorize(r)
      PROVE  Tx(q)' = Tx(q) /\ pc[q]' = pc[q]
  BY <1>1 DEF Payment, LoadDestination, LoadSource, Authorize
<1>2. ASSUME NEW r \in Requests, ValidateFails(r) \/ Reject(r)
                                 \/ SubmitFails(r) \/ Submit(r)
                                 \/ AnswerApplied(r) \/ AnswerRejected(r) \/ NoAnswer(r)
      PROVE  /\ Tx(q)' = Tx(q)
             /\ pc[q] \in {"wait", "done"} => pc[q]' \in {"wait", "done"}
  BY <1>2 DEF ValidateFails, Reject, SubmitFails, Submit, AnswerApplied,
              AnswerRejected, NoAnswer
<1>3. CASE Apply \/ ForeignTransaction \/ UNCHANGED vars
  BY <1>3 DEF Apply, ForeignTransaction, vars
<1>4. QED
  BY <1>1, <1>2, <1>3 DEF Next, Handle

\* Every step keeps that the network has what requests sent.
LEMMA SentStep == TypeOK /\ AllSent /\ [Next]_vars => AllSent'
<1> SUFFICES ASSUME TypeOK, AllSent, [Next]_vars PROVE AllSent'
  OBVIOUS
<1>1. ASSUME NEW t, Sent(t) PROVE Sent(t)'
  BY <1>1, SentKept DEF Sent
<1>2. ASSUME NEW t \in pool' PROVE t \in pool \/ Sent(t)'
  <2>1. ASSUME NEW r \in Requests, Submit(r), t = Tx(r) PROVE Sent(t)'
    BY <2>1 DEF Submit, Goto, TypeOK, Sent, Tx
  <2>2. QED
    BY <1>2, <2>1
    DEF Next, Handle, Payment, LoadDestination, ValidateFails, Reject,
        LoadSource, Authorize,
        Submit, SubmitFails, AnswerApplied, AnswerRejected, NoAnswer, Apply,
        ForeignTransaction, netVars, vars
<1>3. ASSUME NEW x \in applied' PROVE x \in applied \/ x.tx \in pool
  BY <1>3
  DEF Next, Handle, Payment, LoadDestination, ValidateFails, Reject, LoadSource,
      Authorize,
      Submit, SubmitFails, AnswerApplied, AnswerRejected, NoAnswer, Apply,
      ForeignTransaction, netVars, vars
<1>4. QED
  BY <1>1, <1>2, <1>3 DEF AllSent

-----------------------------------------------------------------------------
(* The answers.                                                               *)

\* The ledger forgets nothing.
LEMMA LedgerGrows == ASSUME [Next]_vars PROVE applied \subseteq applied'
  BY DEF Next, Handle, Payment, LoadDestination, ValidateFails, Reject,
         LoadSource, Authorize,
         Submit, SubmitFails, AnswerApplied, AnswerRejected, NoAnswer, Apply,
         ForeignTransaction, netVars, vars

\* A step answers no request but the one it handles.
LEMMA AnswerKept ==
  ASSUME TypeOK, [Next]_vars, NEW q \in Requests
  PROVE  \/ answer[q]' = answer[q]
         \/ ValidateFails(q) \/ Reject(q) \/ SubmitFails(q) \/ NoAnswer(q)
         \/ AnswerApplied(q) \/ AnswerRejected(q)
<1> USE DEF netVars, Return, ReturnUnsent, TypeOK
<1>1. ASSUME NEW r \in Requests,
             ValidateFails(r) \/ Reject(r) \/ SubmitFails(r) \/ NoAnswer(r)
             \/ AnswerApplied(r)
             \/ AnswerRejected(r)
      PROVE  answer[q]' = answer[q] \/ q = r
  BY <1>1 DEF ValidateFails, Reject, SubmitFails, NoAnswer, AnswerApplied,
              AnswerRejected
<1>2. ASSUME UNCHANGED answer PROVE answer[q]' = answer[q]
  BY <1>2
<1>3. QED
  BY <1>1, <1>2 DEF Next, Handle, Payment, LoadDestination, LoadSource, Authorize,
                    Submit, Apply, ForeignTransaction, vars

\* What AnswerApplied says to the caller, and of which transaction.
LEMMA AnsweredApplied ==
  ASSUME TypeOK, Phase, NEW r \in Requests, AnswerApplied(r)
  PROVE  \E x \in applied :
           /\ x.tx = Tx(r)
           /\ answer[r]' = "ok" => x.code = "success" \/ op[r] = "create_account"
           /\ answer[r]' \notin {"ok", "internal_server_error"} => x.code # "success"
<1>1. op[r] \in Op
  BY DEF AnswerApplied, TypeOK, Phase
<1>2. PICK c \in Result : Applied(Tx(r), c)
                          /\ answer[r]' = ErrorFromHorizonResponse(op[r], c)
  BY DEF AnswerApplied, Return, TypeOK
<1>3. QED
  BY <1>1, <1>2, AnswerToResult DEF Applied

\* A refusal is not a success.
LEMMA AnsweredRejected ==
  ASSUME TypeOK, Phase, NEW r \in Requests, AnswerRejected(r)
  PROVE  answer[r]' # "ok"
<1>1. op[r] \in Op
  BY DEF AnswerRejected, TypeOK, Phase
<1>2. QED
  BY <1>1, AnswerToRefusal DEF AnswerRejected, Return, TypeOK

\* Every step keeps that 200 is given for what is on the ledger.
LEMMA OkStep == TypeOK /\ Phase /\ OkOnLedger /\ [Next]_vars => OkOnLedger'
<1> SUFFICES ASSUME TypeOK, Phase, OkOnLedger, [Next]_vars,
                    NEW r \in Requests, answer[r]' = "ok"
             PROVE  \E x \in applied' :
                      /\ x.tx = Tx(r)'
                      /\ op[r]' = "create_account" \/ x.code = "success"
  BY DEF OkOnLedger
<1>1. pc[r] \in {"wait", "done"} => Tx(r)' = Tx(r) /\ op[r]' = op[r]
  BY SentKept DEF Tx
<1>2. CASE answer[r] = "ok"
  <2>1. pc[r] = "done"
    BY <1>2 DEF Phase
  <2>2. QED
    BY <1>1, <1>2, <2>1, LedgerGrows DEF OkOnLedger
<1>3. CASE AnswerApplied(r)
  <2>1. pc[r] = "wait"
    BY <1>3 DEF AnswerApplied
  <2>2. QED
    BY <1>1, <1>3, <2>1, AnsweredApplied, LedgerGrows
<1>4. CASE ValidateFails(r) \/ Reject(r) \/ SubmitFails(r) \/ NoAnswer(r)
  BY <1>4 DEF ValidateFails, Reject, SubmitFails, NoAnswer, Return, ReturnUnsent, TypeOK
<1>5. QED
  BY <1>2, <1>3, <1>4, AnswerKept, AnsweredRejected

\* A request answered 200 has a number the ledger is past.
LEMMA OkIsPast ==
  ASSUME TypeOK, LedgerInv, OkOnLedger, NEW q \in Requests, answer[q] = "ok"
  PROVE  num[q] # 0 /\ num[q] <= ledgerSeq
<1>1. PICK x \in applied : x.tx = Tx(q)
  BY DEF OkOnLedger
<1>2. x.tx.num # 0 /\ x.tx.num <= ledgerSeq
  BY DEF LedgerInv
<1>3. x.tx.num = num[q]
  BY <1>1 DEF Tx
<1>4. QED
  BY <1>2, <1>3

\* Every step keeps the order of numbers.
LEMMA OrderStep ==
  TypeOK /\ Phase /\ LedgerInv /\ OkOnLedger /\ Ordered /\ [Next]_vars => Ordered'
<1> SUFFICES ASSUME TypeOK, Phase, LedgerInv, OkOnLedger, Ordered, [Next]_vars,
                    NEW r \in Requests, NEW q \in earlier[r]'
             PROVE  /\ answer[q]' = "ok"
                    /\ Payload[r] \notin Trust /\ num[r]' # 0 => num[q]' < num[r]'
  BY DEF Ordered
<1>1. q \in Requests
  BY TypeStep DEF TypeOK
<1>2. answer[q] = "ok" => answer[q]' = "ok" /\ num[q]' = num[q]
  <2>1. answer[q] = "ok" => pc[q] = "done"
    BY <1>1 DEF Phase
  <2>2. pc[q] = "done" => Tx(q)' = Tx(q)
    BY <1>1, SentKept
  <2>3. pc[q] = "done" => answer[q]' = answer[q]
    BY <1>1, AnswerKept DEF ValidateFails, Reject, SubmitFails, NoAnswer,
                            AnswerApplied, AnswerRejected
  <2>4. QED
    BY <2>1, <2>2, <2>3 DEF Tx
<1>3. CASE earlier[r]' # earlier[r]
  <2>1. Payment(r) \/ Authorize(r)
    BY <1>3
    DEF Next, Handle, Payment, LoadDestination, ValidateFails, Reject,
        LoadSource, Authorize,
        Submit, SubmitFails, AnswerApplied, AnswerRejected, NoAnswer, Apply,
        ForeignTransaction, Arrive, vars, TypeOK
  <2>2. answer[q] = "ok"
    BY <2>1 DEF Payment, Authorize, Arrive, TypeOK
  <2>3. Payload[r] \notin Trust => num[r]' = 0
    BY <2>1 DEF Payment, Authorize, Phase
  <2>4. QED
    BY <1>2, <2>2, <2>3
<1>4. CASE earlier[r]' = earlier[r] /\ num[r]' = num[r]
  BY <1>2, <1>4 DEF Ordered
<1>5. CASE earlier[r]' = earlier[r] /\ num[r]' # num[r]
  <2>1. LoadSource(r) \/ Authorize(r) \/ num[r]' = 0
    BY <1>5
    DEF ReturnUnsent, Next, Handle, Payment, LoadDestination, ValidateFails, Reject,
        LoadSource, Authorize,
        Submit, SubmitFails, AnswerApplied, AnswerRejected, NoAnswer, Apply,
        ForeignTransaction, vars, TypeOK
  <2>2. answer[q] = "ok"
    BY <1>5 DEF Ordered
  <2>3. num[q] \in Nat /\ num[q] <= ledgerSeq /\ ledgerSeq \in Nat
    BY <1>1, <2>2, OkIsPast DEF TypeOK
  <2>4. Payload[r] \notin Trust => num[r]' \in {0, ledgerSeq + 1}
    BY <2>1 DEF LoadSource, Authorize, TypeOK
  <2>5. QED
    BY <1>2, <2>2, <2>3, <2>4
<1>6. QED
  BY <1>3, <1>4, <1>5

\* Every step keeps that a specific error is final.
LEMMA FinalStep ==
  TypeOK /\ Phase /\ LedgerInv /\ AllSent /\ FailedForGood /\ [Next]_vars
  => FailedForGood'
<1> SUFFICES ASSUME TypeOK, Phase, LedgerInv, AllSent, FailedForGood, [Next]_vars,
                    NEW r \in Requests,
                    answer[r]' \notin {"none", "ok", "internal_server_error"}
             PROVE  Unpaid(Tx(r))' \/ \E q \in Requests : Twin(r, q)'
  BY DEF FailedForGood
<1>1. CASE answer[r]' = answer[r]
  <2>1. Tx(r)' = Tx(r)
    BY <1>1, SentKept DEF Phase
  <2>2. CASE \E q \in Requests : Twin(r, q)
    BY <2>1, <2>2, SentKept DEF Twin
  <2>3. CASE Unpaid(Tx(r))
    <3>1. ASSUME NEW q \in Requests, Submit(q), Tx(q) = Tx(r) PROVE Twin(r, q)'
      <4>1. pc[q] = "submit" /\ pc[r] \in {"done", "unsent"}
        BY <1>1, <3>1 DEF Submit, Phase
      <4>2. QED
        BY <2>1, <3>1, <4>1 DEF Twin, Submit, Goto, TypeOK, Tx
    <3>2. Tx(r) \in pool' => \E q \in Requests : Submit(q) /\ Tx(q) = Tx(r)
      BY <2>3
      DEF Next, Handle, Payment, LoadDestination, ValidateFails, Reject,
          LoadSource, Authorize,
          Submit, SubmitFails, AnswerApplied, AnswerRejected, NoAnswer, Apply,
          ForeignTransaction, netVars, vars, Unpaid
    <3>3. \A x \in applied' : x \in applied \/ x.tx \in pool
      BY DEF Next, Handle, Payment, LoadDestination, ValidateFails, Reject,
             LoadSource, Authorize,
             Submit, SubmitFails, AnswerApplied, AnswerRejected, NoAnswer, Apply,
             ForeignTransaction, netVars, vars
    <3>4. QED
      BY <2>1, <2>3, <3>1, <3>2, <3>3 DEF Unpaid
  <2>4. QED
    BY <1>1, <2>2, <2>3 DEF FailedForGood
<1>2. CASE AnswerApplied(r)
  <2>1. PICK x \in applied : x.tx = Tx(r) /\ x.code # "success"
    BY <1>2, AnsweredApplied
  <2>2. Unpaid(Tx(r))
    BY <2>1 DEF LedgerInv, Unpaid
  <2>3. Tx(r)' = Tx(r)
    BY <1>2, SentKept DEF AnswerApplied
  <2>4. QED
    BY <1>2, <2>2, <2>3 DEF AnswerApplied, netVars, Unpaid
<1>3. CASE AnswerRejected(r)
  <2>1. Tx(r)' = Tx(r)
    BY <1>3, SentKept DEF AnswerRejected
  <2>2. \A x \in applied : x.tx # Tx(r)
    BY <1>3 DEF AnswerRejected, OnLedger, Applied, TypeOK
  <2>3. QED
    BY <1>3, <2>1, <2>2 DEF AnswerRejected, Unpaid
<1>4. CASE ValidateFails(r) \/ Reject(r)
  <2>1. Tx(r)'.num = 0 /\ pool' = pool /\ applied' = applied
    BY <1>4 DEF ValidateFails, Reject, ReturnUnsent, Tx, TypeOK, netVars
  <2>2. QED
    BY <2>1 DEF LedgerInv, Unpaid
<1>5. CASE SubmitFails(r) \/ NoAnswer(r)
  BY <1>5 DEF SubmitFails, NoAnswer, Return, ReturnUnsent, TypeOK
<1>6. QED
  BY <1>1, <1>2, <1>3, <1>4, <1>5, AnswerKept

-----------------------------------------------------------------------------
(* Theorems.                                                                  *)

\* The invariant holds in every state.
LEMMA Invariance == Spec => []Inv
<1>1. Init => Inv
  BY DEF Init, Inv, TypeOK, PC, Op, Answers, Phase, LedgerInv, AllSent, OkOnLedger,
         Ordered, FailedForGood
<1>2. Inv /\ [Next]_vars => Inv'
  BY TypeStep, PhaseStep, LedgerStep, SentStep, OkStep, OrderStep, FinalStep DEF Inv
<1>3. QED
  BY <1>1, <1>2, PTL DEF Spec

\* The handlers' state, the answers and the ledger are always of the right kind; an
\* answer is always one of the documented ones.
THEOREM TypeCorrect == Spec => []TypeOK
<1>1. Inv => TypeOK
  BY DEF Inv
<1>2. QED
  BY <1>1, Invariance, PTL

\* 200 of /payment and /authorize, whatever the requests, the network and others do
\* to the account, means a transaction that succeeded, unless it was a
\* create_account.
THEOREM OkPaid == Spec => []OkIsPaidUnlessCreated
<1>1. Inv => OkIsPaidUnlessCreated
  <2> SUFFICES ASSUME Inv, NEW r \in Requests, answer[r] = "ok",
                      op[r] # "create_account"
               PROVE  Applied(Tx(r), "success")
    BY DEF OkIsPaidUnlessCreated
  <2>1. PICK x \in applied : x.tx = Tx(r) /\ x.code = "success"
    BY DEF Inv, OkOnLedger
  <2>2. x = [tx |-> Tx(r), code |-> "success"]
    BY <2>1 DEF Inv, TypeOK
  <2>3. QED
    BY <2>2 DEF Applied
<1>2. QED
  BY <1>1, Invariance, PTL

\* Which requests can build a create_account: those that pay lumens.
CreatesLumens ==
  \A r \in Requests :
    pc[r] = "dest" \/ op[r] = "create_account" => Payload[r] \in Native

\* Only the way through LoadDestination builds a create_account.
LEMMA CreatesStep == TypeOK /\ CreatesLumens /\ [Next]_vars => CreatesLumens'
<1> SUFFICES ASSUME TypeOK, CreatesLumens, [Next]_vars PROVE CreatesLumens'
  OBVIOUS
<1> USE DEF CreatesLumens, TypeOK, Goto, Return, ReturnUnsent
<1>1. ASSUME NEW r \in Requests, Payment(r) \/ LoadDestination(r)
      PROVE  CreatesLumens'
  BY <1>1 DEF Payment, LoadDestination, PayOp
<1>2. ASSUME NEW r \in Requests, LoadSource(r) \/ Authorize(r) \/ Submit(r)
      PROVE  CreatesLumens'
  BY <1>2 DEF LoadSource, Authorize, Submit
<1>3. ASSUME NEW r \in Requests,
             \/ ValidateFails(r) \/ Reject(r) \/ SubmitFails(r)
             \/ AnswerApplied(r) \/ AnswerRejected(r) \/ NoAnswer(r)
      PROVE  CreatesLumens'
  BY <1>3 DEF ValidateFails, Reject, SubmitFails, AnswerApplied, AnswerRejected, NoAnswer
<1>4. CASE Apply \/ ForeignTransaction \/ UNCHANGED vars
  BY <1>4 DEF Apply, ForeignTransaction, vars
<1>5. QED
  BY <1>1, <1>2, <1>3, <1>4 DEF Next, Handle

\* Whoever pays in another asset than lumens, or authorizes, can rely on 200: what
\* CreateAccountResult lacks in ErrorFromHorizonResponse is all that is wrong.
THEOREM OkPaidUnlessLumens ==
  Spec => [](\A r \in Requests :
               answer[r] = "ok" /\ Payload[r] \notin Native => Applied(Tx(r), "success"))
<1>1. Init => CreatesLumens
  BY DEF Init, CreatesLumens
<1>2. Inv /\ CreatesLumens /\ [Next]_vars => CreatesLumens'
  BY CreatesStep DEF Inv
<1>3. CreatesLumens /\ OkIsPaidUnlessCreated =>
        \A r \in Requests :
          answer[r] = "ok" /\ Payload[r] \notin Native => Applied(Tx(r), "success")
  BY DEF CreatesLumens, OkIsPaidUnlessCreated
<1>4. QED
  BY <1>1, <1>2, <1>3, Invariance, OkPaid, PTL DEF Spec

\* /payment and /authorize submit once per request, and the ledger applies a
\* transaction once: nobody pays twice for a request.
THEOREM NobodyPaysTwice ==
  ASSUME IsFiniteSet(Requests)
  PROVE  Spec => []PaidNoMoreThanAsked
<1>1. Inv => PaidNoMoreThanAsked
  <2> SUFFICES ASSUME Inv, NEW p \in Payloads
               PROVE  Cardinality({x \in applied : x.tx.pay = p}) <=
                        Cardinality({r \in Requests : /\ Payload[r] = p
                                                      /\ pc[r] \in {"wait", "done"}})
    BY DEF PaidNoMoreThanAsked
  <2> DEFINE X == {x \in applied : x.tx.pay = p}
             R == {r \in Requests : Payload[r] = p /\ pc[r] \in {"wait", "done"}}
             f == [x \in X |-> CHOOSE r \in R : Tx(r) = x.tx]
  <2>1. \A x \in X : \E r \in R : Tx(r) = x.tx
    BY DEF Inv, AllSent, Sent, Tx
  <2>2. \A x \in X : f[x] \in R /\ Tx(f[x]) = x.tx
    BY <2>1
  <2>3. \A x, y \in X : x.tx = y.tx => x = y
    BY DEF Inv, LedgerInv, TypeOK
  <2>4. f \in [X -> R]
    BY <2>2
  <2>5. IsFiniteSet(R)
    BY IsFiniteSet(Requests), FS_Subset
  <2> HIDE DEF X, R, f
  <2>6. \A x, y \in DOMAIN f : f[x] = f[y] => x = y
    BY <2>2, <2>3, <2>4
  <2>7. f \in Injection(X, R)
    BY <2>4, <2>6 DEF Injection, IsInjective
  <2>8. Cardinality(X) <= Cardinality(R)
    BY <2>5, <2>7, FS_Injection
  <2>9. QED
    BY <2>8 DEF X, R
<1>2. QED
  BY <1>1, Invariance, PTL

\* A specific error of either endpoint is final, whatever happens later.
THEOREM ErrorFinal == Spec => []ErrorIsFinal
<1>1. Inv => ErrorIsFinal
  <2> SUFFICES ASSUME Inv, NEW r \in Requests,
                      answer[r] \notin {"none", "ok", "internal_server_error"}
               PROVE  \/ ~Applied(Tx(r), "success") /\ Tx(r) \notin pool
                      \/ \E q \in Requests \ {r} : Tx(q) = Tx(r)
    BY DEF ErrorIsFinal
  <2>1. CASE Unpaid(Tx(r))
    BY <2>1 DEF Unpaid, Applied
  <2>2. CASE \E q \in Requests : Twin(r, q)
    BY <2>2 DEF Twin
  <2>3. QED
    BY <2>1, <2>2 DEF Inv, FailedForGood
<1>2. QED
  BY <1>1, Invariance, PTL

\* A payment asked for after another was answered 200 is not answered with that
\* one's transaction.
THEOREM LaterAnother == Spec => []LaterIsAnother
<1>1. Inv => LaterIsAnother
  <2> SUFFICES ASSUME Inv, NEW r \in Requests, NEW q \in earlier[r],
                      Payload[r] \notin Trust, answer[r] = "ok"
               PROVE  Tx(r) # Tx(q)
    BY DEF LaterIsAnother
  <2>1. q \in Requests /\ num[q] \in Nat /\ num[r] \in Nat /\ num[r] # 0
    BY OkIsPast DEF Inv, TypeOK
  <2>2. num[q] < num[r]
    BY <2>1 DEF Inv, Ordered
  <2>3. QED
    BY <2>1, <2>2 DEF Tx
<1>2. QED
  BY <1>1, Invariance, PTL

=============================================================================
