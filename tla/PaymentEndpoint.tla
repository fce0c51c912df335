--------------------------- MODULE PaymentEndpoint ---------------------------
(* The bridge's endpoints that submit: /payment without compliance, which     *)
(* asks Horizon for the source account's number itself and builds a payment,  *)
(* a path payment or a create_account, and /authorize, which leaves number    *)
(* and signature to the TransactionSubmitter. Both turn Horizon's response    *)
(* into the caller's answer. Requests run concurrently for one source         *)
(* account. They keep no state, so a crash is a request that goes on no more. *)
EXTENDS Naturals, FiniteSets

CONSTANTS
  Requests,     \* requests to /payment and /authorize
  Payload,      \* what each asks for: equal payloads make equal operations
  Trust,        \* payloads of /authorize
  Native,       \* payloads in lumens: no asset_code
  Path,         \* payloads with send_max
  Dest,         \* the destination account of each payload
  MaxNumber,    \* bound: numbers the submitter may give
  ForeignUpTo   \* bound: others use the account while its number is below this

Payloads == {Payload[r] : r \in Requests}

ASSUME PayloadAssumption == DOMAIN Payload = Requests /\ DOMAIN Dest = Payloads
ASSUME BoundsAssumption == MaxNumber \in Nat /\ ForeignUpTo \in Nat

VARIABLES
  pc,         \* where each request is
  op,         \* the operation it has built
  num,        \* the number of its transaction; 0: none yet
  answer,     \* what the caller was answered
  earlier,    \* requests alike that were answered "ok" before it arrived
  exists,     \* destination accounts on the ledger
  ledgerSeq,  \* the source account's number on the ledger
  pool,       \* transactions the network holds and may still apply
  applied     \* transactions on the ledger, with their result

netVars == <<exists, ledgerSeq, pool, applied>>
vars == <<pc, op, num, answer, earlier, exists, ledgerSeq, pool, applied>>

PC == {"idle", "dest", "source", "submit", "wait", "done", "unsent"}
Op == {"payment", "path_payment", "create_account", "allow_trust"}

\* Results of the transaction as a whole, one name for those that differ only in
\* the error they are answered with. "tx_refused": bad_auth, bad_auth_extra,
\* insufficient_balance, insufficient_fee, no_account. "tx_other" has no error.
TransactionErrors == {"tx_bad_seq", "tx_refused"}
Refusals == TransactionErrors \cup {"tx_other"}

\* Results of the operation, likewise. "payment_failed": malformed, underfunded,
\* line_full and the five of trust and authorization; "path_failed":
\* too_few_offers, offer_cross_self, over_sendmax; "trust_failed": the four of
\* allow_trust; "create_failed": malformed, underfunded, low_reserve.
PaymentErrors == {"payment_failed", "no_destination"}
PathPaymentErrors == PaymentErrors \cup {"path_failed"}
AllowTrustErrors == {"trust_failed"}
CreateAccountErrors == {"create_failed", "already_exist"}
OperationErrors(o) ==
  CASE o = "payment" -> PaymentErrors
    [] o = "path_payment" -> PathPaymentErrors
    [] o = "allow_trust" -> AllowTrustErrors
    [] OTHER -> {}

\* What an operation may come to on the ledger. "op_bad_auth": the operation is
\* not executed, for the signer's weight suffices for the fee only.
Results(o, d) ==
  {"op_bad_auth"} \cup
  CASE o = "create_account" ->
         IF d \in exists THEN {"already_exist"}
         ELSE {"success"} \cup (CreateAccountErrors \ {"already_exist"})
    [] o \in {"payment", "path_payment"} /\ d \notin exists -> {"no_destination"}
    [] OTHER -> {"success"} \cup (OperationErrors(o) \ {"no_destination"})

Result == {"success", "op_bad_auth"} \cup PathPaymentErrors \cup AllowTrustErrors
          \cup CreateAccountErrors
Answers == {"none", "ok", "internal_server_error", "rejected"}
          \cup TransactionErrors \cup PathPaymentErrors \cup AllowTrustErrors

Envelope == [pay : Payloads, op : Op, num : Nat]
Tx(r) == [pay |-> Payload[r], op |-> op[r], num |-> num[r]]
Applied(t, c) == [tx |-> t, code |-> c] \in applied
OnLedger(t) == \E c \in Result : Applied(t, c)

Goto(r, l) == pc' = [pc EXCEPT ![r] = l]

\* The caller is answered, after the submission or with nothing sent: what was built
\* is then dropped.
Return(r, a) == Goto(r, "done") /\ answer' = [answer EXCEPT ![r] = a]
ReturnUnsent(r, a) ==
  /\ Goto(r, "unsent") /\ answer' = [answer EXCEPT ![r] = a]
  /\ op' = [op EXCEPT ![r] = "none"] /\ num' = [num EXCEPT ![r] = 0]

-----------------------------------------------------------------------------
\* Any of the destinations may exist already.
Init ==
  /\ pc = [r \in Requests |-> "idle"]
  /\ op = [r \in Requests |-> "none"]
  /\ num = [r \in Requests |-> 0]
  /\ answer = [r \in Requests |-> "none"]
  /\ earlier = [r \in Requests |-> {}]
  /\ exists \in SUBSET {Dest[p] : p \in Payloads}
  /\ ledgerSeq = 1
  /\ pool = {}
  /\ applied = {}

PayOp(r) == IF Payload[r] \in Path THEN "path_payment" ELSE "payment"
Arrive(r) ==
  earlier' = [earlier EXCEPT ![r] =
                {q \in Requests : Payload[q] = Payload[r] /\ answer[q] = "ok"}]

\* Parameters are missing or invalid, in either request.
ValidateFails(r) ==
  /\ pc[r] = "idle"
  /\ ReturnUnsent(r, "rejected")
  /\ UNCHANGED <<earlier, netVars>>

(* /payment without the compliance server.                                    *)

\* The request is valid and its destination resolves. Lumens go to an account
\* that may have to be created.
Payment(r) ==
  /\ pc[r] = "idle" /\ Payload[r] \notin Trust
  /\ Arrive(r)
  /\ IF Payload[r] \in Native
       THEN Goto(r, "dest") /\ UNCHANGED op
       ELSE Goto(r, "source") /\ op' = [op EXCEPT ![r] = PayOp(r)]
  /\ UNCHANGED <<num, answer, netVars>>

\* Horizon knows the destination, or it does not, or it cannot be asked.
LoadDestination(r) ==
  /\ pc[r] = "dest"
  /\ \/ Dest[Payload[r]] \in exists /\ op' = [op EXCEPT ![r] = PayOp(r)]
     \/ op' = [op EXCEPT ![r] = "create_account"]
  /\ Goto(r, "source")
  /\ UNCHANGED <<num, answer, earlier, netVars>>

\* The destination does not resolve, the memo does not fit, the source account
\* cannot be loaded, or the builder refuses an amount or an asset code.
Reject(r) ==
  /\ pc[r] \in {"idle", "source", "submit"} /\ Payload[r] \notin Trust
  /\ ReturnUnsent(r, "rejected")
  /\ UNCHANGED <<earlier, netVars>>

\* Mutant of LoadSource: the number comes from a copy that may be one behind.
LoadSourceStale(r) ==
  /\ pc[r] = "source"
  /\ \E n \in {ledgerSeq, ledgerSeq + 1} : num' = [num EXCEPT ![r] = n]
  /\ Goto(r, "submit")
  /\ UNCHANGED <<op, answer, earlier, netVars>>

LoadSource(r) ==
  /\ pc[r] = "source"
  /\ num' = [num EXCEPT ![r] = ledgerSeq + 1]
  /\ Goto(r, "submit")
  /\ UNCHANGED <<op, answer, earlier, netVars>>

(* /authorize.                                                                *)

\* The submitter gives the transaction the number it has cached, whatever that is.
Authorize(r) ==
  /\ pc[r] = "idle" /\ Payload[r] \in Trust
  /\ Arrive(r)
  /\ \E n \in 1..MaxNumber : num' = [num EXCEPT ![r] = n]
  /\ op' = [op EXCEPT ![r] = "allow_trust"]
  /\ Goto(r, "submit")
  /\ UNCHANGED <<answer, netVars>>

(* The submission, on either way.                                             *)

\* A create_account takes no path: the builder refuses it.
Submit(r) ==
  /\ pc[r] = "submit"
  /\ ~(op[r] = "create_account" /\ Payload[r] \in Path)
  /\ pool' = IF OnLedger(Tx(r)) THEN pool ELSE pool \cup {Tx(r)}
  /\ Goto(r, "wait")
  /\ UNCHANGED <<op, num, answer, earlier, exists, ledgerSeq, applied>>

\* The number cannot be read, or building, signing or recording fails, and nothing
\* leaves.
SubmitFails(r) ==
  /\ pc[r] \in {"source", "submit"}
  /\ ReturnUnsent(r, "internal_server_error")
  /\ UNCHANGED <<earlier, netVars>>

\* Mutants of ErrorFromHorizonResponse: Horizon's word is passed on; path payments
\* are forgotten.
ResultPassedOn(o, c) == c
PathPaymentForgotten(o, c) ==
  IF c \in {"success"} \cup CreateAccountErrors \cup PathPaymentErrors
     /\ (c = "success" \/ o \in {"create_account", "path_payment"}) THEN "ok"
  ELSE IF c \in TransactionErrors \cup OperationErrors(o) THEN c
  ELSE "internal_server_error"

\* The answer to a response: an error for what has one, and 200 for what has
\* none, which is every result of a create_account. Without an operation's result
\* the handler panics, and goji's Recoverer answers 500.
ErrorFromHorizonResponse(o, c) ==
  IF c = "success" \/ (o = "create_account" /\ c \in CreateAccountErrors) THEN "ok"
  ELSE IF c \in TransactionErrors \cup OperationErrors(o) THEN c
  ELSE "internal_server_error"

\* The transaction is on the ledger: the response has the ledger or the result.
AnswerApplied(r) ==
  /\ pc[r] = "wait"
  /\ \E c \in Result :
       Applied(Tx(r), c) /\ Return(r, ErrorFromHorizonResponse(op[r], c))
  /\ UNCHANGED <<op, num, earlier, netVars>>

\* The network refuses it, for its number or another reason.
AnswerRejected(r) ==
  /\ pc[r] = "wait" /\ ~OnLedger(Tx(r))
  /\ \E c \in Refusals :
       /\ c = "tx_bad_seq" => num[r] # ledgerSeq + 1
       /\ Return(r, ErrorFromHorizonResponse(op[r], c))
  /\ pool' = pool \ {Tx(r)}
  /\ UNCHANGED <<op, num, earlier, exists, ledgerSeq, applied>>

\* Mutant of NoAnswer: an unknown outcome is reported as one to try again.
TimeoutIsBadSequence(r) ==
  /\ pc[r] = "wait"
  /\ pool' \in {pool, pool \ {Tx(r)}}
  /\ Return(r, "tx_bad_seq")
  /\ UNCHANGED <<op, num, earlier, exists, ledgerSeq, applied>>

\* Mutant of NoAnswer: the payment is tried again, with a number read anew.
TriedAgain(r) ==
  /\ pc[r] = "wait"
  /\ pool' \in {pool, pool \ {Tx(r)}}
  /\ Goto(r, "source")
  /\ UNCHANGED <<op, num, answer, earlier, exists, ledgerSeq, applied>>

\* No response, or none that can be read: the transaction may have arrived.
NoAnswer(r) ==
  /\ pc[r] = "wait"
  /\ pool' \in {pool, pool \ {Tx(r)}}
  /\ Return(r, "internal_server_error")
  /\ UNCHANGED <<op, num, earlier, exists, ledgerSeq, applied>>

(* The network.                                                               *)

Apply ==
  /\ \E t \in pool : \E c \in Results(t.op, Dest[t.pay]) :
       /\ t.num = ledgerSeq + 1
       /\ pool' = pool \ {t}
       /\ applied' = applied \cup {[tx |-> t, code |-> c]}
       /\ exists' = IF t.op = "create_account" /\ c = "success"
                      THEN exists \cup {Dest[t.pay]} ELSE exists
  /\ ledgerSeq' = ledgerSeq + 1
  /\ UNCHANGED <<pc, op, num, answer, earlier>>

\* Somebody else uses the source account, and may create a destination.
ForeignTransaction ==
  /\ ledgerSeq < ForeignUpTo
  /\ ledgerSeq' = ledgerSeq + 1
  /\ \E p \in Payloads : exists' \in {exists, exists \cup {Dest[p]}}
  /\ UNCHANGED <<pc, op, num, answer, earlier, pool, applied>>

Handle(r) ==
  \/ ValidateFails(r)
  \/ Payment(r) \/ LoadDestination(r) \/ Reject(r) \/ LoadSource(r)
  \/ Authorize(r)
  \/ Submit(r) \/ SubmitFails(r)
  \/ AnswerApplied(r) \/ AnswerRejected(r) \/ NoAnswer(r)

Next ==
  \/ \E r \in Requests : Handle(r)
  \/ Apply
  \/ ForeignTransaction

Spec == Init /\ [][Next]_vars

-----------------------------------------------------------------------------
(* Properties.                                                                *)

TypeOK ==
  /\ pc \in [Requests -> PC]
  /\ op \in [Requests -> Op \cup {"none"}]
  /\ num \in [Requests -> Nat]
  /\ answer \in [Requests -> Answers]
  /\ earlier \in [Requests -> SUBSET Requests]
  /\ exists \subseteq {Dest[p] : p \in Payloads}
  /\ ledgerSeq \in Nat
  /\ pool \subseteq Envelope
  /\ applied \subseteq [tx : Envelope, code : Result]

\* 200 means done: /payment's SubmitTransactionResponse is given only for a
\* transaction that succeeded on the ledger.
OkIsPaid == \A r \in Requests : answer[r] = "ok" => Applied(Tx(r), "success")

\* The same, of every operation but create_account.
OkIsPaidUnlessCreated ==
  \A r \in Requests :
    answer[r] = "ok" /\ op[r] # "create_account" => Applied(Tx(r), "success")

\* Nothing is paid more often than it was asked for: the ledger has no more
\* transactions with a payload than requests that have submitted one, however
\* many of them were answered with an error or not at all.
PaidNoMoreThanAsked ==
  \A p \in Payloads :
    Cardinality({x \in applied : x.tx.pay = p}) <=
      Cardinality({r \in Requests : Payload[r] = p /\ pc[r] \in {"wait", "done"}})

\* A specific error is final: after any error but InternalServerError the caller
\* may try again, because that transaction was not successful and will not be,
\* save as another request's identical one.
ErrorIsFinal ==
  \A r \in Requests :
    answer[r] \notin {"none", "ok", "internal_server_error"} =>
      \/ ~Applied(Tx(r), "success") /\ Tx(r) \notin pool
      \/ \E q \in Requests \ {r} : Tx(q) = Tx(r)

\* Two payments are two payments: a /payment request that arrives after another
\* was answered 200 is never answered 200 for that one's transaction, be they
\* alike.
LaterIsAnother ==
  \A r \in Requests : \A q \in earlier[r] :
    Payload[r] \notin Trust /\ answer[r] = "ok" => Tx(r) # Tx(q)

=============================================================================
