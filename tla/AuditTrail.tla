----------------------------- MODULE AuditTrail -----------------------------
(* What the SentTransaction table promises, whatever fails and whoever dies:  *)
(* a transaction leaves only after it was written down, what was written is   *)
(* never lost or rewritten, and the outcome written next to it, once, is the  *)
(* one the ledger has.                                                        *)

CONSTANTS
  Requests,  \* who may send a transaction
  NoTx       \* nothing is written down yet

VARIABLES
  status,    \* "none", "sending", "success" or "failure", for each request
  tx,        \* the transaction written down for it
  inFlight,  \* transactions the network holds
  ledger     \* transactions applied, with their outcome

vars == <<status, tx, inFlight, ledger>>

Init ==
  /\ status = [r \in Requests |-> "none"]
  /\ tx = [r \in Requests |-> NoTx]
  /\ inFlight = {}
  /\ ledger = {}

\* A transaction is written down, for good.
Record(r) ==
  /\ status[r] = "none"
  /\ status' = [status EXCEPT ![r] = "sending"]
  /\ tx'[r] # NoTx /\ tx' = [tx EXCEPT ![r] = tx'[r]]
  /\ UNCHANGED <<inFlight, ledger>>

\* One whose outcome is open leaves.
Send(r) ==
  /\ status[r] = "sending"
  /\ inFlight' = inFlight \cup {tx[r]}
  /\ UNCHANGED <<status, tx, ledger>>

\* The network loses one, or refuses it.
Drop(t) ==
  /\ inFlight' = inFlight \ {t}
  /\ UNCHANGED <<status, tx, ledger>>

\* The network applies one, once.
Settle(t, ok) ==
  /\ t \in inFlight
  /\ \A b \in BOOLEAN : [tx |-> t, ok |-> b] \notin ledger
  /\ inFlight' = inFlight \ {t}
  /\ ledger' = ledger \cup {[tx |-> t, ok |-> ok]}
  /\ UNCHANGED <<status, tx>>

\* Did it succeed, or may it yet?
MaySucceed(t) == [tx |-> t, ok |-> TRUE] \in ledger \/ t \in inFlight

\* The outcome is written: a success that happened, or a failure that is final,
\* unless the same transaction is another request's too.
Conclude(r) ==
  /\ status[r] = "sending"
  /\ \/ /\ [tx |-> tx[r], ok |-> TRUE] \in ledger
        /\ status' = [status EXCEPT ![r] = "success"]
     \/ /\ MaySucceed(tx[r]) => \E s \in Requests \ {r} : tx[s] = tx[r]
        /\ status' = [status EXCEPT ![r] = "failure"]
  /\ UNCHANGED <<tx, inFlight, ledger>>

Next ==
  \/ \E r \in Requests : Record(r) \/ Send(r) \/ Conclude(r)
  \/ \E t \in inFlight : Drop(t) \/ \E ok \in BOOLEAN : Settle(t, ok)

Spec == Init /\ [][Next]_vars

=============================================================================
