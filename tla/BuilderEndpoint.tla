--------------------------- MODULE BuilderEndpoint ---------------------------
(* /builder beside the TransactionSubmitter, in one bridge process. It keeps   *)
(* nothing and shares nothing, so a request is no step of its own; but its     *)
(* caller chooses the sequence number and posts the envelope to Horizon: one   *)
(* more user of the account, whom the submitter does not know of.             *)
EXTENDS Integers, TransactionSubmitter

CONSTANT Drafts  \* the requests to /builder

\* What the endpoint tells apart about an operation: its type or its body is not
\* understood, its body's Validate refuses it, go-stellar-base's builder does, or
\* nobody does. Which values of a body come to which is not modelled.
Operation == {"malformed", "invalid", "unbuildable", "good"}

\* A signer is valid as a seed, or as an address that cannot sign. A sequence
\* number that does not parse is -1.
ASSUME DraftAssumption ==
  Drafts \subseteq [source : {"account", "bad"}, sequence_number : Nat \cup {-1},
                    operations : SUBSET Operation, signers : SUBSET {"seed", "address", "bad"}]

\* Process, for all operations of the request.
Process(q) == "malformed" \notin q.operations

\* Validate: the request's own values, then every body's.
Validate(q) == q.source # "bad" /\ "bad" \notin q.signers /\ "invalid" \notin q.operations

\* The request is answered with an envelope, and not with an error.
Builder(q) ==
  /\ Process(q) /\ Validate(q)
  /\ q.sequence_number # -1
  /\ "unbuildable" \notin q.operations
  /\ "address" \notin q.signers

\* The numbers of the signed envelopes that callers get: the ones they named.
BuiltNumbers == {q.sequence_number : q \in {p \in Drafts : Builder(p) /\ p.signers # {}}}

\* A caller posts such an envelope, at any time after it was built, and the network
\* applies it.
CallerSubmits ==
  /\ ledgerSeq + 1 \in BuiltNumbers
  /\ ledgerSeq' = ledgerSeq + 1
  /\ UNCHANGED <<reqVars, accVars, pool, applied, procVars>>

EndpointNext == Next \/ CallerSubmits

EndpointSpec == Init /\ [][EndpointNext]_vars

\* As FairSpec: nothing is asked of LoadAccount, nor of the callers of /builder.
EndpointFairSpec == EndpointSpec /\ \A r \in Requests : WF_vars(Proceed(r))

=============================================================================
