-------------------------- MODULE MCBuilderEndpoint --------------------------
(* A small instance of BuilderEndpoint for TLC.                               *)
EXTENDS BuilderEndpoint, MCTransactionSubmitter

Draft(n) == [source |-> "account", sequence_number |-> n, operations |-> {"good"},
             signers |-> {"seed"}]

\* Two that are answered with a signed envelope, and one request for each way not
\* to get one.
MCDrafts ==
  {Draft(2), Draft(3), Draft(-1)}
  \cup {[Draft(4) EXCEPT !.operations = {"good", o}] : o \in Operation \ {"good"}}
  \cup {[Draft(4) EXCEPT !.signers = s] : s \in {{}, {"seed", "address"}, {"bad"}}}
  \cup {[Draft(4) EXCEPT !.source = "bad"]}
=============================================================================
