----------------------- MODULE MCTransactionSubmitter -----------------------
(* Small instances of TransactionSubmitter for TLC.                           *)
EXTENDS TransactionSubmitter, TLC

CONSTANTS r1, r2, r3

\* Two requests make the same payment, a third another one.
MCPayload == [r \in Requests |-> IF r = r3 THEN "b" ELSE "a"]

\* Requests with equal payloads are interchangeable.
MCSymmetry == Permutations({r1, r2})
=============================================================================
