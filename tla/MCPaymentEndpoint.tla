-------------------------- MODULE MCPaymentEndpoint --------------------------
(* Small instances of PaymentEndpoint for TLC.                                *)
EXTENDS PaymentEndpoint, TLC

CONSTANTS r1, r2, r3, r4

\* Two requests send the same lumens, one makes a path payment, one authorizes.
MCPayload == [r \in Requests |-> CASE r \in {r1, r2} -> "lumens"
                                   [] r = r3 -> "path"
                                   [] r = r4 -> "trust"]
MCDest == [p \in Payloads |-> "d"]

MCSymmetry == Permutations({r1, r2})
=============================================================================
