------------------------ MODULE MCComplianceProtocol ------------------------
(* Small instances of ComplianceProtocol for TLC.                             *)
EXTENDS ComplianceProtocol, TLC

CONSTANTS a1, a2, a3, q1, q2, alice, bob

\* a2 is a retry of a1, and a3 another payment, for another user.
MCMemo == [a \in Requests |-> IF a = a3 THEN "m2" ELSE "m1"]
MCUser == [a \in Requests |-> IF a = a3 THEN bob ELSE alice]

\* The other payment asks for no info.
MCNeedInfo == [a \in Requests |-> a # a3]

\* Forms with a path of k elements, every other one lumens, posted without
\* the values in ns.
Posted(k, ns) ==
  [value |-> [n \in Names \ ns |-> n],
   code |-> [i \in 0..(k - 1) |-> IF i % 2 = 0 THEN "code" ELSE ""],
   issuer |-> [i \in {j \in 0..(k - 1) : j % 2 = 0} |-> "issuer"]]
Credit == {"send_asset_code", "send_asset_issuer"}

\* A full path for the payment and its retry; for the other one a path with a gap,
\* and forms that one of the servers refuses.
MCForms == [a \in Requests |->
  IF a # a3 THEN {Posted(5, Credit)}
  ELSE {[Posted(2, {}) EXCEPT !.code = 0 :> "code" @@ 2 :> ""],
        [Posted(1, {}) EXCEPT !.issuer = <<>>],
        Posted(0, {"send_asset_code"})}]

\* A payment and its retry are interchangeable, and so are removals.
MCSymmetry == Permutations({a1, a2}) \cup Permutations({q1, q2})
=============================================================================
