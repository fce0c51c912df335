----------------------------- MODULE MCBridgeApp -----------------------------
(* A small instance of BridgeApp for TLC.                                     *)
EXTENDS BridgeApp

\* Everything configured; the minimal values; the minimal values and a receiving
\* account, without and with a callback; a key that is too short; a database that
\* has no driver.
Full == [params |-> TRUE, db |-> "mysql", authorizing |-> TRUE, base |-> TRUE,
         receiving |-> TRUE, receive |-> TRUE, apiKey |-> "long"]
Minimal == [Full EXCEPT !.db = "", !.authorizing = FALSE, !.base = FALSE,
                        !.receiving = FALSE, !.receive = FALSE, !.apiKey = "none"]
MCConfigs ==
  {Full, Minimal, [Minimal EXCEPT !.receiving = TRUE],
   [Minimal EXCEPT !.receiving = TRUE, !.receive = TRUE],
   [Full EXCEPT !.apiKey = "short"], [Full EXCEPT !.db = "other"]}
=============================================================================
