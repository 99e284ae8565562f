------------------------- MODULE MCWebhookIngestion -------------------------
(***************************************************************************)
(* Webhooks for TLC: events of two external customers, delivered one by    *)
(* one and in Amplitude batches that overlap in both orders.               *)
(***************************************************************************)
EXTENDS WebhookIngestion, TLC

CONSTANTS x, y, e1, e2, e3, j1, j2, j3, r1, r2, r3, r4

\* x cancels at time 1 and pays again at time 3; y is seen at time 2.
TwoCustomers == (e1 :> x) @@ (e2 :> x) @@ (e3 :> y)
Times == (e1 :> 1) @@ (e2 :> 3) @@ (e3 :> 2)
Invoices == (e1 :> 0) @@ (e2 :> 50) @@ (e3 :> 0)
Batches == {<<e1>>, <<e2>>, <<e2, e3>>, <<e3, e2>>}
=============================================================================
