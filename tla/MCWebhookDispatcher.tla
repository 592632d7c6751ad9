------------------------- MODULE MCWebhookDispatcher -------------------------
(* Instances of WebhookDispatcher for TLC. *)
EXTENDS WebhookDispatcher

CONSTANTS k1, u1, u2, a1, a2

MCSeverityOf == [a \in Alerts |-> IF a = a1 THEN "CRITICAL" ELSE "WARNING"]
=============================================================================
