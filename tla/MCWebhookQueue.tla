--------------------------- MODULE MCWebhookQueue ---------------------------
(* One event, delivered twice at once, and two processors. *)
EXTENDS WebhookQueue
=============================================================================
