-------------------------- MODULE MCWebhookDelivery --------------------------
(* Instances of WebhookDelivery for TLC.  Runs check liveness, so there is *)
(* no symmetry.                                                            *)
EXTENDS WebhookDelivery

CONSTANTS worker, api, replied, crm, chat
=============================================================================
