----------------------- MODULE MCWebhookRegistration -----------------------
(***************************************************************************)
(* Instances of WebhookRegistration for TLC: one or two host names.        *)
(***************************************************************************)
EXTENDS WebhookRegistration, TLC

CONSTANTS h1, h2
=============================================================================
