------------------------- MODULE MCWebhookDispatch -------------------------
(***************************************************************************)
(* Small instances of WebhookDispatch for TLC.                             *)
(***************************************************************************)
EXTENDS WebhookDispatch, TLC

CONSTANTS d1, d2, s1, s2

\* One delivery for each subscription.
OneEach == (d1 :> s1) @@ (d2 :> s2)
=============================================================================
