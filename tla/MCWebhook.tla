----------------------------- MODULE MCWebhook -----------------------------
(***************************************************************************)
(* Instances of Webhook and of its inductive invariant for TLC: one order  *)
(* and up to two handlers.                                                 *)
(***************************************************************************)
EXTENDS WebhookInv, TLC
=============================================================================
