------------------------- MODULE MCWebhookDelivery -------------------------
(***************************************************************************)
(* Instances of WebhookDelivery for TLC: one delivery of one subscription, *)
(* one or two workers, two attempts.                                       *)
(***************************************************************************)
EXTENDS WebhookDelivery, TLC

CONSTANTS d1, s1, w1, w2

LoneDelivery == d1 :> s1
===========================================================================
