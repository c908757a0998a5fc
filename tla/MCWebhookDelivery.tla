------------------------- MODULE MCWebhookDelivery -------------------------
(* The cfgs give WebhookDelivery its constants; requests are alike.        *)
EXTENDS WebhookDelivery

=============================================================================
