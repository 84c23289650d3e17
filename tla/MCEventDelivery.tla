------------------------- MODULE MCEventDelivery --------------------------
(* An instance of EventDelivery for TLC: the cascade consumer takes one    *)
(* message at a time, the campaign consumer several.                       *)
EXTENDS EventDelivery, TLC

CONSTANTS cascade, campaign

MCPrefetch == (cascade :> 1) @@ (campaign :> 2)
=============================================================================
