----------------------- MODULE MCNotificationDelivery -----------------------
(* NotificationDelivery on small instances.                                *)
EXTENDS NotificationDelivery

\* Two alerts of one incident, each a flow of its own.
MCBurst == <<"g1", "g1">>
MCFlows == <<"f1", "f2">>

\* Two alerts of two incidents.
MCApart == <<"g1", "g2">>
MCNoRules == {}
MCOneRule == {{1}}
=============================================================================
