----------------------------- MODULE MCOutputs -----------------------------
(***************************************************************************)
(* Outputs with two connectors and three CRTCs, one of which only one of   *)
(* the connectors can use.                                                 *)
(***************************************************************************)
EXTENDS Outputs

CONSTANTS dp, hdmi, k1, k2, k3

MCConnectors == <<dp, hdmi>>

MCCrtc == {k1, k2, k3}

\* The encoder of dp drives every CRTC, that of hdmi only two, both of which
\* may be in use at once.
MCPossibleCrtcs == [c \in {dp, hdmi} |-> IF c = dp THEN MCCrtc ELSE {k1, k2}]
=============================================================================
