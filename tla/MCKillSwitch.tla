--------------------------- MODULE MCKillSwitch ---------------------------
(* Instances of KillSwitch for TLC. *)
EXTENDS KillSwitch

\* One request of each kind the policy tells apart.
MCEvidence == {{}, {"AGENT_CLAIMED"}, {"AGENT_CLAIMED", "AUTHORITATIVE"}}
MCAges == {-61, 0, 86401}
MCOneEvidence == {{"PROTOCOL_TRUSTED"}}
MCOneAge == {0}
=============================================================================
