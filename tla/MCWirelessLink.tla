--------------------------- MODULE MCWirelessLink ---------------------------
(* Bounded instances of WirelessLink. *)
EXTENDS WirelessLink

\* an empty battery, and a full one being charged
MCLevels == {1, 149}
=============================================================================
