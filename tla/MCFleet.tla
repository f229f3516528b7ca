------------------------------- MODULE MCFleet -------------------------------
(* One machine, two rows, up to two deployments at a time. *)
EXTENDS Fleet
Single == {"ss"}
Dual   == {"vless", "ss"}
Both   == {"hy2", "vless"}
MCKinds == {Single, Dual, Both}
=============================================================================
