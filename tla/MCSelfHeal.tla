------------------------------ MODULE MCSelfHeal ------------------------------
(* Small instances of SelfHeal for TLC. *)
EXTENDS SelfHeal

CONSTANT k1 \* a tenant
=============================================================================
