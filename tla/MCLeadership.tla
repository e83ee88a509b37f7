---------------------------- MODULE MCLeadership ----------------------------
(* Small instances of Leadership for TLC. *)
EXTENDS Leadership

CONSTANTS
    r1, r2, \* replicas
    k1      \* a tenant
=============================================================================
