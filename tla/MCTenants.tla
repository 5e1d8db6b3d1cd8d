------------------------------ MODULE MCTenants ------------------------------
(* An instance of Tenants for TLC. *)
EXTENDS Tenants
=============================================================================
