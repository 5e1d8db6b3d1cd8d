------------------------------- MODULE MCStack -------------------------------
(***************************************************************************)
(* Instances of Stack for TLC: the registry, and the issuer that needs it, *)
(* with or without one tunnel.                                             *)
(***************************************************************************)
EXTENDS Stack, TLC

CONSTANTS registry, issuer, tunnel, p1, p2, p3, p4

TwoServices == <<registry, issuer>>
TwoServicesDown == <<issuer, registry>>
OneService == <<registry>>
WithTunnel == <<registry, tunnel>>

OwnRepo == [s \in Services |-> s]

PidSymmetry == Permutations(Pids)
=============================================================================
