---------------------------- MODULE MCLifecycle -----------------------------
(***************************************************************************)
(* Two devices whose models have a definition, queues of one entry, one    *)
(* retry timer, two attempts of each kind.                                 *)
(***************************************************************************)
EXTENDS Lifecycle, TLC

CONSTANTS d1, d2

MCDevice == {d1, d2}
Symmetric == Permutations(MCDevice)
=============================================================================
