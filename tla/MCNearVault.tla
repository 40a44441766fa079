----------------------------- MODULE MCNearVault -----------------------------
(***************************************************************************)
(* A small instance of the NEAR vault for TLC.                             *)
(***************************************************************************)
EXTENDS NearVaultProperties

CONSTANTS u1, fr, self

MCMarkets == {1}
MCCap == [m \in MCMarkets |-> 3]
MCQueue == <<1>>
MCPerformanceFee ==
    [performance |-> [n |-> 1, d |-> 2], management |-> [n |-> 0, d |-> 1], cap |-> {}]
MCRoutes == {<<>>, <<1>>}
=============================================================================
