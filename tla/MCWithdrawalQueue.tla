------------------------- MODULE MCWithdrawalQueue -------------------------
(***************************************************************************)
(* TLC instance of WithdrawalQueue: three accounts, so that a node has two *)
(* neighbours and can be taken out of the middle, and enough identifiers   *)
(* for the accounts to leave and come back.                                *)
(***************************************************************************)
EXTENDS WithdrawalQueue
=============================================================================
