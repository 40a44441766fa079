------------------------------ MODULE MCMarket ------------------------------
(***************************************************************************)
(* Small instances of the market.                                          *)
(***************************************************************************)
EXTENDS MarketProperties

MCSupplyRange == [minimum |-> 1, maximum |-> 100]
MCWithdrawalRange == [minimum |-> 1, maximum |-> 100]
MCBorrowRange == [minimum |-> 1, maximum |-> 100]
MCMcrMaintenance == [n |-> 3, d |-> 2]
MCMcrLiquidation == [n |-> 5, d |-> 4]
MCMaximumSpread == [n |-> 1, d |-> 10]
MCMaximumUsage == [n |-> 1, d |-> 1]
MCRate(usage) == IF usage > 0 THEN 1 ELSE 0
MCOriginationFee(amount) == 0
MCWithdrawalFee(amount, duration) == IF duration = 0 THEN 1 ELSE 0

AtPar == [collateral_low |-> 1, borrow_high |-> 1]
Doubled == [collateral_low |-> 1, borrow_high |-> 2]

NoAmounts == [supply |-> {}, request |-> {}, static |-> {}, collateralize |-> {},
              borrow |-> {}, repay |-> {}, liquidate |-> {}, seize |-> {},
              withdraw_collateral |-> {}]

CONSTANTS s1, s2, b1

\* One supplier and one borrower at a steady price, until the third chunk.
Small == [suppliers |-> {s1}, borrowers |-> {b1}, prices |-> {AtPar}, amounts |-> NoAmounts,
          snapshot_limits |-> {}, batch_limits |-> {1}, borrow_tokens |-> 8,
          collateral_tokens |-> 8, max_time |-> 3, max_pending |-> 1]

\* Two suppliers deposit, queue and leave in batches while a borrower takes the
\* deposits.
Leaving == [Small EXCEPT !.suppliers = {s1, s2}, !.batch_limits = {2}, !.borrow_tokens = 6,
    !.max_time = 2, !.max_pending = 2,
    !.amounts = [NoAmounts EXCEPT !.supply = {3}, !.request = {3}, !.collateralize = {4},
                                  !.borrow = {2}]]

\* One supplier leaves bit by bit.
Trimming == [Leaving EXCEPT !.suppliers = {s1}, !.amounts.request = {2}]

\* Three receipts of one borrower are in flight at once.
Racing == [Small EXCEPT !.prices = {AtPar, Doubled}, !.max_pending = 3,
    !.amounts = [NoAmounts EXCEPT !.supply = {4}, !.collateralize = {8}, !.borrow = {2},
                                  !.repay = {3}, !.liquidate = {4},
                                  !.withdraw_collateral = {4}]]

\* A loan from collateral to repayment or liquidation.
Lending == [Small EXCEPT !.prices = {AtPar, Doubled}, !.borrow_tokens = 10, !.max_time = 4,
    !.amounts = [NoAmounts EXCEPT !.supply = {6}, !.collateralize = {8}, !.borrow = {3},
                                  !.repay = {6}, !.liquidate = {4}, !.seize = {3},
                                  !.withdraw_collateral = {4}]]

\* The same loan, short, with two receipts in flight at once.
Contending == [Racing EXCEPT !.max_pending = 2]

\* Two suppliers share the yield of a loan and accumulate it in partial passes.
Sharing == [Small EXCEPT !.suppliers = {s1, s2}, !.snapshot_limits = {1}, !.batch_limits = {2},
    !.borrow_tokens = 10, !.max_time = 4,
    !.amounts = [NoAmounts EXCEPT !.supply = {4}, !.collateralize = {8}, !.borrow = {3},
                                  !.repay = {5}]]

\* The protocol account takes its static yield out.
Taking == [Small EXCEPT !.snapshot_limits = {1}, !.batch_limits = {2}, !.borrow_tokens = 5,
    !.amounts = [NoAmounts EXCEPT !.supply = {4}, !.request = {3}, !.static = {1},
                                  !.collateralize = {8}, !.borrow = {3}]]

MCReceipts == {Leaving, Trimming, Racing, Sharing}
MCValue == {Lending, Contending, Taking}
MCActive == {[Small EXCEPT !.suppliers = {s1, s2}, !.max_time = 2, !.max_pending = 2,
    !.amounts = [NoAmounts EXCEPT !.supply = {4}, !.request = {4}, !.collateralize = {8},
                                  !.borrow = {3}]]}
SupplierSymmetry == Permutations({s1, s2})
=============================================================================
