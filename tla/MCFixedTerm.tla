---------------------------- MODULE MCFixedTerm ----------------------------
(* A margin user that borrows and lends, and a wallet that lends and sells tickets. *)
EXTENDS FixedTerm, TLC

CONSTANTS alice, wallet

MCSettling == {alice} \X {"tickets", "tokens"}

MCBorrowOrders == alice :> {OrderParams(MaxQty, 2, 2, {"post_allowed", "auto_roll"})} @@ wallet :> {}

MCLendOrders == alice :> {OrderParams(MaxQty, 3, 3, {"post_allowed"}),
                      OrderParams(MaxQty, 3, 3, {"post_allowed", "auto_stake", "auto_roll"})}
             @@ wallet :> {OrderParams(MaxQty, 5, 3, {"post_allowed", "auto_stake"})}

\* a sale of the margin user may be posted like the wallet's
MCSellOrders == alice :> {OrderParams(2, 2, 2, {"post_allowed"})} @@ wallet :> {OrderParams(2, 2, 2, {"post_allowed"})}

MCRollConfigs == {<<alice, "borrow", 3, 1>>, <<alice, "lend", 3, 1>>}
=============================================================================
