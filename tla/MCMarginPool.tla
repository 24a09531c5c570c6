---------------------------- MODULE MCMarginPool ----------------------------
(* A pool of two users, with interest between a tenth and ninety percent a period,
   half of it the fee; it may be lending or disabled. *)
EXTENDS MarginPool, TLC

Rates(fs) == [flags |-> fs, util_1 |-> 6, util_2 |-> 14, borrow_0 |-> 2, borrow_1 |-> 4,
              borrow_2 |-> 10, borrow_3 |-> 18, fee_rate |-> 10]
MCConfigs == {Rates({"ALLOW_LENDING"}), Rates({"DISABLED"})}

LendingOnly == {Rates({"ALLOW_LENDING"})}

MCChanges == {<<"ShiftBy", 1>>, <<"SetTo", 0>>, <<"SetTo", 1>>}

\* the code's series has at least five terms
MCTerms == [t \in 1 .. Week |-> 5]

UserSymmetry == Permutations(Users)
=============================================================================
