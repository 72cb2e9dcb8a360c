--------------------------- MODULE MCStRSR ---------------------------
(* Small instances of StRSR for TLC. *)
EXTENDS StRSR, TLC, FiniteSets

CONSTANTS alice, bob, strsr, manager

Two == {alice, bob}
One == {alice}

\* RSR at the start: in the wallets, and in the contract as first rewards.
Start(wallet, bm, rewards) ==
    [h \in Holders |-> IF h = THIS THEN rewards ELSE IF h = BackingManager THEN bm ELSE wallet]
TwoStakers == {Start(2, 0, 1)}
OneStaker  == {Start(2, 0, 1)}

Symmetry == Permutations(Accounts)
======================================================================
