----------------------------- MODULE MCTrading -----------------------------
(* A small instance of Trading for TLC. *)
EXTENDS Trading

CONSTANTS usdc, rsr, rtok, dai, treasury, furnace, stRSR, manager, t1, t2

\* The backing is half dai and half usdc that no longer backs anything, and
\* there is revenue to sell and RSR to seize.
Holdings ==
    [h \in Holders |-> [t \in Tokens |->
        CASE h = manager /\ t = dai -> 1
          [] h = manager /\ t = usdc -> 3
          [] h = t1 /\ t = usdc -> 2
          [] h = stRSR /\ t = rsr -> 1
          [] OTHER -> 0]]
Share(a, b) == [rTokenDist |-> a, rsrDist |-> b]
Table == [d \in Destinations |-> IF d = stRSR THEN Share(0, 2) ELSE Share(0, 0)]
Lists == {{usdc}, Tokens}
\* usdc has fewer decimals than the others.
Quantum == [t \in Tokens |-> IF t = usdc THEN 2 ELSE 1]
MCShares == {Share(1, 1)}
=============================================================================
