----------------------- MODULE CollateralPromise -----------------------
(***************************************************************************)
(* What every collateral plugin owes the protocol, as                      *)
(* contracts/plugins/assets/AbstractCollateral.sol and the callers of      *)
(* refresh() rely on it: its status, and the refPerTok() the last refresh  *)
(* left.  A default is final, a rate that falls is a default, and trouble  *)
(* that cannot be judged at once passes through IFFY and stays no longer   *)
(* than the delay.                                                         *)
(***************************************************************************)
EXTENDS Integers

CONSTANT Delay                      \* the longest a plugin is IFFY

VARIABLES standing, rate, iffyFor   \* iffyFor: how long it has been IFFY

Init == standing = "SOUND" /\ rate \in Nat /\ iffyFor = 0

\* A refresh that finds nothing worse than a lost peg or a silent feed.
Judge == /\ standing # "DISABLED"
         /\ standing' \in {"SOUND", "IFFY"}
         /\ rate' \in Nat /\ rate' >= rate
         /\ iffyFor' = IF standing' = "SOUND" THEN 0 ELSE iffyFor

\* A refresh that finds the rate fallen, or more hidden than is allowed.
Default == /\ standing # "DISABLED"
           /\ standing' = "DISABLED" /\ rate' \in Nat
           /\ iffyFor' = 0

\* Time passes, and ends the delay.
Wait == /\ standing = "IFFY"
        /\ IF iffyFor + 1 < Delay
           THEN iffyFor' = iffyFor + 1 /\ UNCHANGED standing
           ELSE iffyFor' = 0 /\ standing' = "DISABLED"
        /\ UNCHANGED rate

Next == Judge \/ Default \/ Wait

vars == <<standing, rate, iffyFor>>

Spec == Init /\ [][Next]_vars
========================================================================
