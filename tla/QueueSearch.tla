------------------------- MODULE QueueSearch -------------------------
(***************************************************************************)
(* The binary search of StRSR.endIdForWithdraw() and                       *)
(* FacadeRead.endIdForVest(): entries of a queue that are due come before  *)
(* those that are not, and the search looks for the end of the first.      *)
(***************************************************************************)
EXTENDS Integers

\* One round: the entry in the middle, the code's queue[test], is due or not.
\* Entries have the numbers 1, 2, ... here, so that it is entry test + 1.
Narrowed(due, left, right) ==
    LET test == (left + right) \div 2
    IN  IF test + 1 \in due THEN <<test, right>> ELSE <<left, test>>

\* The last entry that is due, if entry left + 1 is and right is the last of all.
SearchEnd(due, left, right) ==
    LET loop[b \in (0 .. right) \X (0 .. right)] ==
            IF b[1] >= b[2] - 1 THEN b[2] ELSE loop[Narrowed(due, b[1], b[2])]
    IN  loop[<<left, right>>]

======================================================================
