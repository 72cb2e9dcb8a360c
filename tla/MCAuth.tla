---------------------------- MODULE MCAuth ----------------------------
(* A small instance of Auth for TLC: two accounts, the deployer and another. *)
EXTENDS Auth

CONSTANTS deployer, other
MCAccounts == {deployer, other}
======================================================================
