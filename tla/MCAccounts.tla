----------------------------- MODULE MCAccounts -----------------------------
(* A small instance of Accounts.                                            *)
EXTENDS Accounts

CONSTANTS b1, b2, demo

TwoBrowsers == {b1, b2}
=============================================================================
