-------------------------------- MODULE MCAccounts --------------------------------
EXTENDS Accounts, TLC
CONSTANTS u1, u2, u3, u4, u5, u6, a1, q1, q2
=============================================================================
