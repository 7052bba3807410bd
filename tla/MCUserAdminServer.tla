-------------------------- MODULE MCUserAdminServer --------------------------
EXTENDS UserAdminServer, TLC

\* No action tells two connections apart.
MCSymmetry == Permutations(Connection)
=============================================================================
