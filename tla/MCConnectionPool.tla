-------------------------- MODULE MCConnectionPool --------------------------
EXTENDS ConnectionPool, TLC

\* Users are interchangeable.
UserSymmetry == Permutations(User)
=============================================================================
