----------------------------- MODULE MCAccounts -----------------------------
(* Constant values for the run of Accounts.                                 *)
EXTENDS Accounts, TLC

Symmetry == Permutations(Calls) \cup Permutations(Passwords)
                \cup Permutations(Sessions) \cup Permutations(Tokens)

\* A bound: a behaviour is followed until three of its users, sessions and tokens
\* have been raced for.
FewRaces == Cardinality(raced) < 3
=============================================================================
