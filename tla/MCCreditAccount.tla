-------------------------- MODULE MCCreditAccount --------------------------
EXTENDS CreditAccount, TLC

Symmetry == Permutations(Sessions) \cup Permutations(Payouts) \cup Permutations(Steps)

=============================================================================
