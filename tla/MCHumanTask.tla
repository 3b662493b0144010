---------------------------- MODULE MCHumanTask ----------------------------
EXTENDS HumanTask, TLC

Symmetry == Permutations(Assignments) \cup Permutations(Workers)
              \cup Permutations(Answers) \cup Permutations(Sessions)

=============================================================================
