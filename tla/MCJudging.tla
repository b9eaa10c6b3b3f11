------------------------------ MODULE MCJudging ------------------------------
\* Small instances of Judging: users, problems and who submitted what.
EXTENDS Judging, TLC

CONSTANTS s1, s2, s3, u1, p1, w1, w2

OneOwner == [s \in Submissions |-> u1]
OneProblem == [s \in Submissions |-> p1]

\* All submissions are by u1 for p1 and workers are alike.
Symmetry == Permutations(Submissions) \union Permutations(Workers)
=============================================================================
