----------------------------- MODULE MCPersistTx -----------------------------
\* Three submissions of one user: s1 and s3 for p1, s2 for p2; s3 in another
\* language.
EXTENDS PersistTx, TLC

CONSTANTS s1, s2, s3, u1, p1, p2

OneOwner == [s \in Submissions |-> u1]
SomeProblems == [s \in Submissions |-> IF s = s2 THEN p2 ELSE p1]
SomeLanguages == [s \in Submissions |-> IF s = s3 THEN "cpp" ELSE "python"]
=============================================================================
