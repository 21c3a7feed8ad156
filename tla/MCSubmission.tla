--------------------------- MODULE MCSubmission ---------------------------
(* Instances of Submission for TLC: two shells of one user, one of another. *)
EXTENDS Submission, TLC

CONSTANTS a1, a2, b1

ThreeShells == {a1, a2, b1}
TwoShells == {a1, b1}
OneShell == {a1}
LoginOfShell == [c \in {a1, a2, b1} |-> IF c = b1 THEN "b" ELSE "a"]
Chains == {<<>>, <<1>>, <<2>>}
SameUser == Permutations({a1, a2})
=============================================================================
