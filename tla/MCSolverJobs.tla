---------------------------- MODULE MCSolverJobs ----------------------------
(***************************************************************************)
(* Small instances of SolverJobs for TLC.                                  *)
(***************************************************************************)
EXTENDS SolverJobs, TLC

CONSTANTS a, b

OneJob == {a}
OneCall == {<<a>>}
TwoJobs == {a, b}
TwoCalls == {<<a>>, <<b>>}
PairCall == {<<a, b>>, <<b, a>>}

\* The two jobs may be exchanged: no call prefers one.
EitherJob == Permutations(TwoJobs)
=============================================================================
