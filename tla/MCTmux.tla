------------------------------- MODULE MCTmux -------------------------------
(* Instances of TmuxExecutor.  *)
EXTENDS TmuxExecutor
CONSTANTS a, b
AllJobs == {a, b}
OnlyA == {a}
OnlyB == {b}
Nobody == {}
APrefixOfB == {<<a, b>>}
=============================================================================
