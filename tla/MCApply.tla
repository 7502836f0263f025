------------------------------- MODULE MCApply -------------------------------
(* Small instances of NgmApply for TLC: the values of the sets of sites,     *)
(* limits and faults that the configurations choose from.                    *)
EXTENDS NgmApply

OneDomain  == 1 .. 1
TwoDomains == 1 .. 2
NoDomains  == {}

Unlimited  == {0}
ZeroOrOne  == {0, 1}

\* Failures of one step that the code reacts to.
StepFaults == {"io", "test"}

=============================================================================
