------------------------------- MODULE MCHost --------------------------------
(* Small instances of NgmHost for TLC.  Requests are alike and so are the   *)
(* PHP versions, so both can be permuted.                                    *)
EXTENDS NgmHost, TLC

OneDomain  == 1 .. 1
TwoDomains == 1 .. 2

\* Names that differ in . and - alone: makeKey gives them one key.
OneKey == [d \in Domains |-> 1]

Symmetry == Permutations(Workers) \cup Permutations(Versions)

=============================================================================
