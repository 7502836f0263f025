------------------------------ MODULE MCBackup -------------------------------
(* Small instances of NgmBackup for TLC: an operator and a user, in either   *)
(* order of names, or an operator, a reseller and a user.                    *)
EXTENDS NgmBackup

TwoNames   == 1 .. 2
ThreeNames == 1 .. 3
TwoPackages == 1 .. 2
OneDomain  == 1 .. 1

=============================================================================
