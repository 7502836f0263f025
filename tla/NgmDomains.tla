----------------------------- MODULE NgmDomains -----------------------------
(* The sites of the host: the constant that NgmPools and NgmCerts share.     *)
EXTENDS Integers

CONSTANT Domains   \* site names, integers in the ORDER BY of ListSites

ASSUME DomainsAssumption == Domains \subseteq Int

=============================================================================
