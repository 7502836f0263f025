------------------------------ MODULE MCPanel -------------------------------
(* Instances of NgmPanel for TLC: one user, u, and one reseller, r. *)
EXTENDS NgmPanel, TLC

CONSTANTS u, r

Kinds(ks, n) == {[kind |-> k, name |-> n] : k \in ks}

\* Users and resellers are managed; the reseller's own session counts, too.
Administration ==
    Kinds({"user new", "user edit", "user delete"}, u)
        \cup Kinds({"reseller new", "reseller edit", "reseller delete",
                    "login"}, r)

\* One user logs in while it is managed.
Logins == Kinds({"user new", "user edit", "user delete", "login"}, u)

Symmetry == Permutations(Ids) \cup Permutations(Workers)
=============================================================================
