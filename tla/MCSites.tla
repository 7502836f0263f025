------------------------------ MODULE MCSites -------------------------------
(* Instances of NgmSites for TLC: the root sites r1 and r2, the name s1 below *)
(* r1, and the requests the configurations choose from.                       *)
EXTENDS NgmSites, TLC

CONSTANTS r1, r2, s1, s2, u1, u2

UpOf == [d \in Domains |-> IF d \in {s1, s2} THEN r1 ELSE NoDomain]

OneEach == [u \in Users |-> [roots |-> 1, subs |-> 1]]
OneOrNone == (u1 :> [roots |-> 1, subs |-> -1]) @@ (u2 :> [roots |-> -1, subs |-> 0])

\* Every name in the place its name says; NoDomain for s1 is a root of its own.
Adds(kinds) == {r \in [user : Users, dom : Domains,
                        parent : Domains \cup {NoDomain}] :
                    <<r.dom, r.parent>> \in kinds}

FixedAdds == Adds({<<d, UpOf[d]>> : d \in Domains})
AnyAdds == Adds({<<d, p>> \in Domains \X (Domains \cup {NoDomain}) :
                    p \in {UpOf[d], NoDomain}})

\* Edits that may hand a site to someone, and edits of the parent alone.
Edits(users) == {r \in [user : users, dom : Domains,
                        parent : Domains \cup {NoDomain}, set : BOOLEAN] :
                    r.parent \in {UpOf[r.dom], NoDomain}}

AnyEdits == Edits(Users \cup {NoUser})
ParentEdits == Edits({NoUser})
NoEdits == {}
=============================================================================
