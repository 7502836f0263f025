---------------------------- MODULE NgmDirectory ----------------------------
(***************************************************************************)
(* What the apply pipeline promises whoever asks for sites, with the       *)
(* pipeline itself taken away: no staging, no loop over the rows, no test, *)
(* no rollback.  nginx goes in one step from one accepted set of vhosts to *)
(* another, and each vhost it starts to serve is the one asked for at that *)
(* moment or the copy kept of the one it served before.                    *)
(* NgmApply!ImplementsDirectory says that the pipeline of                  *)
(* internal/app/apply.go and internal/nginx/manager.go does no more.       *)
(***************************************************************************)

CONSTANTS
    Domains,   \* site names
    Texts,     \* the vhost texts the rows can ask for
    Accepted,  \* those nginx accepts
    NoConf     \* no vhost

VARIABLES
    asked,   \* the vhost the rows ask for
    served,  \* the vhost nginx serves
    kept     \* the copy that is kept of a vhost that was served

vars == <<asked, served, kept>>

Init ==
    /\ asked = [d \in Domains |-> NoConf]
    /\ served = [d \in Domains |-> NoConf]
    /\ kept = [d \in Domains |-> NoConf]

\* Somebody adds, edits, enables, disables or deletes one site.
Ask(d, c) ==
    /\ asked' = [asked EXCEPT ![d] = c]
    /\ UNCHANGED <<served, kept>>

\* What is served for d is copied before it is replaced: nothing else is kept.
Keep(d) ==
    /\ served[d] # NoConf
    /\ kept' = [kept EXCEPT ![d] = served[d]]
    /\ UNCHANGED <<asked, served>>

\* All the sites of S are served as asked, in one step.
Install(S) ==
    /\ \A d \in S : asked[d] \in Accepted \cup {NoConf}
    /\ served' = [d \in Domains |-> IF d \in S THEN asked[d] ELSE served[d]]
    /\ UNCHANGED <<asked, kept>>

\* A failed apply leaves a site that had no vhost with the copy kept of it.
GoBack(S) ==
    /\ \A d \in S : served[d] = NoConf /\ kept[d] # NoConf
    /\ served' = [d \in Domains |-> IF d \in S THEN kept[d] ELSE served[d]]
    /\ UNCHANGED <<asked, kept>>

\* A site that is being deleted is no longer served, its row goes afterwards.
Withdraw(d) ==
    /\ served' = [served EXCEPT ![d] = NoConf]
    /\ UNCHANGED <<asked, kept>>

Next ==
    \/ \E d \in Domains, c \in Texts \cup {NoConf} : Ask(d, c)
    \/ \E d \in Domains : Keep(d) \/ Withdraw(d)
    \/ \E S \in SUBSET Domains : Install(S) \/ GoBack(S)

Spec == Init /\ [][Next]_vars

=============================================================================
