------------------------------ MODULE NgmCerts ------------------------------
(***************************************************************************)
(* The certificates of the sites: certbot's live directory, the alias ngm  *)
(* makes in it, and which certificate a vhost would name.  Sources:        *)
(* internal/certs/certbot.go and the TLS half of internal/app/template.go. *)
(* The operations are steps of the requests of NgmHost.                    *)
(*                                                                         *)
(* Abstractions.                                                           *)
(*  - A certificate is the number of the run of certbot that made it; a    *)
(*    number in due is within the 30 days in which IssueCert may replace   *)
(*    it.                                                                  *)
(*  - A site has at most two lineages: live/<domain>, and the suffixed one *)
(*    certbot makes when that name is taken (live/<domain>-0001), so the   *)
(*    choice of the best of several suffixed lineages is left out, and so  *)
(*    is a suffixed name that belongs to another site.                     *)
(*  - The self-signed fallback is made when it is first needed.            *)
(***************************************************************************)
EXTENDS NgmDomains

CONSTANTS
    MaxRuns,     \* bound on the runs of certbot that make a certificate
    CertFaults   \* which of "certbot" and "openssl" can fail

ASSUME CertsAssumption ==
    /\ MaxRuns \in Nat
    /\ CertFaults \subseteq {"certbot", "openssl"}

VARIABLES
    live,      \* what live/<domain> is
    base,      \* the certificate in the directory live/<domain>, 0: none
    alt,       \* the certificate in live/<domain>-0001, 0: none
    selfsigned,\* the sites that have a self-signed fallback
    runs,      \* how many runs of certbot made a certificate
    due        \* the certificates that expire within 30 days

certVars == <<live, base, alt, selfsigned, runs, due>>

\* "whole": a directory with both files; "half": one that lacks a file;
\* "link": the alias ngm makes of the suffixed directory.
CertsTypeOK ==
    /\ live \in [Domains -> {"none", "whole", "half", "link"}]
    /\ base \in [Domains -> 0 .. MaxRuns]
    /\ alt \in [Domains -> 0 .. MaxRuns]
    /\ selfsigned \subseteq Domains
    /\ runs \in 0 .. MaxRuns
    /\ due \subseteq 1 .. MaxRuns

CertsInit ==
    /\ live = [d \in Domains |-> "none"]
    /\ base = [d \in Domains |-> 0]
    /\ alt = [d \in Domains |-> 0]
    /\ selfsigned = {}
    /\ runs = 0
    /\ due = {}

\* The certificate read through live/<domain>/fullchain.pem and privkey.pem,
\* 0 when a file is missing or the alias dangles.
LeCert(d) == CASE live[d] = "whole" -> base[d]
               [] live[d] = "link"  -> alt[d]
               [] OTHER             -> 0

\* A bug: the alias is looked at, and not the files behind it.
LeExists_lstat(d) == live[d] \in {"whole", "link"}

LeExists(d) == LeCert(d) # 0

-----------------------------------------------------------------------------
(* ensureLiveAlias, in three steps: others can act between them *)

\* A bug: a directory that is there but incomplete is not repaired.
NeedsAlias_ifMissing(d) == live[d] = "none" /\ alt[d] # 0

\* The files are not all there and there is a lineage to alias to.
NeedsAlias(d) == ~LeExists(d) /\ alt[d] # 0

\* What is at live/<domain> is removed, or renamed when it is a directory.
ClearLive(d) ==
    /\ live' = [live EXCEPT ![d] = "none"]
    /\ base' = [base EXCEPT ![d] = 0]
    /\ UNCHANGED <<alt, selfsigned, runs, due>>

\* os.Symlink fails when somebody else has made the name meanwhile.
Symlink(d, ok) ==
    /\ ok = (live[d] = "none")
    /\ live' = IF ok THEN [live EXCEPT ![d] = "link"] ELSE live
    /\ UNCHANGED <<base, alt, selfsigned, runs, due>>

-----------------------------------------------------------------------------
(* IssueCert, RenewCert and RenewAll, as far as certbot does them *)

\* IssueCert refuses to replace a certificate that is valid for longer.
MayIssue(d) == LeExists(d) => LeCert(d) \in due

\* certbot certonly --cert-name d --keep-until-expiring: it keeps a certificate
\* that is not due, renews or creates live/<domain>, or writes a suffixed
\* lineage: it never replaces what is at live/<domain> and is not its own.  The
\* request kills it after two minutes, when it may have done its work.
Certonly(d, ok) ==
    \/ /\ ok /\ LeExists(d) /\ LeCert(d) \notin due
       /\ UNCHANGED certVars
    \/ /\ ok \/ "certbot" \in CertFaults
       /\ runs < MaxRuns
       /\ runs' = runs + 1
       /\ \/ /\ live[d] \in {"none", "whole"}
             /\ live' = [live EXCEPT ![d] = "whole"]
             /\ base' = [base EXCEPT ![d] = runs']
             /\ UNCHANGED alt
          \/ /\ live[d] # "whole"
             /\ alt' = [alt EXCEPT ![d] = runs']
             /\ UNCHANGED <<live, base>>
       /\ UNCHANGED <<selfsigned, due>>
    \/ /\ ~ok /\ "certbot" \in CertFaults
       /\ UNCHANGED certVars

\* certbot renew on the lineages of B in live/<domain> and of A suffixed: those
\* that are due are renewed or, when it fails, some of them.
Renew(B, A, ok) ==
    LET dueB == {d \in B : base[d] \in due}
        dueA == {d \in A : alt[d] \in due} IN
    \E doneB \in SUBSET dueB, doneA \in SUBSET dueA :
        /\ ok \/ "certbot" \in CertFaults
        /\ ok => doneB = dueB /\ doneA = dueA
        /\ doneB \cup doneA # {} => runs < MaxRuns
        /\ runs' = IF doneB \cup doneA = {} THEN runs ELSE runs + 1
        /\ base' = [d \in Domains |-> IF d \in doneB THEN runs' ELSE base[d]]
        /\ alt' = [d \in Domains |-> IF d \in doneA THEN runs' ELSE alt[d]]
        /\ UNCHANGED <<live, selfsigned, due>>

\* renew --cert-name d: an error when certbot has no lineage of that name.
RenewCert(d, ok) ==
    IF live[d] = "whole" THEN Renew({d}, {}, ok)
    ELSE ~ok /\ UNCHANGED certVars

RenewAll(ok) ==
    Renew({d \in Domains : base[d] # 0}, {d \in Domains : alt[d] # 0}, ok)

-----------------------------------------------------------------------------
(* The certificate a vhost names *)

\* The fallback is made by openssl when it is not there.
ensureSelfSignedCert(d, ok) ==
    /\ ~ok => d \notin selfsigned /\ "openssl" \in CertFaults
    /\ selfsigned' = IF ok THEN selfsigned \cup {d} ELSE selfsigned
    /\ UNCHANGED <<live, base, alt, runs, due>>

\* A bug: a fallback that is there is used before certbot's files are looked for.
ChooseCert_fallbackFirst(d, tls, ok) ==
    IF d \in selfsigned THEN tls = "self" /\ ok /\ UNCHANGED certVars
    ELSE \/ LeExists(d) /\ tls = "le" /\ ok /\ UNCHANGED certVars
         \/ ~LeExists(d) /\ tls = "self" /\ ensureSelfSignedCert(d, ok)

\* The paths of the vhost: certbot's if both files are there.
ChooseCert(d, tls, ok) ==
    \/ LeExists(d) /\ tls = "le" /\ ok /\ UNCHANGED certVars
    \/ ~LeExists(d) /\ tls = "self" /\ ensureSelfSignedCert(d, ok)

-----------------------------------------------------------------------------
(* The environment *)

\* Time passes: a certificate enters its last 30 days.
BecomeDue(g) ==
    /\ due' = due \cup {g}
    /\ UNCHANGED <<live, base, alt, selfsigned, runs>>

\* certbot delete removes a lineage; an alias of it dangles.
CertbotDelete(d) ==
    /\ \/ /\ live[d] = "whole"
          /\ live' = [live EXCEPT ![d] = "none"]
          /\ base' = [base EXCEPT ![d] = 0]
          /\ UNCHANGED alt
       \/ /\ alt[d] # 0
          /\ alt' = [alt EXCEPT ![d] = 0]
          /\ UNCHANGED <<live, base>>
    /\ UNCHANGED <<selfsigned, runs, due>>

\* A directory with one of the two files is left at live/<domain>, as by a
\* restore of a backup that could copy only one of them.
HalfRestored(d) ==
    /\ live[d] = "none"
    /\ live' = [live EXCEPT ![d] = "half"]
    /\ UNCHANGED <<base, alt, selfsigned, runs, due>>

=============================================================================
