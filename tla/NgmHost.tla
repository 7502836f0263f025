------------------------------ MODULE NgmHost -------------------------------
(***************************************************************************)
(* What a vhost needs besides its file: a php-fpm that listens on its      *)
(* socket, a certificate that exists, and a master configuration that      *)
(* includes it.  The module composes NgmPools, NgmCerts and NgmProvision   *)
(* with the requests that use them: Apply, CertIssue, CertRenew, the pages *)
(* and commands that look at certificates, and provisioning.  Sources:     *)
(* internal/app/certs.go, internal/app/template.go, cmdCert and            *)
(* cmdProvision of cmd/ngm/main.go and the certificate handlers of         *)
(* internal/web/server.go.                                                 *)
(*                                                                         *)
(* Abstractions.                                                           *)
(*  - Apply is what NgmApply shows of it: the sites are rendered and       *)
(*    published one by one, then the directory is tested and loaded or the *)
(*    files it changed are put back.  Pending rows, verdicts, limits and   *)
(*    failures of files and reloads are in NgmApply.                       *)
(*  - Every site is a PHP site; the text of a vhost is its PHP version and *)
(*    which of the two certificate paths it names.                         *)
(***************************************************************************)
EXTENDS NgmPools, NgmCerts, NgmProvision, FiniteSets

CONSTANTS
    Workers,  \* requests that can be in progress at once
    NoSite,   \* no enabled site
    NoVhost,  \* no vhost
    MaxOps,   \* bound on the requests and on the writes of sites
    MaxEvents \* bound on what happens to certificates and pools by themselves

ASSUME HostAssumption ==
    /\ NoSite \notin Versions
    /\ MaxOps \in Nat /\ MaxEvents \in Nat

VARIABLES
    site,    \* the PHP version of an enabled site
    vhost,   \* the vhost files
    served,  \* what nginx has loaded: a vhost and its certificate, 0: fallback
    call,    \* the requests in progress
    looked,  \* history: the sites whose alias to a suffixed certificate was
             \* seen to since anything happened to their certificates
    tested,  \* history: the master configurations nginx -t accepted
    ops,     \* requests and writes so far, see MaxOps
    events   \* events so far, see MaxEvents

hostVars == <<site, vhost, served>>
histVars == <<looked, tested>>
vars == <<poolVars, certVars, provVars, hostVars, call, histVars, ops, events>>

-----------------------------------------------------------------------------
(* Types and initial state *)

Vhost == [ver : Versions, tls : {"le", "self"}]
Loaded == [ver : Versions, tls : {"le", "self"}, cert : 0 .. MaxRuns]

ASSUME VhostAssumption == NoVhost \notin Vhost \cup Loaded

\* S is what is to be renewed or applied; todo, changed, before and failed
\* belong to its Apply: the sites left, the files it changed, the vhost files
\* when it began, and whether some site could not be rendered.  company is a
\* history field: whether other requests were at the same sites since the call
\* began, or their rows or certificates were changed from outside.
Call == [kind    : {"none", "look", "issue", "renew", "apply"},
         pc      : {"idle", "alias", "clear", "link", "decide", "certbot",
                    "verify", "wait", "render"},
         then    : {"done", "decide", "verify"},
         S       : SUBSET Domains,
         todo    : SUBSET Domains,
         changed : SUBSET Domains,
         before  : [Domains -> Vhost \cup {NoVhost}],
         failed  : BOOLEAN,
         company : {"none", "requests", "changes"}]

NoCall == [kind |-> "none", pc |-> "idle", then |-> "done", S |-> {},
           todo |-> {}, changed |-> {},
           before |-> [d \in Domains |-> NoVhost],
           failed |-> FALSE, company |-> "none"]

\* Every variable has its type.
TypeOK ==
    /\ PoolsTypeOK /\ CertsTypeOK /\ ProvisionTypeOK
    /\ site \in [Domains -> Versions \cup {NoSite}]
    /\ vhost \in [Domains -> Vhost \cup {NoVhost}]
    /\ served \in [Domains -> Loaded \cup {NoVhost}]
    /\ call \in [Workers -> Call]
    /\ looked \subseteq Domains
    /\ tested \subseteq Masters
    /\ ops \in 0 .. MaxOps
    /\ events \in 0 .. MaxEvents

Init ==
    /\ PoolsInit /\ CertsInit /\ ProvisionInit
    /\ site = [d \in Domains |-> NoSite]
    /\ vhost = [d \in Domains |-> NoVhost]
    /\ served = vhost
    /\ call = [w \in Workers |-> NoCall]
    /\ looked = {} /\ tested = {master} \ {NoMaster}
    /\ ops = 0 /\ events = 0

\* What nginx -t looks at: the master configuration and every file it names,
\* which nginx opens.
Valid(files) ==
    /\ master \in GoodMasters
    /\ \A d \in Domains :
          files[d] # NoVhost /\ files[d].tls = "le" => LeCert(d) # 0

\* The vhosts nginx runs after it has loaded these files.
LoadedFrom(files) ==
    [d \in Domains |->
        IF files[d] = NoVhost THEN NoVhost
        ELSE [ver |-> files[d].ver, tls |-> files[d].tls,
              cert |-> IF files[d].tls = "le" THEN LeCert(d) ELSE 0]]

-----------------------------------------------------------------------------
(* Requests *)

Spend == ops < MaxOps /\ ops' = ops + 1

\* w continues as c and does something to the certificates of T.
Continues(w, c, T) ==
    call' = [x \in Workers |->
                IF x = w THEN c
                ELSE IF call[x].S \cap T # {} /\ call[x].company = "none"
                THEN [call[x] EXCEPT !.company = "requests"]
                ELSE call[x]]

\* The row or the certificates of d are changed by no request of call.
Disturbed(d) ==
    call' = [x \in Workers |-> IF d \in call[x].S
                               THEN [call[x] EXCEPT !.company = "changes"]
                               ELSE call[x]]

\* applyMu: nobody is between the first file and the reload.
ApplyMuFree == \A w \in Workers : call[w].pc # "render"

\* A site is added, switched to another PHP version, or disabled.
WriteSite(d, v) ==
    /\ Spend /\ v # site[d]
    /\ site' = [site EXCEPT ![d] = v]
    /\ Disturbed(d)
    /\ UNCHANGED <<poolVars, certVars, provVars, vhost, served, histVars, events>>

Starts(w, kind, pc, S) ==
    /\ Spend /\ call[w].pc = "idle"
    /\ call' = [call EXCEPT ![w] = [NoCall EXCEPT
                  !.kind = kind, !.pc = pc, !.S = S,
                  !.company = IF \A x \in Workers : call[x].S \cap S = {}
                              THEN "none" ELSE "requests"]]
    /\ UNCHANGED <<poolVars, certVars, provVars, hostVars, histVars, events>>

\* GetCertInfo: the list of sites, the certificate pages and commands.
CertInfo(w, d) == Starts(w, "look", "alias", {d})

\* CertIssue: nothing at all before provisioning is done.
CertIssue(w, d) == EnsureProvisionReady /\ Starts(w, "issue", "alias", {d})

\* CertRenew of one site or of all of them, then Apply of all.
CertRenew(w, S) == Starts(w, "renew", "certbot", S)

\* Apply of one existing site, or of all.
Apply(w, S) == Starts(w, "apply", "wait", S)

-----------------------------------------------------------------------------
(* The alias of a certificate: certs.ensureLiveAlias *)

Site(w) == CHOOSE d \in Domains : call[w].S = {d}

\* The alias is seen to; what comes next was decided by the caller.
AliasDone(w, d) ==
    /\ Continues(w, CASE call[w].then = "verify" -> [call[w] EXCEPT !.pc = "verify"]
                      [] call[w].kind = "look"   -> NoCall
                      [] OTHER                   -> [call[w] EXCEPT !.pc = "decide"], {})
    /\ looked' = IF call[w].company = "changes" THEN looked
                  ELSE (looked \cup {d}) \cap {e \in Domains : alt[e] # 0}

LookForAlias(w) ==
    LET d == Site(w) IN
    /\ call[w].pc = "alias"
    /\ IF NeedsAlias(d)
       THEN Continues(w, [call[w] EXCEPT !.pc = "clear"], {}) /\ UNCHANGED looked
       ELSE AliasDone(w, d)
    /\ UNCHANGED <<poolVars, certVars, provVars, hostVars, tested, ops, events>>

ClearAlias(w) ==
    LET d == Site(w) IN
    /\ call[w].pc = "clear"
    /\ ClearLive(d)
    /\ Continues(w, [call[w] EXCEPT !.pc = "link"], {d})
    /\ UNCHANGED <<poolVars, provVars, hostVars, histVars, ops, events>>

\* GetCertInfo ignores the error, after certbot it ends the request.
MakeAlias(w) ==
    LET d == Site(w) IN
    /\ call[w].pc = "link"
    /\ \E ok \in BOOLEAN :
          /\ Symlink(d, ok)
          /\ IF ok \/ call[w].then # "verify" THEN AliasDone(w, d)
             ELSE Continues(w, NoCall, {}) /\ UNCHANGED looked
    /\ UNCHANGED <<poolVars, provVars, hostVars, tested, ops, events>>

-----------------------------------------------------------------------------
(* IssueCert, RenewCert and RenewAll: certs/certbot.go *)

DecideIssue(w) ==
    /\ call[w].pc = "decide"
    /\ Continues(w, IF MayIssue(Site(w)) THEN [call[w] EXCEPT !.pc = "certbot"]
                    ELSE NoCall, {})
    /\ UNCHANGED <<poolVars, certVars, provVars, hostVars, histVars, ops, events>>

\* certbot has been at the sites of S: their aliases are to be seen to again.
RunCertonly(w) ==
    LET d == Site(w) IN
    /\ call[w].pc = "certbot" /\ call[w].kind = "issue"
    /\ \E ok \in BOOLEAN :
          /\ Certonly(d, ok)
          /\ Continues(w, IF ok THEN [call[w] EXCEPT !.pc = "alias", !.then = "verify"]
                          ELSE NoCall, {d})
    /\ looked' = looked \ {d}
    /\ UNCHANGED <<poolVars, provVars, hostVars, tested, ops, events>>

\* The new certificate must be readable; then the site is applied.
VerifyIssued(w) ==
    /\ call[w].pc = "verify"
    /\ Continues(w, IF LeExists(Site(w)) THEN [call[w] EXCEPT !.pc = "wait"]
                    ELSE NoCall, {})
    /\ UNCHANGED <<poolVars, certVars, provVars, hostVars, histVars, ops, events>>

\* An error, even after some renewals, ends the request without an Apply.
RunRenew(w) ==
    /\ call[w].pc = "certbot" /\ call[w].kind = "renew"
    /\ \E ok \in BOOLEAN :
          /\ IF call[w].S = Domains THEN RenewAll(ok) ELSE RenewCert(Site(w), ok)
          /\ Continues(w, IF ok THEN [call[w] EXCEPT !.pc = "wait", !.S = Domains]
                          ELSE NoCall, call[w].S)
    /\ UNCHANGED <<poolVars, provVars, hostVars, histVars, ops, events>>

-----------------------------------------------------------------------------
(* Apply, with what buildTemplateData does for a site *)

TakeApplyMu(w) ==
    /\ call[w].pc = "wait" /\ ApplyMuFree
    /\ Continues(w, [call[w] EXCEPT !.pc = "render", !.todo = call[w].S,
                                    !.before = vhost], {})
    /\ UNCHANGED <<poolVars, certVars, provVars, hostVars, histVars, ops, events>>

Taking(w, d) ==
    /\ call[w].pc = "render"
    /\ d \in call[w].todo /\ \A e \in call[w].todo : d <= e

\* The file of d is now f.
Published(w, d, f) ==
    /\ vhost' = [vhost EXCEPT ![d] = f]
    /\ Continues(w, [call[w] EXCEPT
          !.todo = @ \ {d},
          !.changed = IF f = vhost[d] THEN @ ELSE @ \cup {d}], {})

\* A site that cannot be rendered keeps its file; the others go on.
SkipFailed(w, d) ==
    /\ Continues(w, [call[w] EXCEPT !.todo = @ \ {d}, !.failed = TRUE], {})
    /\ UNCHANGED vhost

RemoveSite(w, d) ==
    /\ Taking(w, d) /\ site[d] = NoSite
    /\ Published(w, d, NoVhost)
    /\ UNCHANGED <<poolVars, certVars, provVars, site, served, histVars, ops, events>>

\* The pool comes first, then the certificate, then the file.  Nobody else
\* writes pools meanwhile, and a certificate that goes between its check and
\* the file is as one that goes right after: the three are one step.
RenderSite(w, d) ==
    LET v == site[d] IN
    /\ Taking(w, d) /\ v # NoSite
    /\ \E poolOk, certOk \in BOOLEAN, tls \in {"le", "self"} :
          /\ EnsurePool(d, v, poolOk)
          /\ IF poolOk THEN ChooseCert(d, tls, certOk)
             ELSE ~certOk /\ tls = "self" /\ UNCHANGED certVars
          /\ IF poolOk /\ certOk THEN Published(w, d, [ver |-> v, tls |-> tls])
             ELSE SkipFailed(w, d)
    /\ UNCHANGED <<provVars, site, served, histVars, ops, events>>

\* Nothing changed: nginx is neither tested nor reloaded.
NothingChanged(w) ==
    /\ call[w].pc = "render" /\ call[w].todo = {} /\ call[w].changed = {}
    /\ Continues(w, NoCall, {})
    /\ UNCHANGED <<poolVars, certVars, provVars, hostVars, histVars, ops, events>>

\* A bug: the changed files are left as they are when nginx -t rejects them.
RolledBack_never(w) == vhost

RolledBack(w) == [d \in Domains |-> IF d \in call[w].changed
                                    THEN call[w].before[d] ELSE vhost[d]]

\* nginx -t, then a reload; or the files are put back, and nginx reloads what
\* it then finds unless it rejects that too.
LoadOrRollBack(w) ==
    /\ call[w].pc = "render" /\ call[w].todo = {} /\ call[w].changed # {}
    /\ IF Valid(vhost)
       THEN served' = LoadedFrom(vhost) /\ UNCHANGED vhost
       ELSE /\ vhost' = RolledBack(w)
            /\ served' = IF Valid(vhost') THEN LoadedFrom(vhost') ELSE served
    /\ Continues(w, NoCall, {})
    /\ UNCHANGED <<poolVars, certVars, provVars, site, histVars, ops, events>>

-----------------------------------------------------------------------------
(* Provisioning *)

ProvisionStep ==
    /\ \/ /\ \E t \in Masters : Spend /\ StartProvision(t)
          /\ UNCHANGED tested
       \/ /\ \E ok \in BOOLEAN : InstallMasterConfig(ok)
                                 \/ WriteProvisionReadyMarker(ok)
          /\ UNCHANGED <<tested, ops>>
       \/ /\ TestMaster(Valid(vhost))
          /\ tested' = IF Valid(vhost) THEN tested \cup {master} ELSE tested
          /\ UNCHANGED ops
       \/ KillProvision /\ UNCHANGED <<tested, ops>>
    /\ UNCHANGED <<poolVars, certVars, hostVars, call, looked, events>>

-----------------------------------------------------------------------------
(* What happens by itself *)

Event == events < MaxEvents /\ events' = events + 1

CertEvent ==
    /\ Event
    /\ \/ /\ \E g \in (1 .. runs) \ due : BecomeDue(g)
          /\ UNCHANGED <<call, looked>>
       \/ \E d \in Domains :
             /\ CertbotDelete(d) \/ HalfRestored(d)
             /\ Disturbed(d)
             /\ looked' = looked \ {d}
    /\ UNCHANGED <<poolVars, provVars, hostVars, tested, ops>>

FpmRestarts ==
    /\ Event
    /\ \E v \in Versions : fpm[v] # pools[v] /\ RestartFpm(v)
    /\ UNCHANGED <<certVars, provVars, hostVars, call, histVars, ops>>

-----------------------------------------------------------------------------
(* The specification *)

Request(w) ==
    \/ \E d \in Domains : CertInfo(w, d) \/ CertIssue(w, d) \/ Apply(w, {d})
    \/ \E S \in {Domains} \cup {{d} : d \in Domains} : CertRenew(w, S)
    \/ Apply(w, Domains)

RequestStep(w) ==
    \/ LookForAlias(w) \/ ClearAlias(w) \/ MakeAlias(w)
    \/ DecideIssue(w) \/ RunCertonly(w) \/ VerifyIssued(w) \/ RunRenew(w)
    \/ TakeApplyMu(w)
    \/ \E d \in Domains : RemoveSite(w, d) \/ RenderSite(w, d)
    \/ NothingChanged(w) \/ LoadOrRollBack(w)

Next ==
    \/ \E d \in Domains, v \in Versions \cup {NoSite} : WriteSite(d, v)
    \/ \E w \in Workers : Request(w) \/ RequestStep(w)
    \/ ProvisionStep
    \/ CertEvent
    \/ FpmRestarts

Spec == Init /\ [][Next]_vars

-----------------------------------------------------------------------------
(* Properties *)

\* Every vhost nginx serves passes to a socket a php-fpm listens on, through
\* version switches and rollbacks, unless a reload of that php-fpm failed: the
\* file that is then left behind makes the next EnsurePool report success.
SocketsListen ==
    \A d \in Domains :
        served[d] # NoVhost =>
            Listens(d, served[d].ver) \/ served[d].ver \in missed

\* Between applies nginx serves what the files say: rolled back files, and an
\* Apply that changed nothing, leave no vhost that only nginx or only the disk
\* knows, even while the master configuration is one nginx rejects.
DiskIsServed ==
    ApplyMuFree =>
        \A d \in Domains :
            IF vhost[d] = NoVhost THEN served[d] = NoVhost
            ELSE /\ served[d] # NoVhost
                 /\ served[d].ver = vhost[d].ver /\ served[d].tls = vhost[d].tls

\* The marker opens CertIssue only over a master configuration that nginx has
\* accepted, whatever later runs of `ngm provision init' failed or were killed.
ReadyMeansTested == EnsureProvisionReady => master \in tested

\* When no request is in progress, a certificate certbot has for a site is found
\* at live/<domain> by everybody, if anybody has looked since it came: removing
\* and making the alias is not atomic, and requests that race for it still leave
\* one.
AliasAtRest ==
    (\A w \in Workers : call[w].pc = "idle") =>
        \A d \in looked : alt[d] # 0 => LeExists(d)

Ends(w) == call[w].pc = "render" /\ call'[w].pc = "idle"

\* CertIssue with its Apply ends in the site being served with certbot's
\* certificate, suffixed or not, unless it reports an error or others changed
\* the site or its certificates meanwhile.
IssuedIsServed ==
    [][\A w \in Workers :
          LET d == Site(w) IN
          Ends(w) /\ call[w].kind = "issue" /\ call[w].company = "none"
          /\ site[d] # NoSite /\ ~call[w].failed /\ Valid(vhost)
          => served'[d] # NoVhost /\ served'[d].tls = "le"]_vars

\* An Apply of all the sites repairs the vhosts of certificates that are gone:
\* after it no file names a certificate that does not exist, and one certificate
\* that was deleted no longer makes nginx -t fail for all the other sites.
ApplyAllHeals ==
    [][\A w \in Workers :
          Ends(w) /\ call[w].S = Domains /\ call[w].company = "none" /\ ~call[w].failed
          /\ master \in GoodMasters
          => Valid(vhost')]_vars

\* "Reload nginx after renewal": when CertRenew with its Apply ends well, nginx
\* serves the certificates that are on disk.
RenewedIsLoaded ==
    [][\A w \in Workers :
          Ends(w) /\ call[w].kind = "renew" /\ call[w].company = "none" /\ ~call[w].failed
          => \A d \in Domains :
                served'[d] # NoVhost /\ served'[d].tls = "le"
                => served'[d].cert = LeCert(d)]_vars

=============================================================================
