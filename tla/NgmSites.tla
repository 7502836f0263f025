------------------------------ MODULE NgmSites ------------------------------
(***************************************************************************)
(* The tree of sites and its DNS: SiteAdd, SiteEdit and SiteDelete of      *)
(* internal/app/site.go with the checks they make of parents and package   *)
(* limits, and the BIND provider of internal/dns/bind that they call.  The *)
(* panel serves requests concurrently and neither the operations nor the   *)
(* provider takes a lock, so every statement, file and command is a step   *)
(* of its own.                                                             *)
(*                                                                         *)
(* Abstractions.                                                           *)
(*  - A zone file is the set of the names that have an address record in   *)
(*    it; the address of the zone's own name is always there, so a set is  *)
(*    empty iff there is no file.  SOA, NS and the template's records are  *)
(*    the same in every file and are left out, but for Aliases.            *)
(*  - A default address is configured (EnsureSubdomainSite adds nothing    *)
(*    without one), and so are rndc and the checking tools: config.go      *)
(*    fills them in.                                                       *)
(*  - Up[d] is d without its first label: the only parent the name tests   *)
(*    of validateParentDomain let through.                                 *)
(*  - Package limits do not change while sites do; -1 is unlimited.        *)
(*  - What SiteAdd and SiteEdit do after the row and the DNS (apply and    *)
(*    certificate) is not here, see NgmHost.  Requests for absent sites    *)
(*    are refused at once and change nothing.                              *)
(*                                                                         *)
(* A definition marked "a bug" is not the code: it is a mistake someone    *)
(* could make there, kept to show which property would notice it.          *)
(***************************************************************************)
EXTENDS Integers, FiniteSets

CONSTANTS
    Domains,      \* site names
    NoDomain,     \* no parent: a root site
    Up,           \* the name above each name, NoDomain if that is no site
    Users,        \* owners of sites
    NoUser,       \* the owner of a site that does not exist
    Limit,        \* how many roots and subdomains each may have
    Aliases,      \* the names the zone template gives a CNAME
    AddRequests,  \* what SiteAdd is called with
    EditRequests, \* what SiteEdit is called with
    Deletable,    \* what SiteDelete is called with
    DnsEnabled,   \* dns.enabled
    Faults,       \* which of the failures of AllFaults can happen
    Workers       \* requests served at the same time

\* -1: no limit.
Limits == [roots : Nat \cup {-1}, subs : Nat \cup {-1}]

AllFaults == {"dns", "nginx", "db", "crash", "restart"}

ASSUME SitesAssumption ==
    /\ NoDomain \notin Domains
    /\ NoUser \notin Users
    /\ Up \in [Domains -> Domains \cup {NoDomain}]
    /\ \A d \in Domains : Up[d] # d
    /\ Limit \in [Users -> Limits]
    /\ Aliases \subseteq Domains
    /\ AddRequests \subseteq [user : Users, dom : Domains,
                              parent : Domains \cup {NoDomain}]
    /\ EditRequests \subseteq [user : Users \cup {NoUser}, dom : Domains,
                               parent : Domains \cup {NoDomain}, set : BOOLEAN]
    /\ Deletable \subseteq Domains
    /\ DnsEnabled \in BOOLEAN
    /\ Faults \subseteq AllFaults
    /\ IsFiniteSet(Domains)
    /\ IsFiniteSet(Workers) /\ Workers # {}

VARIABLES
    sites,    \* the sites table: owner and parent_domain
    zone,     \* ZonesDir/<domain>.zone
    include,  \* the zones named_conf_include lists
    loaded,   \* the zones named knows of, from the include it read last
    served,   \* what named answers for each zone, {}: nothing
    calls,    \* per worker, the operation it executes
    faulted   \* history: has any tool, file, statement or process failed so far

dns  == <<zone, include, loaded, served>>
vars == <<sites, zone, include, loaded, served, calls, faulted>>

-----------------------------------------------------------------------------
(* Types and initial state *)

Site == [owner : Users \cup {NoUser}, parent : Domains \cup {NoDomain}]

NoSite == [owner |-> NoUser, parent |-> NoDomain]

ProviderSteps == {"zload", "zwrite", "zcheck", "zremove", "list", "include",
                  "reconfig", "reload"}

\* Where an operation can stand between its request and its answer.
Steps == {"limit", "lookup", "upsert", "compensate", "echeck", "esave",
          "dependents", "vhost", "row"} \cup ProviderSteps

\* parent is the one asked for by an add, the one read by a delete or the
\* new one of an edit; old is the parent an edit read.
Call == [pc      : Steps \cup {"idle", "done"},
         phase   : {"add", "delete", "restore", "edit"},
         user    : Users \cup {NoUser},
         dom     : Domains \cup {NoDomain},
         parent  : Domains \cup {NoDomain},
         old     : Domains \cup {NoDomain},
         set     : BOOLEAN,          \* ParentDomainSet
         created : BOOLEAN,          \* siteCreated
         buf     : SUBSET Domains,   \* the zone as loadZone read it
         list    : SUBSET Domains,   \* the names zoneNames found
         ok      : BOOLEAN]          \* done: without an error

NoCall == [pc |-> "idle", phase |-> "add", user |-> NoUser, dom |-> NoDomain,
           parent |-> NoDomain, old |-> NoDomain, set |-> FALSE,
           created |-> FALSE, buf |-> {}, list |-> {}, ok |-> FALSE]

\* Every variable has its type.
TypeOK ==
    /\ sites \in [Domains -> Site]
    /\ zone \in [Domains -> SUBSET Domains]
    /\ include \subseteq Domains
    /\ loaded \subseteq Domains
    /\ served \in [Domains -> SUBSET Domains]
    /\ calls \in [Workers -> Call]
    /\ faulted \in BOOLEAN

Init ==
    /\ sites = [d \in Domains |-> NoSite]
    /\ zone = [d \in Domains |-> {}]
    /\ include = {}
    /\ loaded = {}
    /\ served = [d \in Domains |-> {}]
    /\ calls = [w \in Workers |-> NoCall]
    /\ faulted = FALSE

-----------------------------------------------------------------------------
(* Helpers *)

Exists(d) == sites[d].owner # NoUser

RootsOf(u) == {d \in Domains : sites[d].owner = u /\ sites[d].parent = NoDomain}

SubsOf(u) == {d \in Domains : sites[d].owner = u /\ sites[d].parent # NoDomain}

Room_offByOne(limit, current) == limit = -1 \/ current <= limit \* a bug

\* enforceMaxLimit: is there room for one more.
Room(limit, current) == limit = -1 \/ current < limit

\* The limit a site of u counts against: roots and subdomains apart.
HasRoom(u, parent) ==
    IF parent = NoDomain
    THEN Room(Limit[u].roots, Cardinality(RootsOf(u)))
    ELSE Room(Limit[u].subs, Cardinality(SubsOf(u)))

\* validateParentDomain.
ValidParent(u, d, parent) ==
    \/ parent = NoDomain
    \/ /\ parent = Up[d]
       /\ sites[parent].owner = u
       /\ sites[parent].parent = NoDomain

\* The subdomain sites that keep a root site from being deleted.
Dependents(d) == {s \in Domains : Exists(s) /\ sites[s].parent = d}

IsRoot(c) == c.parent = NoDomain

ZoneOf(c) == IF IsRoot(c) THEN c.dom ELSE c.parent

Ensures(c) == c.phase \in {"add", "restore"}

\* named-checkzone and named accept a file in which no name has both a CNAME
\* and an address.
Valid(file) == file # {} /\ file \cap Aliases = {}

At(w, step) == calls[w].pc = step

Goto(w, step) == calls' = [calls EXCEPT ![w].pc = step]

Finish(w, ok) == calls' = [calls EXCEPT ![w].pc = "done", ![w].ok = ok]

\* The provider call of w returned nil: an add is over, a delete goes on with
\* the vhost, a restore ends the delete it belongs to with that one's error.
ProviderReturns(w) ==
    IF calls[w].phase = "delete" THEN Goto(w, "vhost")
                                 ELSE Finish(w, calls[w].phase = "add")

\* It returned an error: an add is compensated.
ProviderErrs(w) ==
    IF calls[w].phase = "add" THEN Goto(w, "compensate") ELSE Finish(w, FALSE)

\* The first step of the provider for the call of w in the given phase.
FirstStep(c, phase) ==
    IF phase = "delete" /\ IsRoot(c) THEN "zremove" ELSE "zload"

-----------------------------------------------------------------------------
(* SiteAdd *)

\* The request, its names and its parent are checked.
SiteAdd(w) ==
    /\ At(w, "idle")
    /\ \E r \in AddRequests :
         LET c == [NoCall EXCEPT !.user = r.user, !.dom = r.dom,
                                 !.parent = r.parent]
         IN  calls' = [calls EXCEPT ![w] =
                 IF ValidParent(r.user, r.dom, r.parent)
                 THEN [c EXCEPT !.pc = "limit"]
                 ELSE [c EXCEPT !.pc = "done"]]
    /\ UNCHANGED <<sites, dns, faulted>>

CheckLimit(w) ==
    /\ At(w, "limit")
    /\ IF HasRoom(calls[w].user, calls[w].parent)
       THEN Goto(w, "lookup")
       ELSE Finish(w, FALSE)
    /\ UNCHANGED <<sites, dns, faulted>>

\* GetSiteByDomain, to know whether the row will be ours to take back.
LookUp(w) ==
    /\ At(w, "lookup")
    /\ calls' = [calls EXCEPT ![w].pc = "upsert",
                              ![w].created = ~Exists(calls[w].dom)]
    /\ UNCHANGED <<sites, dns, faulted>>

\* UpsertSite, which takes over the row of an existing site.
Upsert(w) ==
    LET c == calls[w]
    IN  /\ At(w, "upsert")
        /\ sites' = [sites EXCEPT ![c.dom] =
                        [owner |-> c.user, parent |-> c.parent]]
        /\ IF DnsEnabled THEN Goto(w, FirstStep(c, "add")) ELSE Finish(w, TRUE)
        /\ UNCHANGED <<dns, faulted>>

\* Compensation that does not ask who made the row.
Compensate_always(w) == \* a bug
    LET c == calls[w]
    IN  /\ At(w, "compensate")
        /\ sites' = [sites EXCEPT ![c.dom] = NoSite]
        /\ Finish(w, FALSE)
        /\ UNCHANGED <<dns, faulted>>

\* DNS failed: the row goes if this request made it.  DeleteSiteByDomain
\* fails when there is no row; either way SiteAdd reports an error.
Compensate(w) ==
    LET c == calls[w]
    IN  /\ At(w, "compensate")
        /\ sites' = IF c.created THEN [sites EXCEPT ![c.dom] = NoSite] ELSE sites
        /\ Finish(w, FALSE)
        /\ UNCHANGED <<dns, faulted>>

-----------------------------------------------------------------------------
(* SiteEdit *)

\* The row is read; the owner is the one asked for or stays.
SiteEdit(w) ==
    /\ At(w, "idle")
    /\ \E r \in EditRequests :
         /\ Exists(r.dom)
         /\ calls' = [calls EXCEPT ![w] =
               [NoCall EXCEPT
                  !.pc = "echeck", !.phase = "edit", !.dom = r.dom, !.set = r.set,
                  !.user = IF r.user = NoUser THEN sites[r.dom].owner ELSE r.user,
                  !.old = sites[r.dom].parent,
                  !.parent = IF r.set THEN r.parent ELSE sites[r.dom].parent]]
    /\ UNCHANGED <<sites, dns, faulted>>

\* The change of kind is not counted.
MayEdit_uncounted(c) == \* a bug
    /\ DnsEnabled /\ c.set => c.parent = c.old
    /\ ValidParent(c.user, c.dom, c.parent)

\* Only a site that turns from root to subdomain or back is counted against
\* the limits, and with DNS no parent changes.
MayEdit(c) ==
    /\ DnsEnabled /\ c.set => c.parent = c.old
    /\ ValidParent(c.user, c.dom, c.parent)
    /\ c.set /\ (c.parent = NoDomain) # (c.old = NoDomain)
          => HasRoom(c.user, c.parent)

CheckEdit(w) ==
    /\ At(w, "echeck")
    /\ IF MayEdit(calls[w]) THEN Goto(w, "esave") ELSE Finish(w, FALSE)
    /\ UNCHANGED <<sites, dns, faulted>>

\* UpsertSite: a row deleted since it was read comes back.
SaveEdit(w) ==
    LET c == calls[w]
    IN  /\ At(w, "esave")
        /\ sites' = [sites EXCEPT ![c.dom] =
                        [owner |-> c.user, parent |-> c.parent]]
        /\ Finish(w, TRUE)
        /\ UNCHANGED <<dns, faulted>>

-----------------------------------------------------------------------------
(* SiteDelete *)

SiteDelete(w) ==
    /\ At(w, "idle")
    /\ \E d \in Deletable :
         /\ Exists(d)
         /\ LET c == [NoCall EXCEPT !.phase = "delete", !.dom = d,
                                    !.parent = sites[d].parent]
            IN  calls' = [calls EXCEPT ![w] = [c EXCEPT !.pc =
                    IF ~DnsEnabled THEN "vhost"
                    ELSE IF IsRoot(c) THEN "dependents"
                    ELSE FirstStep(c, "delete")]]
    /\ UNCHANGED <<sites, dns, faulted>>

CheckDependents(w) ==
    /\ At(w, "dependents")
    /\ IF Dependents(calls[w].dom) = {}
       THEN Goto(w, FirstStep(calls[w], "delete"))
       ELSE Finish(w, FALSE)
    /\ UNCHANGED <<sites, dns, faulted>>

\* The vhost is removed and nginx reloaded: the steps are those of NgmApply.
RemoveVhost(w) ==
    /\ At(w, "vhost")
    /\ Goto(w, "row")
    /\ UNCHANGED <<sites, dns, faulted>>

\* Without its row, as when another request deleted it, the delete restores
\* what it did to DNS and reports the error.
Restore(w) ==
    IF DnsEnabled
    THEN calls' = [calls EXCEPT ![w].pc = FirstStep(calls[w], "restore"),
                                ![w].phase = "restore"]
    ELSE Finish(w, FALSE)

DeleteRow(w) ==
    LET c == calls[w]
    IN  /\ At(w, "row")
        /\ IF Exists(c.dom)
           THEN sites' = [sites EXCEPT ![c.dom] = NoSite] /\ Finish(w, TRUE)
           ELSE sites' = sites /\ Restore(w)
        /\ UNCHANGED <<dns, faulted>>

-----------------------------------------------------------------------------
(* The provider: EnsureRootSite, EnsureSubdomainSite, DeleteRootSite and     *)
(* DeleteSubdomainSite, by phase and kind of the call.                       *)

\* A load that does not look for an existing file.
LoadZone_alwaysNew(w) == \* a bug
    LET c == calls[w]
        file == zone[ZoneOf(c)]
    IN  /\ At(w, "zload")
        /\ IF file # {} \/ IsRoot(c)
           THEN calls' = [calls EXCEPT ![w].pc = "zwrite", ![w].buf = {ZoneOf(c)}]
           ELSE IF Ensures(c) THEN ProviderErrs(w) ELSE ProviderReturns(w)
        /\ UNCHANGED <<sites, dns, faulted>>

\* loadZone.  A new root zone starts from the template; without the parent's
\* file there is nothing to delete and nowhere to add.
LoadZone(w) ==
    LET c == calls[w]
        file == zone[ZoneOf(c)]
    IN  /\ At(w, "zload")
        /\ IF file # {} \/ IsRoot(c)
           THEN calls' = [calls EXCEPT ![w].pc = "zwrite", ![w].buf = file]
           ELSE IF Ensures(c) THEN ProviderErrs(w) ELSE ProviderReturns(w)
        /\ UNCHANGED <<sites, dns, faulted>>

\* The records as they were loaded, with this site's or without.
Records(c) == IF Ensures(c) THEN c.buf \cup {c.dom} ELSE c.buf \ {c.dom}

WriteZone(w) ==
    LET c == calls[w]
    IN  /\ At(w, "zwrite")
        /\ zone' = [zone EXCEPT ![ZoneOf(c)] = Records(c)]
        /\ Goto(w, "zcheck")
        /\ UNCHANGED <<sites, include, loaded, served, faulted>>

\* validateZone, of what is on disk by now.
CheckZone(w) ==
    LET c == calls[w]
    IN  /\ At(w, "zcheck")
        /\ IF Valid(zone[ZoneOf(c)])
           THEN /\ Goto(w, IF IsRoot(c) THEN "list" ELSE "reload")
                /\ UNCHANGED faulted
           ELSE ProviderErrs(w) /\ faulted' = TRUE
        /\ UNCHANGED <<sites, dns>>

RemoveZone(w) ==
    /\ At(w, "zremove")
    /\ zone' = [zone EXCEPT ![calls[w].dom] = {}]
    /\ Goto(w, "list")
    /\ UNCHANGED <<sites, include, loaded, served, faulted>>

\* A listing without the suffix test, which meets WriteFileAtomic's temporary
\* files too.
ListZones_everyFile(w) == \* a bug
    /\ At(w, "list")
    /\ calls' = [calls EXCEPT ![w].pc = "include",
                  ![w].list = {z \in Domains : zone[z] # {}} \cup {NoDomain}]
    /\ UNCHANGED <<sites, dns, faulted>>

\* zoneNames.
ListZones(w) ==
    /\ At(w, "list")
    /\ calls' = [calls EXCEPT ![w].pc = "include",
                              ![w].list = {z \in Domains : zone[z] # {}}]
    /\ UNCHANGED <<sites, dns, faulted>>

WriteInclude(w) ==
    /\ At(w, "include")
    /\ include' = calls[w].list
    /\ Goto(w, "reconfig")
    /\ UNCHANGED <<sites, zone, loaded, served, faulted>>

\* rndc reconfig: named loads the zones it did not know and drops those no
\* longer listed; it does not look at the files of the others.
NamedReconfig ==
    /\ loaded' = include
    /\ served' = [z \in Domains |->
                     IF z \notin include THEN {}
                     ELSE IF z \in loaded THEN served[z]
                     ELSE IF Valid(zone[z]) THEN zone[z] ELSE {}]

Reconfig_noReload(w) == \* a bug
    /\ At(w, "reconfig")
    /\ NamedReconfig
    /\ ProviderReturns(w)
    /\ UNCHANGED <<sites, zone, include, faulted>>

Reconfig_skipped(w) == \* a bug
    /\ At(w, "reconfig")
    /\ IF Ensures(calls[w]) THEN Goto(w, "reload") ELSE ProviderReturns(w)
    /\ UNCHANGED <<sites, dns, faulted>>

\* validateConf and rndcReconfig: the include file is well-formed however old
\* its list is.
Reconfig(w) ==
    /\ At(w, "reconfig")
    /\ NamedReconfig
    /\ IF Ensures(calls[w]) THEN Goto(w, "reload") ELSE ProviderReturns(w)
    /\ UNCHANGED <<sites, zone, include, faulted>>

\* rndc reload: a zone named does not know, or a file it rejects, is an error
\* and leaves the zone as it was.
Reload(w) ==
    LET z == ZoneOf(calls[w])
    IN  /\ At(w, "reload")
        /\ IF z \in loaded /\ Valid(zone[z])
           THEN /\ served' = [served EXCEPT ![z] = zone[z]]
                /\ ProviderReturns(w)
           ELSE served' = served /\ ProviderErrs(w)
        /\ UNCHANGED <<sites, zone, include, loaded, faulted>>

-----------------------------------------------------------------------------
(* Failures *)

\* A read, a write or a command of the provider fails and changes nothing.
ProviderFails(w) ==
    /\ "dns" \in Faults
    /\ calls[w].pc \in ProviderSteps
    /\ ProviderErrs(w)
    /\ faulted' = TRUE
    /\ UNCHANGED <<sites, dns>>

\* rndc outlives its 20 seconds: an error here, and named obeys all the same.
RndcTimesOut(w) ==
    LET z == ZoneOf(calls[w])
    IN  /\ "dns" \in Faults
        /\ \/ At(w, "reconfig") /\ NamedReconfig
           \/ /\ At(w, "reload")
              /\ z \in loaded /\ Valid(zone[z])
              /\ served' = [served EXCEPT ![z] = zone[z]]
              /\ UNCHANGED loaded
        /\ ProviderErrs(w)
        /\ faulted' = TRUE
        /\ UNCHANGED <<sites, zone, include>>

\* The vhost cannot be removed or nginx not reloaded: the delete stops here,
\* after the DNS records are gone.
VhostFails(w) ==
    /\ "nginx" \in Faults
    /\ At(w, "vhost")
    /\ Finish(w, FALSE)
    /\ faulted' = TRUE
    /\ UNCHANGED <<sites, dns>>

\* The database refuses a write.
DbFails(w) ==
    /\ "db" \in Faults
    /\ \/ calls[w].pc \in {"upsert", "compensate", "esave"} /\ Finish(w, FALSE)
       \/ At(w, "row") /\ Restore(w)
    /\ faulted' = TRUE
    /\ UNCHANGED <<sites, dns>>

\* The process ends in the middle of an operation.
Crash(w) ==
    /\ "crash" \in Faults
    /\ calls[w].pc \in Steps
    /\ calls' = [calls EXCEPT ![w] = NoCall]
    /\ faulted' = TRUE
    /\ UNCHANGED <<sites, dns>>

\* named starts afresh from what is on disk; this is no failure.
NamedRestart ==
    /\ "restart" \in Faults
    /\ loaded' = include
    /\ served' = [z \in Domains |->
                     IF z \in include /\ Valid(zone[z]) THEN zone[z] ELSE {}]
    /\ UNCHANGED <<sites, zone, include, calls, faulted>>

\* The caller has its answer.
Return(w) ==
    /\ At(w, "done")
    /\ calls' = [calls EXCEPT ![w] = NoCall]
    /\ UNCHANGED <<sites, dns, faulted>>

-----------------------------------------------------------------------------
ProviderStep(w) ==
    \/ LoadZone(w)
    \/ WriteZone(w)
    \/ CheckZone(w)
    \/ RemoveZone(w)
    \/ ListZones(w)
    \/ WriteInclude(w)
    \/ Reconfig(w)
    \/ Reload(w)

Step(w) ==
    \/ CheckLimit(w)
    \/ LookUp(w)
    \/ Upsert(w)
    \/ Compensate(w)
    \/ CheckEdit(w)
    \/ SaveEdit(w)
    \/ CheckDependents(w)
    \/ RemoveVhost(w)
    \/ DeleteRow(w)
    \/ ProviderStep(w)
    \/ Return(w)

Request(w) ==
    \/ SiteAdd(w)
    \/ SiteEdit(w)
    \/ SiteDelete(w)

Failure(w) ==
    \/ ProviderFails(w)
    \/ RndcTimesOut(w)
    \/ VhostFails(w)
    \/ DbFails(w)
    \/ Crash(w)

Next == NamedRestart \/ \E w \in Workers : Request(w) \/ Step(w) \/ Failure(w)

Spec == Init /\ [][Next]_vars

-----------------------------------------------------------------------------
(* Properties *)

AtRest == \A w \in Workers : calls[w].pc \in {"idle", "done"}

\* This step ends the call of w without an error.
Succeeds(w, phase) ==
    ~At(w, "done") /\ At(w, "done")' /\ calls'[w].ok /\ calls'[w].phase = phase

\* A SiteAdd that reports success has its row and its record on disk, and named
\* answers for it, whatever failed in earlier operations, was left half done by
\* a crash or taken back by a compensation.  Its zone is listed for the next
\* start of named if the site is a root: EnsureSubdomainSite does not write the
\* include file and can be the first to succeed after a crash.
AddIsServed(c) ==
    LET z == ZoneOf(c)
    IN  /\ sites[c.dom] = [owner |-> c.user, parent |-> c.parent]
        /\ c.dom \in zone[z]
        /\ c.dom \in served[z]
        /\ IsRoot(c) => z \in include

OkAddIsServed ==
    [][\A w \in Workers :
          DnsEnabled /\ Succeeds(w, "add") => AddIsServed(calls[w])']_vars

\* A SiteDelete that reports success leaves no row and no name behind, on disk
\* or in named, whatever failed before it.  DeleteSubdomainSite takes a missing
\* zone file for a success: when a delete of the parent stopped after removing
\* the file, named may still answer for the subdomain.
NothingLeft(c) ==
    LET z == ZoneOf(c)
    IN  /\ ~Exists(c.dom)
        /\ c.dom \notin zone[z]
        /\ IsRoot(c) \/ zone[z] # {} => c.dom \notin served[z]
        /\ IsRoot(c) => c.dom \notin include

OkDeleteLeavesNothing ==
    [][\A w \in Workers :
          DnsEnabled /\ Succeeds(w, "delete") => NothingLeft(calls[w])']_vars

\* Without a failure so far, rows, zone files, the include file and named
\* agree between operations: a zone for each root site, with the names of the
\* sites below it and no other.
DnsMatchesSites ==
    DnsEnabled /\ AtRest /\ ~faulted =>
        LET wanted == [z \in Domains |->
                IF Exists(z) /\ sites[z].parent = NoDomain
                THEN {z} \cup Dependents(z) ELSE {}]
        IN  /\ zone = wanted
            /\ served = wanted
            /\ include = {z \in Domains : wanted[z] # {}}

\* A subdomain site's parent exists and is a root site, whatever fails between
\* the check and the write of the row.
ParentsAreRoots ==
    \A d \in Domains : Exists(d) /\ sites[d].parent # NoDomain =>
        /\ Exists(sites[d].parent)
        /\ sites[sites[d].parent].parent = NoDomain

\* One request at a time, an owner passes a limit of its package only when an
\* edit hands it a site that was somebody else's.
Past(limit, n) == limit # -1 /\ n > limit

Over(u) == \/ Past(Limit[u].roots, Cardinality(RootsOf(u)))
           \/ Past(Limit[u].subs, Cardinality(SubsOf(u)))

Moves(u) ==
    \E d \in Domains : Exists(d) /\ sites[d].owner # u /\ sites'[d].owner = u

PastLimitOnlyByMove ==
    [][\A u \in Users : ~Over(u) /\ Over(u)' =>
          Moves(u) /\ \E w \in Workers : At(w, "esave")]_vars

\* The checks count and insert in separate statements, so concurrent requests
\* pass them together; but n of them exceed a limit by n - 1 at most, however
\* many requests follow one another.
OvershootBounded ==
    LET slack == Cardinality(Workers) - 1
    IN  \A u \in Users : /\ ~Past(Limit[u].roots, Cardinality(RootsOf(u)) - slack)
                         /\ ~Past(Limit[u].subs, Cardinality(SubsOf(u)) - slack)
=============================================================================
