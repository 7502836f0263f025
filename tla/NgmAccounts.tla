---------------------------- MODULE NgmAccounts -----------------------------
(***************************************************************************)
(* The tables behind the accounts of a host, with the ids that link them,  *)
(* and the commands that write them: ngm panel-user, admin, reseller and   *)
(* package, the package pages of the panel, and of `ngm site' what makes   *)
(* rows.  Sources: internal/store/sqlite, cmd/ngm/main.go,                 *)
(* internal/web/server.go.                                                 *)
(*                                                                         *)
(* Two tables hold users: panel_users (who may log in) and users (who owns *)
(* sites).  A name has an id in each, and the ids need not agree.          *)
(*                                                                         *)
(* Abstractions.                                                           *)
(*  - One command at a time: requests that overlap are in NgmPanel, limits *)
(*    and parents of sites in NgmSites.                                    *)
(*  - The limits of a package are those of the first one, none, or those   *)
(*    every other one is created with: no command changes them.            *)
(*  - conf is all of a row of sites but its id, domain and owner; a target *)
(*    is its address.  enabled, system_user, created_by and the counters   *)
(*    of a panel user are left out: NgmPanel has them.                     *)
(*  - A new row has the next id; the ids an upsert skips are left out.     *)
(***************************************************************************)
EXTENDS Integers, FiniteSets

CONSTANTS
    Names,     \* user names, numbers in the order of names
    Packages,  \* package names, numbers in the order of names
    Unlimited, \* the name migration 0002 gives package 1
    Domains,   \* site names
    Confs,     \* settings of sites
    Targets,   \* addresses of proxy targets
    Roles,     \* which of "admin", "reseller" and "user" are given
    MaxId,     \* bound on the ids of each table
    NoName,    \* no user
    NoPackage, \* no package
    NoConf     \* no site

ASSUME AccountsAssumption ==
    /\ Names \subseteq Nat /\ Packages \subseteq Nat
    /\ Unlimited \in Packages
    /\ Roles \subseteq {"admin", "reseller", "user"}
    /\ MaxId \in Nat \ {0}
    /\ NoName \notin Names /\ NoPackage \notin Packages
    /\ NoConf \notin Confs

VARIABLE db   \* the database

Ids == 1 .. MaxId

\* id 0: no row; reseller 0: NULL.
PanelUser == [id : 0 .. MaxId, role : Roles \cup {"none"},
              hash : {"none", "shadow", "bcrypt"}, reseller : 0 .. MaxId]

Package == [id : 0 .. MaxId, limits : {"none", "unlimited", "standard"}]

Site == [owner : 0 .. MaxId, conf : Confs \cup {NoConf}, targets : SUBSET Targets]

NoPanelUser == [id |-> 0, role |-> "none", hash |-> "none", reseller |-> 0]
NoRowPackage == [id |-> 0, limits |-> "none"]
NoSite == [owner |-> 0, conf |-> NoConf, targets |-> {}]

\* assigned is user_packages: it goes from ids of panel_users to ids of
\* packages.  last is the last id each table has given.
Database == [panel    : [Names -> PanelUser],
             users    : [Names -> 0 .. MaxId],
             packages : [Packages -> Package],
             assigned : [Ids -> 0 .. MaxId],
             sites    : [Domains -> Site],
             last     : [panel : 0 .. MaxId, users : 0 .. MaxId, packages : 0 .. MaxId]]

\* What the migrations leave.
Fresh == [panel    |-> [n \in Names |-> NoPanelUser],
          users    |-> [n \in Names |-> 0],
          packages |-> [p \in Packages |-> IF p = Unlimited
                                           THEN [id |-> 1, limits |-> "unlimited"]
                                           ELSE NoRowPackage],
          assigned |-> [i \in Ids |-> 0],
          sites    |-> [d \in Domains |-> NoSite],
          last     |-> [panel |-> 0, users |-> 0, packages |-> 1]]

-----------------------------------------------------------------------------
(* Statements of the store: a database and what they make of it *)

IsPanelId(s, i)   == \E n \in Names : s.panel[n].id = i /\ i # 0
IsPackageId(s, i) == \E p \in Packages : s.packages[p].id = i /\ i # 0

\* A bug: the hash and the role are bound in the wrong order.
CreatePanelUser_swapped(s, n, hash, role) ==
    IF s.panel[n].id # 0
    THEN [s EXCEPT !.panel[n].hash = role, !.panel[n].role = hash]
    ELSE [s EXCEPT !.last.panel = @ + 1,
                   !.panel[n] = [id |-> s.last.panel + 1, role |-> hash,
                                 hash |-> role, reseller |-> 0]]

\* An upsert: a name that is taken keeps its id and its reseller.
CreatePanelUser(s, n, hash, role) ==
    IF s.panel[n].id # 0
    THEN [s EXCEPT !.panel[n].hash = hash, !.panel[n].role = role]
    ELSE [s EXCEPT !.last.panel = @ + 1,
                   !.panel[n] = [id |-> s.last.panel + 1, role |-> role,
                                 hash |-> hash, reseller |-> 0]]

\* reseller_id REFERENCES panel_users(id).
MayRefer(s, r) == r = 0 \/ IsPanelId(s, r)

\* DeletePanelUser is refused while another row refers to this one; the
\* assignment of the row goes with it.
DeletePanelUser(s, n) ==
    LET i == s.panel[n].id IN
    IF \E m \in Names \ {n} : s.panel[m].reseller = i THEN s
    ELSE [s EXCEPT !.panel[n] = NoPanelUser, !.assigned[i] = 0]

\* name is UNIQUE.
CreatePackage(s, p, limits) ==
    [s EXCEPT !.last.packages = @ + 1,
              !.packages[p] = [id |-> s.last.packages + 1, limits |-> limits]]

\* Both ids are foreign keys.
MayAssign(s, i, p) == IsPanelId(s, i) /\ IsPackageId(s, p)

AssignPackage(s, i, p) == [s EXCEPT !.assigned[i] = p]

UnassignPackage(s, i) == [s EXCEPT !.assigned[i] = 0]

\* A name that is known keeps its id.
EnsureUser(s, n) ==
    IF s.users[n] # 0 THEN s
    ELSE [s EXCEPT !.last.users = @ + 1, !.users[n] = s.last.users + 1]

\* The row of a domain that exists is taken over, with its targets.
UpsertSite(s, d, owner, conf) ==
    [s EXCEPT !.sites[d].owner = owner, !.sites[d].conf = conf]

UpsertProxyTarget(s, d, t) == [s EXCEPT !.sites[d].targets = @ \cup {t}]

-----------------------------------------------------------------------------
(* Commands *)

\* GenerateFromPassword, or the mark that the password is in /etc/shadow.
HashFor(role) == IF role = "user" THEN "shadow" ELSE "bcrypt"

\* panel-user add, admin add, reseller add.  An error leaves what was written
\* before it: a reseller that is not there, a failing useradd or chpasswd, a
\* package that is not there.
PanelUserAdd(n, role, r, p) ==
    LET created  == CreatePanelUser(db, n, HashFor(role), role)
        linked   == IF role = "user" /\ r # 0
                    THEN [created EXCEPT !.panel[n].reseller = r] ELSE created
        assigned == AssignPackage(linked, linked.panel[n].id, p) IN
    \/ role = "user" /\ ~MayRefer(created, r) /\ db' = created
    \/ /\ role = "user" => MayRefer(created, r)
       /\ \/ role = "user" /\ db' = linked
          \/ p = 0 /\ db' = linked
          \/ p # 0 /\ ~MayAssign(linked, linked.panel[n].id, p) /\ db' = linked
          \/ p # 0 /\ MayAssign(linked, linked.panel[n].id, p) /\ db' = assigned

\* A bug: the row that becomes a user keeps the hash of its panel password.
MayBecome_keepsHash(n, role, hash) ==
    /\ db.panel[n].id # 0
    /\ db.panel[n].role = "user" => role = "user"
    /\ hash = db.panel[n].hash

\* A user stays one; who becomes a user must have a Linux account, whose
\* password is the one that counts from then on.
MayBecome(n, role, hash) ==
    /\ db.panel[n].id # 0
    /\ db.panel[n].role = "user" => role = "user"
    /\ hash = IF role # db.panel[n].role /\ role = "user" THEN "shadow"
              ELSE db.panel[n].hash

\* panel-user edit, admin edit, reseller edit.
PanelUserEdit(n, role, p) ==
    \E hash \in {"shadow", "bcrypt"} :
        LET saved == [db EXCEPT !.panel[n].role = role, !.panel[n].hash = hash] IN
        /\ MayBecome(n, role, hash)
        /\ db' = IF p # 0 /\ MayAssign(saved, saved.panel[n].id, p)
                 THEN AssignPackage(saved, saved.panel[n].id, p) ELSE saved

\* panel-user del: the package goes first, whatever becomes of the row.
PanelUserDel(n) ==
    /\ db.panel[n].id # 0
    /\ db' = DeletePanelUser(UnassignPackage(db, db.panel[n].id), n)

\* package add, or the form of the panel.
PackageAdd(p) ==
    /\ db.packages[p].id = 0
    /\ db' = CreatePackage(db, p, "standard")

\* package edit, or the form of the panel: only names change.
PackageEdit(p, q) ==
    /\ db.packages[p].id # 0 /\ db.packages[q].id = 0
    /\ db' = [db EXCEPT !.packages[q] = db.packages[p], !.packages[p] = NoRowPackage]

\* package del, or the button of the panel: never package 1, nor one in use.
PackageDel(p) ==
    /\ db.packages[p].id \notin {0, 1}
    /\ \A i \in Ids : db.assigned[i] # db.packages[p].id
    /\ db' = [db EXCEPT !.packages[p] = NoRowPackage]

\* A user who owns sites is a panel user, and one with role user has a package.
MayOwn(n) ==
    /\ db.panel[n].id # 0
    /\ db.panel[n].role = "user" => db.assigned[db.panel[n].id] # 0

\* SiteAdd: who is refused, for lack of a package or at a limit, has a row in
\* users by then.
SiteAdd(n, d, c) ==
    LET ensured == EnsureUser(db, n) IN
    \/ db' = ensured
    \/ MayOwn(n) /\ db' = UpsertSite(ensured, d, ensured.users[n], c)

ProxyTargetAdd(d, t) ==
    /\ db.sites[d].owner # 0
    /\ db' = UpsertProxyTarget(db, d, t)

\* DeleteSiteByDomain, with the targets.
SiteDelete(d) ==
    /\ db.sites[d].owner # 0
    /\ db' = [db EXCEPT !.sites[d] = NoSite]

\* The bound on ids: every table has one more to give.
IdsLeft == db.last.panel < MaxId /\ db.last.users < MaxId /\ db.last.packages < MaxId

Command ==
    \/ \E n \in Names, role \in Roles :
          \/ \E r \in 0 .. db.last.panel, p \in 0 .. db.last.packages :
                PanelUserAdd(n, role, r, p)
          \/ \E p \in 0 .. db.last.packages : PanelUserEdit(n, role, p)
    \/ \E n \in Names : PanelUserDel(n)
    \/ \E p \in Packages : PackageAdd(p) \/ PackageDel(p)
    \/ \E p, q \in Packages : PackageEdit(p, q)
    \/ \E d \in Domains :
          \/ \E n \in Names, c \in Confs : SiteAdd(n, d, c)
          \/ \E t \in Targets : ProxyTargetAdd(d, t)
          \/ SiteDelete(d)

-----------------------------------------------------------------------------
(* Properties *)

\* The hash of a row says where its password is: a panel user with role user
\* logs in with the password of its Linux account, everybody else with that of
\* the row, through upserts, changes of role and restores.  handleLogin looks at
\* the role alone.
RoleDecidesHash ==
    \A n \in Names :
        db.panel[n].id # 0 => db.panel[n].hash = HashFor(db.panel[n].role)

=============================================================================
