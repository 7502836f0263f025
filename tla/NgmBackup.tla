----------------------------- MODULE NgmBackup ------------------------------
(***************************************************************************)
(* ngm backup and ngm restore: what Create saves of the accounts and sites *)
(* of a host, and what Restore makes of it on this host or another one, a  *)
(* statement at a time.  Sources: internal/backup, cmdBackup and           *)
(* cmdRestore of cmd/ngm/main.go.                                          *)
(*                                                                         *)
(* Abstractions.                                                           *)
(*  - No command writes the database while a backup or a restore runs.     *)
(*  - The files of a site are there or not; certificates are in NgmCerts,  *)
(*    the Apply at the end in NgmApply, the Linux accounts Restore ensures *)
(*    (it only warns of failures) in NgmPanel.                             *)
(*  - Every site is under the home of its owner, and every archive is one  *)
(*    Create wrote.                                                        *)
(***************************************************************************)
EXTENDS NgmAccounts

CONSTANTS
    Scopes,     \* which of "user", "reseller" and "all" are saved
    Faults,     \* which of "db" (a statement, or a kill) and "copy" can fail
    MaxOps,     \* bound on commands before the backup
    MaxLater,   \* bound on commands after it
    MaxRestores \* bound on restores

ASSUME BackupAssumption ==
    /\ Scopes \subseteq {"user", "reseller", "all"}
    /\ Faults \subseteq {"db", "copy"}
    /\ MaxOps \in Nat /\ MaxLater \in Nat /\ MaxRestores \in Nat

VARIABLES
    trees,    \* the sites whose files are on disk
    archive,  \* the archive, scope "none": there is none yet
    restore,  \* the `ngm restore' that is running or ran last
    before,   \* history: the names of the database when that restore first began
    held,     \* history: the packages of the panel users at that moment
    had,      \* history: the packages users had when the archive was made
    ops,      \* commands so far, since the backup if there is one
    restores  \* restores so far

vars == <<db, trees, archive, restore, before, held, had, ops, restores>>

-----------------------------------------------------------------------------
(* The database by names *)

NameOf(ids, i) == IF i = 0 THEN NoName ELSE CHOOSE n \in Names : ids[n] = i

PanelIds(s) == [n \in Names |-> s.panel[n].id]

ResellerName(s, n) == NameOf(PanelIds(s), s.panel[n].reseller)

PackageName(s, i) ==
    IF i = 0 THEN NoPackage ELSE CHOOSE p \in Packages : s.packages[p].id = i

\* What the panel shows as the package of a panel user.
PackageOf(s, n) ==
    IF s.panel[n].id = 0 THEN NoPackage ELSE PackageName(s, s.assigned[s.panel[n].id])

\* The package_id of its row in user_packages, 0 if it has none.
PackageIdOf(s, n) ==
    IF s.panel[n].id = 0 THEN 0 ELSE s.assigned[s.panel[n].id]

NamedUser == [role : Roles \cup {"none"}, hash : {"none", "shadow", "bcrypt"},
              reseller : Names \cup {NoName}]
NamedSite == [owner : Names \cup {NoName}, conf : Confs \cup {NoConf},
              targets : SUBSET Targets]

Named == [panel    : [Names -> NamedUser],
          users    : SUBSET Names,
          packages : [Packages -> {"none", "unlimited", "standard"}],
          sites    : [Domains -> NamedSite]]

ByName(s) ==
    [panel    |-> [n \in Names |-> [role     |-> s.panel[n].role,
                                    hash     |-> s.panel[n].hash,
                                    reseller |-> ResellerName(s, n)]],
     users    |-> {n \in Names : s.users[n] # 0},
     packages |-> [p \in Packages |-> s.packages[p].limits],
     sites    |-> [d \in Domains |-> [s.sites[d] EXCEPT
                                        !.owner = NameOf(s.users, @)]]]

-----------------------------------------------------------------------------
(* Create *)

\* assigned is the user_packages of the dump, files the sites whose trees the
\* archive holds, good whether Create returned without an error.
Archive == [scope    : Scopes \cup {"none"},
            subject  : Names \cup {NoName},
            names    : SUBSET Names,
            content  : Named,
            assigned : [Names -> Packages \cup {NoPackage}],
            files    : SUBSET Domains,
            good     : BOOLEAN]

NoArchive == [scope |-> "none", subject |-> NoName, names |-> {},
              content |-> ByName(Fresh), assigned |-> [n \in Names |-> NoPackage],
              files |-> {}, good |-> FALSE]

\* The panel users of each scope; a subject that is not there is an error.
Included(scope, subject) ==
    CASE scope = "all" -> {n \in Names : db.panel[n].id # 0}
      [] scope = "user" -> {subject} \cap {n \in Names : db.panel[n].id # 0}
      [] scope = "reseller" ->
            IF db.panel[subject].role # "reseller" THEN {}
            ELSE {subject} \cup {n \in Names :
                    /\ db.panel[n].role = "user"
                    /\ db.panel[n].reseller = db.panel[subject].id}

\* Sites and assignments go by the row a name has in users: a site whose owner
\* has no panel user is left out, and the package is looked up with the id of
\* that row although user_packages holds ids of panel users.
Dumped(names) ==
    LET all    == ByName(db)
        owners == names \cap all.users IN
    [content  |-> [panel    |-> [n \in Names |-> IF n \in names THEN all.panel[n]
                                                 ELSE ByName(Fresh).panel[n]],
                   users    |-> owners,
                   packages |-> all.packages,
                   sites    |-> [d \in Domains |->
                                   IF all.sites[d].owner \in owners THEN all.sites[d]
                                   ELSE ByName(Fresh).sites[d]]],
     assigned |-> [n \in Names |-> IF n \in owners
                                   THEN PackageName(db, db.assigned[db.users[n]])
                                   ELSE NoPackage]]

DumpedSites(dump) == {d \in Domains : dump.content.sites[d].owner # NoName}

\* A bug: a tree that cannot be walked is passed over.
AddedTrees_skips(dump, files, good) ==
    files = DumpedSites(dump) \cap trees /\ good

\* The trees of the sites, in no fixed order: one that is not there is an error
\* that ends the archive, which is closed and kept.
AddedTrees(dump, files, good) ==
    /\ files \subseteq DumpedSites(dump) \cap trees
    /\ good = (DumpedSites(dump) \subseteq trees)
    /\ good => files = DumpedSites(dump)

Create(scope, subject) ==
    LET names == Included(scope, subject)
        dump  == Dumped(names) IN
    /\ scope \in Scopes /\ archive.scope = "none"
    /\ scope = "all" \/ names # {}
    /\ \E files \in SUBSET Domains, good \in BOOLEAN :
          /\ AddedTrees(dump, files, good)
          /\ archive' = [scope |-> scope, subject |-> subject, names |-> names,
                         content |-> dump.content, assigned |-> dump.assigned,
                         files |-> files, good |-> good]
    /\ had' = [n \in Names |-> IF n \in names THEN PackageOf(db, n) ELSE NoPackage]
    /\ ops' = 0
    /\ UNCHANGED <<db, trees, restore, before, held, restores>>

-----------------------------------------------------------------------------
(* Restore *)

\* new is --new-user; the maps are those of the code, with the ids it found.
Restore == [state      : {"none", "running", "stopped", "done"},
            new        : Names \cup {NoName},
            packageIDs : [Packages -> 0 .. MaxId],
            panelIDs   : [Names -> 0 .. MaxId],
            userIDs    : [Names -> 0 .. MaxId],
            assigned   : SUBSET Names,
            sites      : SUBSET Domains,
            targets    : SUBSET Domains,
            warned     : BOOLEAN]

NoRestore == [state |-> "none", new |-> NoName,
              packageIDs |-> [p \in Packages |-> 0],
              panelIDs |-> [n \in Names |-> 0], userIDs |-> [n \in Names |-> 0],
              assigned |-> {}, sites |-> {}, targets |-> {}, warned |-> FALSE]

\* A bug: --new-user is only used for paths.
mappedName_never(n, new) == n

mappedName(n, new) == IF n = archive.subject /\ new # NoName THEN new ELSE n

Mapped(n) == mappedName(n, restore.new)

\* What is still to be restored, in the order of Restore.
PackagesLeft == {p \in Packages : /\ archive.content.packages[p] # "none"
                                  /\ restore.packageIDs[p] = 0}
PanelLeft    == {n \in archive.names : restore.panelIDs[Mapped(n)] = 0}
UsersLeft    == {n \in archive.content.users : restore.userIDs[Mapped(n)] = 0}
AssignLeft   == {n \in Names : archive.assigned[n] # NoPackage} \ restore.assigned
SitesLeft    == DumpedSites(archive) \ restore.sites
TargetsLeft  == DumpedSites(archive) \ restore.targets

Next_left(S) == CHOOSE x \in S : \A y \in S : x <= y

Running == restore.state = "running"

\* Other names than those of the last restore, or a database that is not as it
\* left it, make this one a restore of its own.
StartRestore(new) ==
    /\ archive.scope # "none" /\ ~Running
    /\ restores < MaxRestores /\ restores' = restores + 1
    /\ new # NoName => archive.scope = "user" /\ new # archive.subject
    /\ restore' = [NoRestore EXCEPT !.state = "running", !.new = new]
    /\ IF restore.state = "stopped" /\ restore.new = new
       THEN UNCHANGED <<before, held>>
       ELSE /\ before' = ByName(db)
            /\ held' = [n \in Names |-> PackageIdOf(db, n)]
    /\ UNCHANGED <<db, trees, archive, had, ops>>

\* A package of that name gets the limits saved, or is created.
RestorePackage ==
    LET p      == Next_left(PackagesLeft)
        limits == archive.content.packages[p] IN
    /\ PackagesLeft # {}
    /\ db' = IF db.packages[p].id # 0 THEN [db EXCEPT !.packages[p].limits = limits]
             ELSE CreatePackage(db, p, limits)
    /\ restore' = [restore EXCEPT !.packageIDs[p] = db'.packages[p].id]

\* A bug: a reseller that was not restored yet clears the link.
LinkedTo_cleared(s, n, r) ==
    [s EXCEPT !.panel[n].reseller = IF r = NoName THEN 0 ELSE restore.panelIDs[r]]

\* The link to reseller r is set if r is among the users restored before n.
LinkedTo(s, n, r) ==
    IF r # NoName /\ restore.panelIDs[r] # 0
    THEN [s EXCEPT !.panel[n].reseller = restore.panelIDs[r]] ELSE s

\* The row is created or overwritten, and then updated: the second statement
\* can be the one that is not executed.
RestorePanelUser ==
    LET n       == Next_left(PanelLeft)
        saved   == archive.content.panel[n]
        created == CreatePanelUser(db, Mapped(n), saved.hash, saved.role)
        r       == IF saved.reseller = NoName THEN NoName ELSE Mapped(saved.reseller) IN
    /\ PackagesLeft = {} /\ PanelLeft # {}
    /\ \/ /\ db' = LinkedTo(created, Mapped(n), r)
          /\ restore' = [restore EXCEPT !.panelIDs[Mapped(n)] = db'.panel[Mapped(n)].id]
       \/ /\ "db" \in Faults
          /\ db' = created
          /\ restore' = [restore EXCEPT !.state = "stopped"]

RestoreUser ==
    LET n == Next_left(UsersLeft) IN
    /\ PackagesLeft = {} /\ PanelLeft = {} /\ UsersLeft # {}
    /\ db' = EnsureUser(db, Mapped(n))
    /\ restore' = [restore EXCEPT !.userIDs[Mapped(n)] = db'.users[Mapped(n)]]

\* The id is again that of the row in users: it may be no id of a panel user,
\* which stops the restore, or that of another one.
RestoreAssignment ==
    /\ PackagesLeft = {} /\ PanelLeft = {} /\ UsersLeft = {}
    /\ \E n \in AssignLeft :
          LET i == restore.userIDs[Mapped(n)]
              p == restore.packageIDs[archive.assigned[n]] IN
          IF MayAssign(db, i, p)
          THEN /\ db' = AssignPackage(db, i, p)
               /\ restore' = [restore EXCEPT !.assigned = @ \cup {n}]
          ELSE /\ restore' = [restore EXCEPT !.state = "stopped"]
               /\ UNCHANGED db

AccountsRestored == PackagesLeft = {} /\ PanelLeft = {} /\ UsersLeft = {} /\ AssignLeft = {}

RestoreSite ==
    /\ AccountsRestored
    /\ \E d \in SitesLeft :
          LET saved == archive.content.sites[d] IN
          /\ db' = UpsertSite(db, d, restore.userIDs[Mapped(saved.owner)], saved.conf)
          /\ restore' = [restore EXCEPT !.sites = @ \cup {d}]

\* The targets of one site; targets the site had stay.
RestoreTargets ==
    /\ AccountsRestored /\ SitesLeft = {}
    /\ \E d \in TargetsLeft :
          /\ db' = [db EXCEPT !.sites[d].targets = @ \cup archive.content.sites[d].targets]
          /\ restore' = [restore EXCEPT !.targets = @ \cup {d}]

\* What cannot be copied is a warning.
RestoreFiles ==
    /\ AccountsRestored /\ SitesLeft = {} /\ TargetsLeft = {}
    /\ \E copied \in SUBSET archive.files :
          /\ copied # archive.files => "copy" \in Faults
          /\ trees' = trees \cup copied
          /\ restore' = [restore EXCEPT !.state = "done",
                                        !.warned = (copied # archive.files)]
    /\ UNCHANGED db

\* A statement fails or the process is killed: what was written stays.
RestoreStops ==
    /\ "db" \in Faults
    /\ restore' = [restore EXCEPT !.state = "stopped"]
    /\ UNCHANGED db

RestoreStep ==
    /\ Running /\ IdsLeft
    /\ \/ RestoreFiles
       \/ /\ \/ RestorePackage \/ RestorePanelUser \/ RestoreUser \/ RestoreAssignment
             \/ RestoreSite \/ RestoreTargets \/ RestoreStops
          /\ UNCHANGED trees
    /\ UNCHANGED <<archive, before, held, had, ops, restores>>

-----------------------------------------------------------------------------
(* The specification *)

Init ==
    /\ db = Fresh
    /\ trees = {}
    /\ archive = NoArchive /\ restore = NoRestore
    /\ before = ByName(Fresh)
    /\ held = [n \in Names |-> 0]
    /\ had = [n \in Names |-> NoPackage]
    /\ ops = 0 /\ restores = 0

Spend ==
    /\ IF archive.scope = "none" THEN ops < MaxOps
       ELSE ops < MaxLater /\ restores < MaxRestores
    /\ ops' = ops + 1

\* A command of the host, before the backup or after it; SiteAdd makes the
\* directories of its site.
Operate ==
    /\ ~Running /\ Spend /\ IdsLeft
    /\ Command
    /\ trees' = trees \cup {d \in Domains : db'.sites[d].owner # db.sites[d].owner
                                            /\ db'.sites[d].owner # 0}
    /\ restore' = NoRestore
    /\ UNCHANGED <<archive, before, held, had, restores>>

\* The files of a site are removed by hand.
LoseTree ==
    /\ ~Running /\ Spend
    /\ \E d \in trees : trees' = trees \ {d}
    /\ restore' = NoRestore
    /\ UNCHANGED <<db, archive, before, held, had, restores>>

\* The archive is taken to a host that was just installed.
Reinstall ==
    /\ archive.scope # "none" /\ restores = 0 /\ db # Fresh
    /\ db' = Fresh /\ trees' = {}
    /\ UNCHANGED <<archive, restore, before, held, had, ops, restores>>

Next ==
    \/ Operate
    \/ LoseTree
    \/ \E n \in Names : Create("user", n) \/ Create("reseller", n)
    \/ Create("all", NoName)
    \/ Reinstall
    \/ \E n \in Names \cup {NoName} : StartRestore(n)
    \/ RestoreStep

Spec == Init /\ [][Next]_vars

-----------------------------------------------------------------------------
(* Properties *)

\* Every variable has its type.
TypeOK ==
    /\ db \in Database
    /\ trees \subseteq Domains
    /\ archive \in Archive
    /\ restore \in Restore
    /\ before \in Named
    /\ held \in [Names -> 0 .. MaxId]
    /\ had \in [Names -> Packages \cup {NoPackage}]
    /\ ops \in 0 .. MaxOps \cup 0 .. MaxLater
    /\ restores \in 0 .. MaxRestores

\* The name under which the archive's n is to be found.
RestoredAs(n) ==
    IF restore.new # NoName THEN restore.new ELSE n

\* The panel user the archive has for n, if any.
SavedAs(n) == {m \in archive.names : RestoredAs(m) = n}

\* What a restore promises, by names: rows of the archive replace or join those
\* of the database v, under the name --new-user gives.  A link to a reseller is
\* brought back only if the reseller is in the archive and sorts before its
\* user; if not, the one the row had stays.
Merged(v) ==
    [panel |-> [n \in Names |->
        IF SavedAs(n) = {} THEN v.panel[n]
        ELSE LET m     == CHOOSE m \in SavedAs(n) : TRUE
                 saved == archive.content.panel[m]
                 r     == saved.reseller IN
             [saved EXCEPT !.reseller =
                IF r \in archive.names /\ r < m THEN RestoredAs(r) ELSE v.panel[n].reseller]],
     users |-> v.users \cup {RestoredAs(m) : m \in archive.content.users},
     packages |-> [p \in Packages |->
        IF archive.content.packages[p] = "none" THEN v.packages[p]
        ELSE archive.content.packages[p]],
     sites |-> [d \in Domains |->
        IF d \notin DumpedSites(archive) THEN v.sites[d]
        ELSE LET saved == archive.content.sites[d] IN
             [owner |-> RestoredAs(saved.owner), conf |-> saved.conf,
              targets |-> v.sites[d].targets \cup saved.targets]]]

\* A restore that reports success has merged the archive into the database by
\* names, on whatever host and whatever ids it has, and even after earlier
\* attempts that an error or a kill stopped half-way.
RestoreMerges == restore.state = "done" => ByName(db) = Merged(before)

\* The restored owner whose row in users has the id the panel user n has in
\* panel_users: AssignPackage, which is given the former, takes it for the latter.
TakenFor(n) ==
    {m \in archive.content.users :
        /\ archive.assigned[m] # NoPackage
        /\ db.users[RestoredAs(m)] = db.panel[n].id}

\* A restore that runs, or has stopped at any statement, has changed no panel
\* user, owner, package or site but those the archive has, and the package of
\* no other panel user but one: the user whose id in panel_users is the id in
\* users of an owner whose package is restored.
OthersUntouched ==
    restore.state # "none" =>
        LET now == ByName(db) IN
        /\ \A n \in Names : SavedAs(n) = {} =>
              /\ now.panel[n] = before.panel[n]
              /\ PackageIdOf(db, n) = held[n] \/ TakenFor(n) # {}
        /\ now.users \subseteq before.users \cup {RestoredAs(m) : m \in archive.content.users}
        /\ \A p \in Packages : archive.content.packages[p] = "none"
                               => now.packages[p] = before.packages[p]
        /\ \A d \in Domains : d \notin DumpedSites(archive)
                              => now.sites[d] = before.sites[d]

\* An archive Create reported good brings the files of every site it restores,
\* unless Restore warns.
FilesComeBack ==
    restore.state = "done" /\ archive.good /\ ~restore.warned =>
        DumpedSites(archive) \subseteq trees

\* user_packages.user_id REFERENCES panel_users(id): a restore gives the panel
\* users who have sites the packages they had.
PackagesComeBack ==
    restore.state = "done" =>
        \A n \in archive.content.users : PackageOf(db, RestoredAs(n)) = had[n]

=============================================================================
