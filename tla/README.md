# Verification of NGM

NGM (`src/`) is a Go control plane for nginx hosts: a panel and a command line
keep sites, users and packages in SQLite, render one vhost file per site, test
and load them, and manage PHP-FPM pools, certificates and BIND zones. The
repository has no tests. This directory holds TLA+ models of the parts that
have state, order and failure; TLC checks them on small instances and TLAPS
proves the main results for every instance.

Check with `tlc -config <run>.cfg <MC module>` and `tlapm <module>.tla` for the
modules named `...Proofs`. `PROJECT.json` lists every run, the
source lines behind every definition, the hazards and the theorems.

## Inventory

| component | state | operations | hard behaviour |
|---|---|---|---|
| apply pipeline (`internal/app/apply.go`) | `applyMu`, staged, live and backup files, verdict columns of `sites` | `Apply` (batch, `--all`, `--limit`), `applyOne`, rollback | verdicts before `nginx -t`, crash between swap and reload, batch rollback, two processes |
| nginx manager (`internal/nginx`) | the vhost files, the nginx master | `TestConfig`, `RenderSiteToStaging`, `Publish`, `RemoveLiveSite`, `Reload`, `ReloadOrStart` | failed writes, 10 s command limit, reload that reports nothing (HUP) |
| store (`internal/store/sqlite`) | tables users, sites, proxy_targets, panel_users, packages, user_packages | upserts, counters, checks before deletes | check-then-act over separate statements, whole-row updates, two tables of users with ids of their own |
| site operations (`internal/app/site.go`) | none of its own | `SiteAdd`, `SiteEdit`, `SiteDisable`, `SiteEnable`, `SiteDelete` | several stores changed in turn, compensation, no lock |
| BIND provider (`internal/dns/bind`) | zone files, the include file, what named serves | `EnsureRootSite`, `EnsureSubdomainSite`, `DeleteRootSite`, `DeleteSubdomainSite` | read-modify-write of a file without lock, write before validation |
| PHP-FPM pools (`internal/fpm`) | pool files, running pools | `EnsurePool` | write before reload, no retry, shared keys |
| panel (`internal/web/server.go`, `session.go`) | sessions, panel users | login, lockout, user, reseller and package forms | stale counters, sessions that outlive their user |
| accounts from the command line (`cmd/ngm/main.go`) | none of its own | `panel-user`, `admin`, `reseller`, `package` commands | upserts that take rows over, several statements without a transaction |
| backup and restore (`internal/backup`) | an archive | `Create`, `Restore` | order of users, ids of two tables, no transaction, archives that end early |
| certificates (`internal/certs`, `internal/app/certs.go`) | certbot's live directory, the alias in it, fallbacks | issue, renew, look up, alias | removal and creation of the alias without a lock, an external tool that may be killed after its work |
| provisioning (`internal/bootstrap`) | master configuration, readiness marker | `Init`, `EnsureProvisionReady` | replaced before it is tested, a marker about another moment, kills |
| system users (`internal/users`, `internal/auth`) | the Linux accounts | useradd, chpasswd, usermod, userdel, shadow check, chown | commands whose failure the callers ignore |
| configuration, templates, mysql stub | read once or none | | none |

Interactions: the panel's handlers run concurrently and call `internal/app`,
which calls the store, the nginx manager and the BIND provider; the command line
is another process that builds its own `App`. Only `Apply` takes a mutex
(`applyMu`, one per `App`, hence one per process). The files and the database
are shared by every process.

Correctness, by component: *apply*: nothing untested stays live, a verdict says
what is on disk, nothing pending is hidden, a failed batch is undone, an apply
ends and pending sites get applied. *Store and panel*: limits and references
survive concurrent requests, a reported success is complete, wrong passwords
lock a user in time. *DNS*: the zone files, the
include file and the rows agree after any failure. *Pools*: the socket of a
vhost that is served has a listener. *Certificates*: a certificate that exists
is found by everybody and served, one that is gone does not stop nginx for
long. *Provisioning*: ready means tested. *Accounts*: the role of a row and the
place of its password agree. *Backup*: what is restored is what was saved, and
nothing else changes.

## Modules

| module | models | abstraction |
|---|---|---|
| `NgmApply` | apply pipeline, nginx manager, the `sites` and `proxy_targets` rows, the nginx half of `SiteDelete` | one action per step that touches a file, a row or nginx |
| `MCApply` | its instances for TLC | |
| `NgmApplyProofs` | type invariant, and the inductive invariant `SafeInv` with what follows from it, for every instance | |
| `NgmApplyOutcomeProofs` | truthful verdicts and atomic applies, on `SafeInv` | |
| `NgmApplyDirectoryProofs` | what is served against disk and rows, and the refinement, on those | |
| `NgmSites` | `SiteAdd`, `SiteEdit`, `SiteDelete`, parents, package limits, the BIND provider and named | one action per statement, file and command; a zone is the set of its names |
| `MCSites` | its instances for TLC | |
| `NgmPanel` | panel users and resellers, their Linux accounts, login, lockout and sessions | one action per statement and command; a password is right or wrong |
| `MCPanel` | its instances for TLC | |
| `NgmPanelProofs` | its invariants, for every instance | |
| `NgmSitesProofs` | type invariant and the bound on passed limits, for every instance | |
| `NgmSitesSerialProofs` | what holds when one request is served at a time: limits, successful adds and deletes, the tree, the agreement of rows and DNS | |
| `NgmDirectory` | what apply promises, without how: an abstract specification `NgmApply` implements | no staging, test or rollback |
| `NgmDomains` | the constant `Domains`, shared by the next two | |
| `NgmPools` | `EnsurePool` and what php-fpm runs | a pool file is the site it was rendered for |
| `NgmCerts` | the certificates of certbot, the alias, the fallback | a certificate is the number of the certbot run that made it |
| `NgmProvision` | the master configuration and the readiness marker | a configuration is accepted or not |
| `NgmHost` | composes the last three with the requests that use them: apply, issue, renew, look up, provision | one action per step another request can see; Apply is what `NgmApply` shows of it |
| `MCHost` | its instances for TLC | |
| `NgmHostProofs` | its invariants and action properties, for every instance | |
| `NgmAccounts` | every table of accounts, packages and sites, with ids, and the commands that write them | one action per command |
| `NgmBackup` | `Create`, and `Restore` on the tables of `NgmAccounts` | one action per statement of Restore |
| `MCBackup` | its instances for TLC | |
| `NgmBackupProofs` | the invariants of both, for every instance | |

There are five systems. `NgmApply` and `NgmSites` meet in `SiteDelete`, whose
nginx half is in `NgmApply` and whose rows and DNS are in `NgmSites`, and in the
row written by `SiteAdd` and `SiteEdit`, which is the input of apply. `NgmPanel`
has the panel's own users, which those two know as owners only, and the
interleavings of the handlers that write them. `NgmHost` takes from `NgmApply`
that an apply publishes site by site and then loads or puts back, and adds what
a vhost refers to: the `CertIssue` and the `Apply` that `SiteAdd` and `SiteEdit`
end with are requests of `NgmHost`. `NgmAccounts` has the same tables as
`NgmPanel` and `NgmSites`, but with the ids and one command at a time, which is
what `NgmBackup` needs.

### NgmApply

| variable | code |
|---|---|
| `rows` | the columns `enabled`, settings, `last_apply_status`, `last_render_hash`; `stale` is the outcome of `updated_at > last_applied_at`, the only use of the two times |
| `targets` | the enabled `proxy_targets` of a proxy site, as the text they render to |
| `stage`, `live`, `bak` | `StageDir/sites/<d>.conf`, `SitesDir/<d>.conf`, `BackupDir/<d>.conf.bak` |
| `up`, `running` | the nginx master and the vhosts it loaded last |
| `ap[p]` | the local variables of the `Apply` of process `p`; `pc` is where it stands, `idle` that `applyMu` is free |
| `del` | the `SiteDelete` in flight |
| `ops` | counts row writes, so that TLC's instance is finite |

A file's text is a member of `Good`, `Bad` (nginx -t rejects it) or
`Unbuildable` (`buildTemplateData` fails); a hash is the text it was taken of.
Each action is one step that other processes can observe: reading the rows,
staging, publishing (test for equality, backup and swap: a failure between the
last two is an outcome of the same action), recording, testing, reloading, each
file of a rollback. A read of a row and the action that uses it stay apart,
which is what makes stale rows possible.

`Faults` says which failures an instance allows: `io` (a file operation of
staging, publishing or removing fails, with or without its backup written),
`test` (nginx -t fails on a valid directory, e.g. its time limit), `reload` (a
reload fails, delivered or not), `rollback` (a file of the rollback cannot be
read or written), `db` (`UpdateApplyResult` fails, which the code ignores),
`stop` (nginx is stopped and started by someone else) and `crash` (an ngm
process dies during an apply). `HupReload` is the unit of
`scripts/openresty.service`, whose `kill -HUP` succeeds whatever the files say.
`StartsNginx` is FALSE for `reload_mode=signal` on a systemd host, where
`ReloadOrStart` refuses to start nginx. `Serial` restricts the environment to
one request at a time.

Left out of the module: dry runs; `test_before_reload: false`, which
`config.go:184` overwrites; two writes of one row within a millisecond, which
the comparison of times cannot order; the DNS half of `SiteDelete`; the pool
files `buildTemplateData` writes on the way; nginx reading its files some time
after it was told to (the reload action reads them at once).

### NgmSites

| variable | code |
|---|---|
| `sites` | `user_id` and `parent_domain` of the `sites` rows |
| `zone` | `ZonesDir/<domain>.zone`: the names with an address record |
| `include` | the zones `named_conf_include` lists |
| `loaded`, `served` | the zones named knows and what it answers for each |
| `calls[w]` | the local variables of the operation request `w` executes; `pc` is the next statement |
| `faulted` | has anything failed so far (history) |

A provider call is the sequence of its steps: load the zone, write it, check it,
list the zone files, write the include file, `rndc reconfig`, `rndc reload`; the
phase of the call (`add`, `delete`, or the `restore` of a delete that lost its
row) and the kind of its site say which steps it takes. named is modelled from
how rndc uses it: `reconfig` loads zones it did not know and drops the ones no
longer listed, `reload` reads one zone again, a rejected file changes nothing,
and a restart reads everything. A zone file is rejected when a name has both an
address and the `CNAME` of the zone template (`Aliases`; `www` in the shipped
one).

`Faults`: `dns` (a file operation or a command of the provider fails, or rndc
outlives its 20 s after named obeyed), `nginx` (the vhost part of a delete
fails), `db` (a write of a row fails), `crash` and `restart` (of named).

Left out: the record data, SOA and NS; the checks of PHP versions and names;
directories, certificates and apply after the row is written; a package that is
changed while sites are added.

### NgmPanel

| variable | code |
|---|---|
| `rows`, `used` | `panel_users`: name, role, `enabled`, `reseller_id`, `failed_attempts` (5 stands for 5 and more), whether `locked_until` lies ahead; the ids given out |
| `accounts` | the shadow file: no account, one without a password, open, locked |
| `sessions` | `SessionStore.data`, the sessions of resellers |
| `calls[w]` | the local variables of the handler request `w` runs, with the row as it read it |
| `tries` | wrong passwords since a row was last locked, reset or saved whole (history) |

A request that manages a user reads its row, may set the password, writes the
whole row back and then changes the Linux account; a new user is upserted, read,
saved, created as an account, given a password and perhaps suspended. A login
reads the row, checks the password, and then either counts, and locks by the
counter it read, or makes a session and resets. `clean` remembers that no command
failed during a request and that none for the same user overlapped with it.
`CommandsFail` lets each command fail before or after its effect; the handlers
ignore the error. The database refuses a `reseller_id` that is not there and the
deletion of a row that one refers to (`foreign_keys(1)` in the DSN).

Left out: packages and their assignment; the commands of `ngm panel-user`, whose
`--enabled` never touches the Linux account; requests that are refused when they
are read; admins' own rows; a crash of the panel, which loses all sessions.

### NgmDirectory

`NgmApply!Directory` is `INSTANCE NgmDirectory` under the mapping `asked` = what
each row renders to now (`Asked`), `served` = `running`, `kept` = `bak`. Its
steps are: somebody asks for another vhost of one site; what is served is copied;
any set of sites is served as asked, at once; a site without a vhost comes back
from its copy (a failed apply whose old backup was all that was left); a site is
withdrawn. Staging, the files of the sites directory, tests, verdicts and
rollbacks are stutters. `ImplementsDirectory` is checked with one request at a
time and with failing writes and tests.

### NgmHost, NgmPools, NgmCerts, NgmProvision

| variable | code |
|---|---|
| `site`, `vhost`, `served` | the PHP version of an enabled site; `SitesDir/<d>.conf`; what nginx loaded, with the certificate it read |
| `pools`, `fpm` | the pool files by version and key, and what the php-fpm of the version runs |
| `live`, `base`, `alt` | `live/<d>`: a directory of certbot, an incomplete one, or the alias ngm makes of `live/<d>-0001`; the certificates in the two |
| `selfsigned`, `due`, `runs` | the fallbacks; the certificates in their last 30 days; runs of certbot |
| `master`, `marker`, `prov` | `nginx.conf`; `provision.ready` (the hash it holds); the `ngm provision init` that runs |
| `call[w]` | the local variables of the request `w` runs; `pc` is its next step |
| `missed`, `looked`, `tested`, `company` | history: php-fpm versions whose reload failed, sites whose alias was seen to, configurations nginx accepted, whether others interfered with a request |

`ensureLiveAlias` is three steps (`LookForAlias`, `ClearAlias`, `MakeAlias`)
because it removes and makes a name without a lock; its callers, `GetCertInfo`
and `IssueCert` before and after certbot, are the field `then`. `IssueCert` is
`DecideIssue`, `RunCertonly`, the alias again, `VerifyIssued`, and then the
Apply of its site. `RenderSite` is `buildTemplateData` and the publish: the
pool, the certificate, the file. `EnsurePool` takes an equal file for a loaded
one. `InstallMasterConfig`, `TestMaster` and `WriteProvisionReadyMarker` are the
statements of `Init`, and it can be killed between any two.

certbot is modelled from how the code calls it: `certonly
--keep-until-expiring` keeps, renews or makes `live/<d>`, or writes a suffixed
lineage when something else is at that name; it may be killed by the two minutes
of its context after it did its work. `CertEvent` has what nobody asks ngm for:
time passes, a lineage is deleted, half a directory is restored.

`PoolFaults` and `CertFaults` say what fails: the write of a pool file, the
reload of php-fpm (before or after it was done), certbot, openssl.

Left out: the choice between several suffixed lineages, and that the pattern of
`certbot.go:63` also matches the directory of a domain that continues this one
with a hyphen; the expiry of the fallback, which `template.go` makes for seven
days and never again; failures of files, reloads and verdicts of Apply (in
`NgmApply`); directories; two panels on one host (`applyMu` is one here);
`EnsureCertExists`, `DeleteCert`, `RevokeCert` and `EnsureHostnameCert`, which
nothing calls; pools of deleted sites and users, which nothing removes; a
`provision init` that finds its file and marker in place and writes both again.

### NgmAccounts, NgmBackup

| variable | code |
|---|---|
| `db.panel`, `db.users` | the rows of `panel_users` (id, role, whether its hash is a mark for /etc/shadow or a bcrypt hash, `reseller_id`) and the ids of `users` |
| `db.packages`, `db.assigned` | the rows of `packages`; `user_packages`, from ids to ids |
| `db.sites`, `db.last` | owner, settings and targets of each site; the last id each table gave |
| `archive` | the dump and which trees the tar holds; `good`: Create returned no error |
| `restore` | the maps of `Restore` from names to the ids it found, and what it has done |
| `trees` | the sites whose files are on disk |
| `before`, `held`, `had` | history: the database by names and the packages of its panel users when the restore began; packages of names when the archive was made |

Every command is one action whose outcomes include the errors that leave part of
it behind. `Restore` is one action per statement, in its order: packages, panel
users (by name), owners, assignments, sites, targets, files. `Faults`: `db` (a
statement fails or the process is killed: what was written stays, and the
restore may be run again) and `copy` (a file cannot be copied, a warning).
`Reinstall` takes the archive to a fresh host. `ByName` forgets the ids: it is
what a restore can be compared by.

Left out: commands during a backup or a restore; the counters of panel users;
certificates and Linux accounts `Restore` ensures; the format of the archive;
sites outside the home of their owner; which role may save
which scope in `handleBackup`, as the operator may choose any.

## Runs

| run | instance | shows |
|---|---|---|
| `apply_serial` | 2 sites, 3 texts, 4 row writes, one request at a time, `io` and `test` faults, HUP reload, deletes | `LiveValidAtRest`, `BackupsValid`, `VerdictMatchesDisk`, `NothingPendingIsHidden`, `OkMeansServed`, `ServedIsOnDisk`, `NoOrphan`, `ApplyIsAtomic`, and the refinement `ImplementsDirectory` |
| `apply_panel` | the same without deletes, 3 row writes, `--limit` 0 or 1, edits while a batch runs, nginx never started by ngm | what survives concurrent edits: files, verdicts, atomicity |
| `apply_faults` | 2 sites, one a proxy, every fault | `OkIsWrittenForLiveFile`, and every apply ends |
| `apply_operator` | 2 sites, 4 texts (two accepted, one rejected, one that cannot be built), 4 row writes, one request at a time, no failures; apply is run again and again with `--limit` 0 or 1 | `SitesSettle`: what becomes of sites next to rejected, unbuildable and disabled ones |
| `sites_serial` | names r1, r2 and s1, s2 below r1, s2 being an alias, 2 owners, one request at a time with DNS, every fault | `DnsMatchesSites`, `ParentsAreRoots`, `OkAddIsServed`, `OkDeleteLeavesNothing`, `PastLimitOnlyByMove` |
| `sites_race` | the same names, two requests at once, no DNS, limits of one | `OvershootBounded` |
| `panel_accounts` | one user, one reseller, two requests at once, 3 ids, failing commands | `OkMeansDone`, `OwnersExist` |
| `panel_logins` | one user that is created, edited, deleted and logs in, two requests at once, 2 ids | `AttemptsBounded` |
| `host_daemons` | 2 sites of one pool key, 2 PHP versions, 2 requests at once, a good and a bad master configuration, failing pool writes, reloads, certbot and openssl | `SocketsListen`, `DiskIsServed`, `ReadyMeansTested`, `AliasAtRest`, `IssuedIsServed`, `ApplyAllHeals` |
| `host_renewal` | 1 site, one request at a time, no failures | *violated*: after `ngm cert renew`, whose flag says "Reload nginx after renewal" (`main.go:1221`), nginx serves the old certificate: the vhost has not changed, so `Apply` does not reload |
| `backup_restore` | 2 names, a reseller and a user, 2 packages, 1 site; 3 commands, a backup of any scope, a command or a fresh host, 2 restores, every fault | `RoleDecidesHash`, `RestoreMerges`, `OthersUntouched`, `FilesComeBack` |
| `backup_packages` | an admin and a user, a backup of all, a restore on a fresh host, no failures | *violated*: packages are saved and restored by the id of `users`, while the table refers to `panel_users` (`0002_phase1a.sql:32`); a user loses its package |

Bounds of `NgmApply`. Two sites are the smallest number for which a batch is more than
`applyOne` and for which one site's failure can affect another; two good texts
and a bad one give an old, a new and a rejected version of a site; three or
four row writes are enough for a site to be created, edited, disabled and
edited again between two applies, which is what a stale backup, a stale verdict
and a rolled back removal need. Deadlock is not checked: with `ops` at its
bound and nothing to apply an instance may stop. For `apply_operator` four writes
are two sites with one edit each: a site before or after a disabled, rejected or
unbuildable one, which may be mended later.

Bounds of `NgmSites`. Two names below one root are what a lost record, a
dependent subdomain and a full subdomain limit need; r2 is a second root for
the root limit, and gives the include file two entries; two owners make takeovers
and moves possible. Operations are unbounded in number: the state is finite. One
worker and every fault, or two workers and no faults, keep the runs under a
minute; with two workers and limits of one the bound is reached (with a slack of
0 instead of 1 `OvershootBounded` fails).

Bounds of `NgmPanel`. One user and one reseller are what ownership, a reseller
deleted under a new user and interference between two names need; a third id
lets one of them be deleted and created again, which separates a name from its
id. A request that needs a fourth row stops there. Operations are unbounded in
number. With two logins at once the bound of `AttemptsBounded` is 7 and reached;
one login at a time gives the 5 of the code. CHECK_DEADLOCK is off in every
configuration because a system that has nothing to do may stop.

Bounds of `NgmHost`. Two sites with one key are what a shared pool file and one
site's certificate stopping the other's vhost need; two versions give a switch
whose vhost is rolled back to the old socket; two requests race for an alias or
for `applyMu`. `MaxOps` (4) counts requests, writes of sites and provisionings
together: enough for a site to be written, issued and renewed or applied again
beside another request. `MaxRuns` (1, in `host_renewal` 2) bounds the
certificates certbot makes, `MaxEvents` (1) what happens by itself. With one
event a certificate is deleted, left incomplete or becomes due under any of those
requests; a second one would only do so twice.

Bounds of `NgmBackup`. Two names in order show both orders of a user and its
reseller; two packages, one of them the one the migrations make, show ids that
agree and ids that do not; one site has its owner, settings and targets.
`MaxOps` (3) commands before the backup make a reseller, its user and a site, or
a user, a package and its assignment; `MaxLater` (1) changes the host before a
restore or between its attempts; `MaxRestores` (2) is an attempt that stops and its rerun. `MaxId` (7),
at which commands and restores stop (`IdsLeft`), is more than these can give: no
state is cut off.

Fairness. `FairSpec` says that an `Apply` and a `SiteDelete` that began go on:
they are straight-line code on a goroutine of their own, and every command they
run is killed after 10 s by `util.Run`. `OperatorSpec` adds that somebody runs
`ngm apply` again and again (strong fairness, as a start is possible only while
`applyMu` is free, and for some limit, not for each); it is an assumption on the
environment, used only for `SitesSettle`. There `MaxOps` stands for the end of the
edits. Failures are left out of that run: nothing bounds them, and a write that
fails on every run keeps its site unserved whatever the code does.

### Other behaviours of the code TLC shows

Each is one change of constants away from a passing run:

- `NothingPendingIsHidden` with `ProxyDomains` not empty: writes of
  `proxy_targets` do not touch the row, so apply sees nothing pending. With
  `reload` in `Faults`: a failed reload ends `SiteDelete` with the file removed
  and the row still ok.
- `OkMeansServed` with `crash`: the apply after a crash finds the file unchanged
  and records ok without a reload, for a file nginx never loaded.
- `ServedIsOnDisk` with `crash`: two publishes without a reload in between leave
  neither the live file nor its backup at what nginx serves.
- `LiveValidAtRest` with `Serial = FALSE` and deletes: `SiteDelete` backs up the
  untested file of a running apply, and the rollback restores it.
- `NoOrphan` with `Serial = FALSE` and one site: `SiteDelete` takes no `applyMu`,
  and an apply that read the row before writes the vhost of the deleted site.
- `VerdictMatchesDisk` with `db`: a lost verdict leaves an earlier ok behind.
- `SitesSettle` without its premise on `--limit`: a site that is disabled or cannot
  be built counts as applied on every run, so with `--limit 1` on every run the
  sites after it never are.
- `SitesSettle` without `BesideRejected`: a batch with a rejected file is rolled
  back and every site of it is marked failed, so as long as a rejected site is
  enabled its neighbours, which are attempted again on every run, are published and
  rolled back each time.
- `DnsMatchesSites` with two workers: `EnsureSubdomainSite` and `EnsureRootSite`
  read, change and write a zone file without a lock, and one of two concurrent
  records is lost although both requests report success.
- `OkDeleteLeavesNothing` without its exception: `DeleteSubdomainSite` takes a
  missing zone file for a success, also when named still answers for the name
  because a crash or a failure stopped the deletion of the parent's zone.
- `OkAddIsServed` without its exception for subdomains: after a crash between the
  zone file and the include file of the parent, a subdomain is added to a zone
  that named knows but that is not listed, and is lost when named restarts.
- A subdomain that the template makes an alias fails at `named-checkzone`, after
  its record was written. The compensation deletes the row and leaves the
  record, and every later change of that zone fails until the file is mended or
  the root is deleted.
- `PastLimitOnlyByMove` says what it can: `SiteEdit` with a new owner checks no
  limit, and moving a root leaves its subdomains with the old owner.
- `ParentsAreRoots` with `DnsEnabled = FALSE`: dependents are looked for only
  with DNS, so a root is deleted under its subdomains.
- `OkMeansDone` without `clean`: a suspend and an enable of one user that overlap
  leave the row of one and the account of the other; a delete that overlaps with
  a new user of that name leaves a row without an account; and a failed command
  is reported as a success.
- A whole-row save writes back the counter and the lock it read: it undoes a lock
  set meanwhile. `AttemptsBounded` counts from the last such save.
- A reseller whose row is gone keeps its session. A user it creates is upserted
  before the foreign key refuses its owner, so the row stays, without an account.
- `CreatePanelUser` takes over an existing row of that name, with its counter, so
  `ngm panel-user add` gives a row the role that `edit` refuses it.
- `LiveValidAtRest` at every moment instead of between requests: files are live
  before `nginx -t`, and a rejected one stays until the rollback
  (`README.md:7` of the repository speaks of a test before the swap). With two processes in `Procs`, a
  panel and a command line, a rejected file stays live after both returned: each
  has its own `applyMu`.
- `NothingPendingIsHidden` with `Serial = FALSE`: an edit saved during an apply is
  marked as applied, because the verdict carries the time it is written.
- `sites_serial` with `AddRequests <- AnyAdds`: a root that is added again as a
  subdomain has its name in two zones; `SiteEdit` refuses that change
  (`site.go:651`), `SiteAdd` does not. With a third name below that root,
  `ParentsAreRoots` fails too.
- `SocketsListen` without `missed`: after a failed reload of php-fpm the pool file
  is there, `EnsurePool` finds it unchanged and reports success, and nginx serves
  a vhost whose socket nobody listens on until that php-fpm is restarted.
- Two sites of one pool key rewrite each other's pool: the second then runs as
  the user of the first, and every Apply of one undoes the other's.
- `DiskIsServed` holds with a bad master configuration because every Apply rolls
  back; nothing but another `ngm provision init` ends that (`master.go:58` keeps
  no copy of the accepted one).
- `AliasAtRest` says nothing of requests in progress: between the removal and the
  link of the alias another request renders the vhost with the fallback, and the
  next Apply brings it back.
- A restore of packages that the foreign key stops is stopped at the same
  statement by every rerun, before any site is restored.
- `RestoreMerges` gives a user its reseller only if the reseller sorts first; if
  it does not, the user stays with whom it was, or with nobody on a fresh host.
- `OthersUntouched` without `TakenFor`: `AssignPackage` gets an id of `users`
  (`restore.go:119`). If a panel user outside the archive has that id in
  `panel_users`, it gets the package of the restored owner. Names 1 and 2 become
  panel users 1 and 2, name 1 with a package, and a refused `site add` makes name 2
  the first row of `users`. Name 2 is backed up, with the package of panel user 1,
  and restored: name 1, whose package was changed meanwhile, has the old one again.
  Restored as name 1 (`--new-user`), the second row of `users`, it is name 2 that
  gets a package.
- A user without a row in `users`, which only `SiteAdd` makes, loses its package
  with a backup; a backup of all leaves out sites whose owner has no panel user
  (`backup.go:132`).
- `ngm panel-user del` takes the package away first, and keeps the row when
  another one refers to it.
- An archive that `Create` ended early (a site whose directory is gone) is a file
  like any other: it restores without an error, with the sites and without the
  files (`FilesComeBack` asks for `archive.good`).

## Proofs

The theorems hold for every value of the constants: any finite or infinite set of
sites, texts, versions and keys, any number of requests, and, where the module has
bounds for TLC's sake, every bound. A theorem that needs more than the module's own
`ASSUME` says so in its statement, by a named predicate of the constants.

| theorem | property | assumes |
|---|---|---|
| `NgmApplyProofs!TypeCorrect` | `TypeOK` | |
| `NgmApplyProofs!LiveValid`, `BackupsAreValid` | `LiveValidAtRest`, `BackupsValid` | `SingleWorker` |
| `NgmApplyOutcomeProofs!OkIsTruthful` | `OkIsWrittenForLiveFile` | `OneWriter` |
| `NgmApplyOutcomeProofs!ApplyAllOrNothing` | `ApplyIsAtomic` | `KeepsNginx` |
| `NgmApplyOutcomeProofs!VerdictsMatch` | `VerdictMatchesDisk` | `KeepsVerdicts` |
| `NgmApplyDirectoryProofs!OkIsServed` | `OkMeansServed` | `TellsReload` |
| `NgmApplyDirectoryProofs!ServedStaysOnDisk` | `ServedIsOnDisk` | `KeepsServing` |
| `NgmApplyDirectoryProofs!NoOrphans` | `NoOrphan` | `SingleWorker` |
| `NgmApplyDirectoryProofs!NothingIsHidden` | `NothingPendingIsHidden` | `KeepsVerdicts`, `Serial`, no proxy sites |
| `NgmApplyDirectoryProofs!Refinement` | `ImplementsDirectory` | `KeepsPromise` |
| `NgmSitesProofs!SitesTypeCorrect` | `TypeOK` | |
| `NgmSitesProofs!LimitsBounded` | `OvershootBounded` | `NoMoves` |
| `NgmSitesSerialProofs!PastOnlyByMove`, `AddsAreServed`, `DeletesLeaveNothing` | `PastLimitOnlyByMove`, `OkAddIsServed`, `OkDeleteLeavesNothing` | `OneRequest` |
| `NgmSitesSerialProofs!DnsMatches` | `DnsMatchesSites` | `OneRequest`, `NamesKeepKind` |
| `NgmSitesSerialProofs!ParentsStayRoots` | `ParentsAreRoots` | `OrderlyNames` |
| `NgmPanelProofs!TypeCorrect`, `OwnersStay`, `GuessesBounded`, `OkIsTrue` | `TypeOK`, `OwnersExist`, `AttemptsBounded`, `OkMeansDone` | |
| `NgmHostProofs!TypeCorrect`, `ReadyIsTested`, `SocketsAreServed`, `DiskIsWhatIsServed`, `AllIsHealed`, `IssuedGetsServed`, `AliasIsLeft` | `TypeOK`, `ReadyMeansTested`, `SocketsListen`, `DiskIsServed`, `ApplyAllHeals`, `IssuedIsServed`, `AliasAtRest` | |
| `NgmBackupProofs!TypeCorrect`, `HashesAreForRoles`, `FilesReturn`, `OthersStay`, `Merges` | `TypeOK`, `RoleDecidesHash`, `FilesComeBack`, `OthersUntouched`, `RestoreMerges` | |

### The apply pipeline

`NgmApplyProofs`: `TypeOK` is not inductive as it stands, because `RecordVerdict`
uses `ap[p].cur` as a domain: `TypeInv` adds `CurIsDomain`, that a call which
publishes or records has a current domain.

`SafeInv`: any limits, edits at any time, and every fault but two.
Assumptions (`SingleWorker`): one process; no crash in the middle of an apply;
rollback can write its files; `SiteDelete` does not overlap an apply. Each is
needed: TLC refutes `LiveValidAtRest` when it is dropped. `LiveValidAtRest` says
nothing while an apply runs, so the inductive invariant `SafeInv` accounts for
every invalid live file: the running call *excuses* it (the batch has written it
and has not passed `nginx -t`, or the rollback has not reached it). Backups stay
valid at every moment because a call never publishes the same site twice
(`Ahead`), so the file it backs up was there before the call, when everything
was valid.

`NgmApplyOutcomeProofs` starts with what each action makes of the record of its
call (`CallOfStart`, `CallOfWrite`, ...), which the later proofs cite instead of
the actions. Three invariants on them:

- `AimInv`: a call that publishes has staged the text it wants, and the file of a
  change it wrote and has not taken back is the text it wants. That is why an ok
  carries the hash of the live file. It needs `OneWriter` only: one process, and no
  `SiteDelete` in the middle of a call. It holds through crashes, because the
  verdict is written from the record of the call that dies.
- `TrackInv`: the live files differ from those before the call only in the files it
  changed. Until the reload those are what it wants and their backups are what was
  live before; behind the rollback they are what they were, or a kept backup where
  there was none. With
  `LoadedInv` (`applyOne` writes its verdict after the reload) it gives
  `ApplyIsAtomic`. `KeepsNginx` is `SingleWorker` and nobody stopping nginx behind
  ngm's back, which would undo a load before the call returns.
- `VerdictInv`: a row that says ok has the hash of its live file, or a call has
  still to write a verdict for it (`Revises`), or it is being deleted.
  `KeepsVerdicts` is `SingleWorker`, no lost verdict (`db`; the code ignores that
  error), and either no deletes, or no failing reloads and nobody stopping nginx: a
  `SiteDelete` whose reload fails ends with the file gone and the row still ok.

`NgmApplyDirectoryProofs`, for one process at work (`SingleWorker`) and three
degrees of trust in nginx. `SingleWorker` alone: reloads may fail or be delivered
and reported as failed, and nginx may be stopped and started at any time.
`TellsReload`: a reload does what it reports; nginx may still be stopped.
`KeepsServing`: nobody stops it either. TLC refutes `OkMeansServed` with failing
reloads, and `ServedIsOnDisk` and the refinement with either.

- `PresentInv`: a live file, and a site a call is about, has its row. One call at a
  time and no delete during a call make the read of a row last.
- `GoneInv`, for `NoOrphans`: a site that nginx serves has its row. `SiteDelete`
  removes the row only after its reload was reported to have worked, and then nginx
  has let go of the site; whatever nginx loads later are live files, which have rows
  (`ServesLive`, `PresentInv`).
- `LoadsInv`, for `OkIsServed`: a running nginx serves the live files whenever the
  call is `Settled`: it is over, has changed nothing yet, or has loaded what it
  changed or took back. A start in the middle of a call loads files that the call
  may still take back, and the reload after the rollback corrects that.
- `ServedInv`, for `KeepsServing`: while a call has not reloaded, nginx serves what
  was live before the call; otherwise it serves the live files, except for the
  site being deleted.
- `FollowInv` and `HashInv`, with `Serial`: a running call works from rows that are
  still current, so an ok that is not stale has the hash of what the row renders
  now. Proxy sites are excluded because `proxy_targets` are written without
  touching the row; TLC gives the counterexample.

`Refinement` follows from these step by step. A write of a row is `Ask` or a
stutter, a backup of a file that is served is `Keep` (`ServedInv` says that it is),
the reload of a batch is `Install` of the sites it changed (`TrackInv` says that
they are all that changed, `FollowInv` that they are what the rows ask for), the
reload of a rollback puts a site back or is a stutter, and that of `SiteDelete`
is `Withdraw`. `KeepsPromise` is `KeepsServing` and `Serial`.

### Sites

`NgmSitesProofs`: the strengthening `TypeInv` of `TypeOK` says that an operation in
progress has a domain.

`LimitsBounded` is for any number n of concurrent requests,
any names and limits, with and without DNS, and every fault. Assumption
(`NoMoves`): no edit names another owner. The limits are checked by counting
rows in one statement and inserting in a later one, so `OvershootBounded` is not
inductive: a state in which the bound is reached and n more requests have passed
the count would break it. `LimitInv` bounds `Held`, the sites an owner has
together with those that requests in flight may still write for it without
another check. An edit that keeps the kind of its site is never counted, and
its site is held from the moment it is read, which is why the row it may
resurrect after a concurrent delete stays within the bound. A request that
passes the count found fewer sites than the limit, and the n requests claim at
most one site each (`ClaimedBound`): that is the limit less one plus n. `LimitInv`
was checked with TLC on the instance of `sites_race` first.

`NgmSitesSerialProofs` is about one request at a time (`OneRequest`), which TLC shows
to be needed for every property but the limits' bound (with two workers a record is
lost, a root goes from under its new subdomain, a limit is passed). Any names, limits,
owners and requests, and every fault: crashes, restarts of named, rndc that obeys too
late. Four invariants, each resting on the ones before it, checked with TLC on the
instance of `sites_serial` first:

- `RowInv`: the phase of a call fits its statement (`Fits`), and what the call found
  out still holds of the rows (`Knows`): the parent it validated, the room it counted,
  that the row it is about to make or delete was not or is there. `PastOnlyByMove`
  follows from it by counting: an insert into a set of sites that had room
  (`OneMoreFits`), or a change that adds nothing (`FewerIsFine`).
- `WorkInv`: what a call has made sure of on disk and in named by the statement it is
  at, an add (`Adding`) and a delete (`Removing`), however the files were left by the
  requests before. `AddsAreServed` and `DeletesLeaveNothing` need it together with
  `WhoSucceeds`: a success can only be reported by the reload of an add's zone or by
  the delete of a row.
- `TreeInv`: a site is where it was asked for and a subdomain's parent is a root
  (`Rooted`); the row a delete or a compensation is about to remove has nothing below
  it (`Leaves`), because a parent must exist when a subdomain is added and nothing is
  added meanwhile. `ParentsStayRoots` is its first half. `OrderlyNames` asks for two
  things besides `OneRequest`, and without either TLC has a counterexample: DNS,
  because `SiteDelete` looks for dependents only then, and `NamesKeepKind`, because
  `SiteAdd` of a name that exists writes over its row, so a root with subdomains can
  be made a subdomain of the name above it.
- `AgreeInv`, while nothing failed: files, include file and named agree with the rows
  but for the zone of the running call, at the statements where that one is ahead or
  behind (`Early`, `Late`, `InZones`, `Listed`, `Loaded`). Without a failure no
  provider call can report an error and nothing is compensated or restored: the zone
  of a subdomain has its parent's record, so `loadZone` finds it; what was checked is
  valid, listed and known when `rndc reload` asks for it. `DnsMatches` is `AgreeInv`
  between requests, read with `Rooted`; without DNS it has nothing to say.

### The panel

`NgmPanelProofs` assumes nothing but that there are finitely many requests at once
(`PanelAssumption`): any users and resellers, any number of ids, and commands that
fail or not.

- `BaseInv` is `TypeOK`, that no two rows share a name and every row has an id that
  was given out (`RowsInv`), and what the record of a request implies at each
  statement (`CallsInv`): `Knows` says that the id a request read belongs to the
  name it was asked for for as long as the row exists. Ids are never given out
  twice and no statement renames a row (`Lasting`), so that survives a delete and a
  new user of the same name. `OwnersExist` needs `BaseInv` and the foreign key.
- `AttemptsBounded` counts. The lock is set from the counter a login read, so each
  login in flight may add one guess. `Tally` bounds the wrong passwords since the
  last lock or reset by the counter of the row and the sizes of four groups of
  requests: those still verifying a password (`Verifying`), those among them whose
  copy of the counter is too old to lock (`Stale`), those about to count a wrong one
  (`Counting`) and those that will lock (`Fresh`). `TriesInv` says so of every row;
  each action moves one request from one group to another. Once the counter is one
  short of the lock, only `Stale` and `Fresh` can still add to it, and neither is
  more than the n requests there are: 3 + 2n.
- `OkMeansDone` is about requests that ran undisturbed. `AloneInv` says that nobody
  else works on such a request's user except logins, `ProgressInv` what rows and
  Linux account are at each of its statements (`Progress`). A step of another
  request changes nothing of that user (`SameFor`): a login writes the
  counter and the lock only, and a save of another user does not touch this one.

### Pools, certificates, provisioning

`NgmHostProofs` assumes nothing beyond the constants: any number of requests at once,
requests, events and runs of certbot.

- `TypeInv` adds to `TypeOK` which sites a request is at in each of its steps.
- `ReadyInv`: the marker is for a configuration that nginx accepted, and an `Init`
  that is about to write one tested the configuration that is in place. No other
  process writes the master configuration, which is `prov`'s guard.
- `PoolsInv`: no pool file is ever removed, so everything that is served, on disk, or
  could be put back by the rollback of a running call has its pool; a pool without
  a listener is one whose reload failed (`missed`).
- `DiskInv`: one call has the lock; while it renders, nginx serves what was there
  before the call, and the files it did not write are as they were.
- `HealInv`, for `ApplyAllHeals`: an undisturbed Apply of everything leaves behind it
  only files whose certificate exists. `IssueInv`, for `IssuedIsServed`: from its
  check on an undisturbed `CertIssue` has a certificate, and after the render of
  its site the file names it.
- `AliasInv`: a site whose alias was seen to has no incomplete directory, and if it
  has a suffixed certificate that can be read, or some request is between removing
  what was there and making the alias.

### Accounts, backup and restore

`NgmBackupProofs` assumes nothing beyond the constants: any number of names,
packages, sites, commands, attempts and failures. Names are numbers in their order,
of which a set has a least element: the user that Restore takes next.

- `Sound` is what the tables keep through every command: ids are unique and were
  given out, a `reseller_id` and the owner of a site lead to a row, what has no id has
  no fields. One lemma for each statement of the store says what it changes and that
  it keeps `Sound`; commands and statements of Restore cite it. `HashesFit` is
  `RoleDecidesHash` with the roles that exist, which the rows of an archive
  (`ArchiveFits`) need too, for they become rows again.
- Restores are compared by names, but made by ids. `ResellerStays` and `OwnerStays`
  say when a name outlives a statement: the row it leads to keeps its id.
- `BackupInv` says of a restore at any statement how far it is (`Merging`): a row that
  is not in the archive is as it was when the restore began; one whose id is in the
  maps of Restore is that of the archive; a site has the targets it had and perhaps
  those of the archive. Nothing is said of a row in between, which an earlier attempt may have
  written and a later one will write again, except its link: one that is not
  brought back must still be the one before (`PanelMerging`). `InOrder`, users are
  restored in the order of their names, is why a link is brought back just when the
  reseller sorts first. The rows of `OthersUntouched` are part of that
  (`OthersAreBefore`); `RestoreMerges` follows when nothing is left (`AllRestored`).
- A restore of the same names after one that stopped starts with empty maps on the
  same `before`, so `Merging` carries over (`StartKeeps`): that is why attempts may be
  repeated.
- `TypeOK` adds that ids are within their bound and that an assignment is one of a
  package that exists: `PackageDel` refuses a package that is assigned (`Bounded`).
- The packages of `OthersUntouched` need `HeldInv` on top of both: no statement
  changes an id that a row has, and the ids `user_packages` is written with are those
  in `users` of owners of the archive with an assignment (`AssignFits`,
  `UsersMerging`). So a panel user outside the archive keeps its `package_id`, or
  has one of those ids (`TakenFor`), and then has it for the rest of the restore.

### What is not proved

- Liveness (`ApplyTerminates`, `SitesSettle`) is out of the reach of the
  prover, which knows no fairness and no `ENABLED`; TLC checks both.
- `RenewedIsLoaded` and `PackagesComeBack` are false, which two runs show.
- `OkMeansServed`, `ServedIsOnDisk` and the refinement beyond the assumptions named
  above are false, as are the other theorems about `NgmApply` when processes
  overlap: TLC gives the counterexamples.

## Plan

1. `NgmApply`, its proofs and `NgmDirectory` with the proof of the refinement (done).
2. `NgmSites` and its proofs (done).
3. `NgmPanel` and its proofs (done).
4. `NgmHost` and its proofs (done).
5. `NgmAccounts`, `NgmBackup` and their proofs (done).

## Not modelled

- `internal/config`: a file read once at start, defaults filled in, never changed
  after that; what matters of it are constants.
- `internal/store/mysql`: a stub whose every operation is an error.
- Templates and pages: text. A vhost is what nginx makes of it, a page changes
  nothing. Visibility checks of the handlers refuse a request before it changes
  anything.
- Directories and their owners (`internal/users/provision.go`, `EnsureLayout`,
  php.ini overrides): straight-line calls that are repeated until they succeed
  and that no other state depends on.
- The format of archives and zone files, beyond what they hold.
- `applySingle` and its helpers in `cmd/ngm/main.go`, and the functions of
  `internal/certs` named above: they have no caller.
- A crash of the host: files are written with rename, and the model's crashes are
  of processes.
