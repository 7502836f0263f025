------------------------------ MODULE NgmApply ------------------------------
(***************************************************************************)
(* The apply pipeline of ngm: how rows of the sites table become vhost     *)
(* files in the nginx sites directory, how those files are validated,      *)
(* loaded by nginx or rolled back, and how the verdict is written back to  *)
(* the row.  Sources: internal/app/apply.go, internal/nginx/manager.go,    *)
(* the site operations of internal/store/sqlite/sqlite.go and the nginx    *)
(* half of SiteDelete in internal/app/site.go (a deployment with           *)
(* dns.enabled=false).                                                     *)
(*                                                                         *)
(* Abstractions.                                                           *)
(*  - The text of a vhost file is one of the values of Confs; what matters *)
(*    of it is whether rendering succeeds and whether `nginx -t' accepts   *)
(*    a sites directory that holds it.                                     *)
(*  - updated_at and last_applied_at are compared and never otherwise      *)
(*    read, so a row keeps the outcome of the comparison: stale holds iff  *)
(*    updated_at is after last_applied_at.  Writing the row sets it,       *)
(*    UpdateApplyResult clears it.                                         *)
(*  - A sha256 of a rendered file stands for the file: the row's           *)
(*    last_render_hash is the text itself, NoConf for the empty hash.      *)
(*  - test_before_reload is TRUE: config.go:184 sets it whatever the file  *)
(*    says, so the branches that skip `nginx -t' are unreachable.          *)
(*  - A dry run changes nothing and is left out.                           *)
(*                                                                         *)
(* A definition marked "a bug" is not the code: it is a mistake someone    *)
(* could make there, kept to show which property would notice it.          *)
(***************************************************************************)
EXTENDS Integers

CONSTANTS
    Domains,      \* site names, integers so that <= is the ORDER BY of ListSites
    Procs,        \* ngm processes; each has an App with an applyMu of its own
    Good,         \* vhost texts that nginx accepts
    Bad,          \* vhost texts that render and that nginx -t rejects
    Unbuildable,  \* site settings for which buildTemplateData fails
    NoConf,       \* no file, no text, the empty hash
    ProxyDomains, \* sites in proxy mode: their text comes from proxy_targets
    Deletable,    \* the domains SiteDelete may be called for
    Limits,       \* the values of --limit, 0 is unlimited
    Faults,       \* which of the failures of AllFaults can happen
    HupReload,    \* the unit reloads with kill -HUP, which reports no bad config
    StartsNginx,  \* FALSE iff reload_mode=signal on a systemd host
    Serial,       \* TRUE: an operator issues a request when the last is done
    MaxOps        \* bound on the number of writes of site rows and targets

AllFaults == {"io", "test", "reload", "rollback", "db", "stop", "crash"}

Confs == Good \cup Bad \cup Unbuildable
ConfOrNone == Confs \cup {NoConf}

ASSUME ConstantsAssumption ==
    /\ Domains \subseteq Int
    /\ ProxyDomains \subseteq Domains
    /\ Deletable \subseteq Domains
    /\ Limits \subseteq Nat
    /\ Faults \subseteq AllFaults
    /\ HupReload \in BOOLEAN
    /\ StartsNginx \in BOOLEAN
    /\ Serial \in BOOLEAN
    /\ MaxOps \in Nat
    /\ NoConf \notin Confs
    /\ Good \cap Bad = {}
    /\ Good \cap Unbuildable = {}
    /\ Bad \cap Unbuildable = {}

VARIABLES
    rows,     \* the sites table
    targets,  \* the text a proxy site's proxy_targets rows make, NoConf: none
    stage,    \* StageDir/sites/<domain>.conf
    live,     \* SitesDir/<domain>.conf
    bak,      \* BackupDir/<domain>.conf.bak
    up,       \* is the nginx master running
    running,  \* the vhosts nginx loaded last
    ap,       \* per process, the Apply call that holds applyMu
    del,      \* the SiteDelete call in flight
    ops       \* how many writes of rows and targets were made, see MaxOps

files == <<stage, live, bak>>
nginx == <<up, running>>
db    == <<rows, targets>>
vars  == <<rows, targets, stage, live, bak, up, running, ap, del, ops>>

-----------------------------------------------------------------------------
(* Types and initial state *)

Row == [site   : {"absent", "enabled", "disabled"},
        conf   : ConfOrNone,
        status : {"none", "ok", "fail"},   \* last_apply_status; none: NULL
        stale  : BOOLEAN,                  \* updated_at after last_applied_at
        hash   : ConfOrNone]               \* last_render_hash

NoRow == [site |-> "absent", conf |-> NoConf, status |-> "none",
          stale |-> FALSE, hash |-> NoConf]

\* before is a history field: the sites directory when the call began.  No
\* action reads it.  want[d] is the text rendered for d (its renderHash),
\* changed the domains whose live file this call wrote or removed.
ApplyCall == [pc      : {"idle", "loop", "publish", "record", "test", "reload",
                         "rollback", "recover", "fail"},
              mode    : {"batch", "one"},
              all     : BOOLEAN,
              limit   : Nat,
              applied : Nat,
              snap    : [Domains -> Row],
              todo    : SUBSET Domains,
              cur     : Domains \cup {NoConf},
              verdict : {"ok", "fail"},
              want    : [Domains -> ConfOrNone],
              changed : SUBSET Domains,
              before  : [Domains -> ConfOrNone]]

NoCall == [pc |-> "idle", mode |-> "batch", all |-> FALSE, limit |-> 0,
           applied |-> 0, snap |-> [d \in Domains |-> NoRow], todo |-> {},
           cur |-> NoConf, verdict |-> "ok",
           want |-> [d \in Domains |-> NoConf], changed |-> {},
           before |-> [d \in Domains |-> NoConf]]

NoDelete == [pc |-> "idle", dom |-> NoConf]

\* Every variable has its type: what NgmApplyProofs proves first.
TypeOK ==
    /\ rows \in [Domains -> Row]
    /\ targets \in [Domains -> ConfOrNone]
    /\ stage \in [Domains -> ConfOrNone]
    /\ live \in [Domains -> ConfOrNone]
    /\ bak \in [Domains -> ConfOrNone]
    /\ up \in BOOLEAN
    /\ running \in [Domains -> ConfOrNone]
    /\ ap \in [Procs -> ApplyCall]
    /\ del \in [pc : {"idle", "reload", "row"}, dom : Domains \cup {NoConf}]
    /\ ops \in Nat

\* A freshly bootstrapped host: an empty table, empty directories, nginx up.
Init ==
    /\ rows = [d \in Domains |-> NoRow]
    /\ targets = [d \in Domains |-> NoConf]
    /\ stage = [d \in Domains |-> NoConf]
    /\ live = [d \in Domains |-> NoConf]
    /\ bak = [d \in Domains |-> NoConf]
    /\ up = TRUE
    /\ running = [d \in Domains |-> NoConf]
    /\ ap = [p \in Procs |-> NoCall]
    /\ del = NoDelete
    /\ ops = 0

NoApply == \A p \in Procs : ap[p].pc = "idle"
Quiet == NoApply /\ del.pc = "idle"

\* A new request is accepted: always by the panel, which serves handlers
\* concurrently; between requests by an operator who works alone.
Accepts == Serial => Quiet

-----------------------------------------------------------------------------
(* The sites table: internal/store/sqlite/sqlite.go *)

\* A bug: a site that was applied once is pending only when it is written.
siteNeedsApply_onlyWritten(r) ==
    /\ r.site = "enabled"
    /\ r.status = "none" \/ r.stale

\* siteNeedsApply: an enabled row that was never applied, whose last apply
\* failed, or that was written after its last apply.
siteNeedsApply(r) ==
    /\ r.site = "enabled"
    /\ r.status # "ok" \/ r.stale

\* A bug: the two string arguments are bound in the wrong order.
UpdateApplyResult_swapped(d, status, hash) ==
    rows' = IF rows[d].site = "absent" THEN rows
            ELSE [rows EXCEPT ![d] = [@ EXCEPT !.status = hash,
                                               !.stale = FALSE,
                                               !.hash = status]]

\* UpdateApplyResult: an UPDATE ... WHERE domain=?, so no effect when the row
\* is gone; last_applied_at becomes now, which is after updated_at.  Apply
\* ignores its error: the verdict is then lost.
UpdateApplyResult(d, status, hash) ==
    \/ rows' = IF rows[d].site = "absent" THEN rows
               ELSE [rows EXCEPT ![d] = [@ EXCEPT !.status = status,
                                                  !.stale = FALSE,
                                                  !.hash = hash]]
    \/ "db" \in Faults /\ UNCHANGED rows

Spend == ops < MaxOps /\ ops' = ops + 1

\* A bug: ON CONFLICT DO UPDATE forgets updated_at.
UpsertSite_untouched(d, c, enabled) ==
    /\ Accepts /\ Spend
    /\ rows[d].site = "absent" => enabled
    /\ rows' = [rows EXCEPT ![d] =
                  [@ EXCEPT !.site = IF enabled THEN "enabled" ELSE "disabled",
                            !.conf = IF d \in ProxyDomains THEN NoConf ELSE c]]
    /\ UNCHANGED <<targets, files, nginx, ap, del>>

\* UpsertSite, as SiteAdd (which enables) and SiteEdit call it: the apply
\* columns of an existing row are kept.  The text of a proxy site is in
\* proxy_targets, so its row has none.
UpsertSite(d, c, enabled) ==
    /\ Accepts /\ Spend
    /\ rows[d].site = "absent" => enabled
    /\ rows' = [rows EXCEPT ![d] =
                  [@ EXCEPT !.site = IF enabled THEN "enabled" ELSE "disabled",
                            !.conf = IF d \in ProxyDomains THEN NoConf ELSE c,
                            !.stale = TRUE]]
    /\ UNCHANGED <<targets, files, nginx, ap, del>>

\* UpsertProxyTarget and DisableProxyTarget write proxy_targets and leave the
\* row of the site, and so its updated_at, alone.
UpsertProxyTarget(d, c) ==
    /\ Accepts /\ Spend
    /\ d \in ProxyDomains /\ rows[d].site # "absent"
    /\ targets' = [targets EXCEPT ![d] = c]
    /\ UNCHANGED <<rows, files, nginx, ap, del>>

DisableSiteByDomain(d) ==
    /\ Accepts /\ Spend
    /\ rows[d].site = "enabled"
    /\ rows' = [rows EXCEPT ![d] = [@ EXCEPT !.site = "disabled", !.stale = TRUE]]
    /\ UNCHANGED <<targets, files, nginx, ap, del>>

EnableSiteByDomain(d) ==
    /\ Accepts /\ Spend
    /\ rows[d].site = "disabled"
    /\ rows' = [rows EXCEPT ![d] = [@ EXCEPT !.site = "enabled", !.stale = TRUE]]
    /\ UNCHANGED <<targets, files, nginx, ap, del>>

-----------------------------------------------------------------------------
(* nginx and its files: internal/nginx/manager.go *)

\* What nginx -t checks: it reads every file of the sites directory.
Valid(dir) == \A d \in Domains : dir[d] \in Good \cup {NoConf}

\* TestConfig: passes only a valid directory, and may time out on one.
TestConfig(ok) ==
    IF ok THEN Valid(live) ELSE ~Valid(live) \/ "test" \in Faults

\* The daemon is told to load the sites directory.  It keeps what it runs when
\* the directory is invalid, which `nginx -s reload' and a start report and a
\* kill -HUP does not.  util.Run gives up after 10 s: the error it returns does
\* not say whether the signal was delivered.
LoadLive(ok) ==
    \/ /\ ok /\ Valid(live)
       /\ up' = TRUE /\ running' = live
    \/ /\ ~Valid(live)
       /\ ok = (up /\ HupReload)
       /\ UNCHANGED nginx
    \/ /\ ~ok /\ "reload" \in Faults
       /\ UNCHANGED nginx
    \/ /\ ~ok /\ "reload" \in Faults /\ Valid(live)
       /\ up' = TRUE /\ running' = live

Reload(ok) ==
    IF up THEN LoadLive(ok) ELSE ~ok /\ UNCHANGED nginx

ReloadOrStart(ok) ==
    IF up \/ StartsNginx THEN LoadLive(ok) ELSE ~ok /\ UNCHANGED nginx

\* A bug: the live file is not backed up.
BackedUp_never(d) == bak

\* Publish and RemoveLiveSite first copy an existing live file to the backup;
\* a backup of an earlier file is left in place when there is none.
BackedUp(d) == IF live[d] = NoConf THEN bak ELSE [bak EXCEPT ![d] = live[d]]

\* A bug: the backup is taken after the swap, of the new file.
SwapLive_backsUpNew(d, c, ok) ==
    IF ok THEN /\ live' = [live EXCEPT ![d] = c]
               /\ bak' = IF c = NoConf THEN bak ELSE [bak EXCEPT ![d] = c]
    ELSE "io" \in Faults /\ live' = live /\ bak' = bak

\* Replace the live file of d by c (NoConf: remove it).  A failure leaves the
\* live file alone, with or without the backup written.
SwapLive(d, c, ok) ==
    IF ok THEN live' = [live EXCEPT ![d] = c] /\ bak' = BackedUp(d)
    ELSE "io" \in Faults /\ live' = live /\ bak' \in {bak, BackedUp(d)}

-----------------------------------------------------------------------------
(* Apply and applyOne: internal/app/apply.go *)

\* The call of process p continues as r.
Becomes(p, r) == ap' = [ap EXCEPT ![p] = r]

\* Apply with no domain: take applyMu and read all the rows.
StartBatch(p, all, limit) ==
    /\ Accepts
    /\ ap[p].pc = "idle"
    /\ Becomes(p, [NoCall EXCEPT !.pc = "loop", !.all = all, !.limit = limit,
                                 !.snap = rows,
                                 !.todo = {d \in Domains : rows[d].site # "absent"},
                                 !.before = live])
    /\ UNCHANGED <<db, files, nginx, del, ops>>

\* Apply with a domain: take applyMu, then applyOne reads the row.  A missing
\* row is an error that changes nothing.
StartOne(p, d) ==
    /\ Accepts
    /\ ap[p].pc = "idle"
    /\ rows[d].site # "absent"
    /\ Becomes(p, [NoCall EXCEPT !.pc = "loop", !.mode = "one", !.all = TRUE,
                                 !.snap = [@ EXCEPT ![d] = rows[d]],
                                 !.todo = {d}, !.before = live])
    /\ UNCHANGED <<db, files, nginx, del, ops>>

LimitReached(c) == c.limit > 0 /\ c.applied >= c.limit

\* d is the next domain of the loop: ListSites is ordered by domain.
Next_domain(c, d) == d \in c.todo /\ \A e \in c.todo : d <= e

Taking(p, d) ==
    /\ ap[p].pc = "loop" /\ ~LimitReached(ap[p])
    /\ Next_domain(ap[p], d)

\* A bug: a skipped site counts against --limit.
SkipSite_counted(p, d) ==
    /\ Taking(p, d)
    /\ ap[p].snap[d].site = "enabled"
    /\ ~ap[p].all /\ ~siteNeedsApply(ap[p].snap[d])
    /\ Becomes(p, [ap[p] EXCEPT !.todo = @ \ {d}, !.applied = @ + 1])
    /\ UNCHANGED <<db, files, nginx, del, ops>>

\* An enabled site with nothing pending is skipped, unless --all.
SkipSite(p, d) ==
    /\ Taking(p, d)
    /\ ap[p].snap[d].site = "enabled"
    /\ ~ap[p].all /\ ~siteNeedsApply(ap[p].snap[d])
    /\ Becomes(p, [ap[p] EXCEPT !.todo = @ \ {d}])
    /\ UNCHANGED <<db, files, nginx, del, ops>>

\* A bug: removing the file of a disabled site is not counted as a change.
Wrote_removalNotCounted(c, d, text, swapped) ==
    [c EXCEPT !.pc = IF c.mode = "one" /\ swapped THEN "test" ELSE "record",
              !.cur = d,
              !.verdict = "ok",
              !.want[d] = text,
              !.changed = IF swapped /\ text # NoConf THEN @ \cup {d} ELSE @]

\* A file operation on d ended.  In a batch the verdict is recorded at once and
\* the directory is tested after the loop; applyOne tests first.
Wrote(c, d, text, swapped) ==
    [c EXCEPT !.pc = IF c.mode = "one" /\ swapped THEN "test" ELSE "record",
              !.cur = d,
              !.verdict = "ok",
              !.want[d] = text,
              !.changed = IF swapped THEN @ \cup {d} ELSE @]

\* A bug: the error of the file operation is logged and otherwise ignored.
Failed_ignored(c, d, text) ==
    [c EXCEPT !.pc = "record", !.cur = d, !.verdict = "ok", !.want[d] = text]

Failed(c, d, text) ==
    [c EXCEPT !.pc = "record", !.cur = d, !.verdict = "fail", !.want[d] = text]

\* stageDeleteLiveConf: every disabled row is visited.  applyOne returns
\* without a verdict when there is no file to remove.
stageDeleteLiveConf(p, d) ==
    /\ Taking(p, d)
    /\ ap[p].snap[d].site = "disabled"
    /\ \/ /\ live[d] = NoConf
          /\ Becomes(p, IF ap[p].mode = "one" THEN NoCall
                        ELSE Wrote(ap[p], d, NoConf, FALSE))
          /\ UNCHANGED <<live, bak>>
       \/ /\ live[d] # NoConf /\ SwapLive(d, NoConf, TRUE)
          /\ Becomes(p, Wrote(ap[p], d, NoConf, TRUE))
       \/ /\ live[d] # NoConf /\ SwapLive(d, NoConf, FALSE)
          /\ Becomes(p, Failed(ap[p], d, NoConf))
    /\ UNCHANGED <<db, stage, nginx, del, ops>>

\* The text buildTemplateData and the template make of a row read earlier:
\* the proxy targets are read now, by the id of the row.
Rendered(d, r) == IF d \in ProxyDomains THEN targets[d] ELSE r.conf

\* buildTemplateData and RenderSiteToStaging.
RenderSiteToStaging(p, d) ==
    LET text == Rendered(d, ap[p].snap[d]) IN
    /\ Taking(p, d)
    /\ ap[p].snap[d].site = "enabled"
    /\ ap[p].all \/ siteNeedsApply(ap[p].snap[d])
    /\ \/ /\ text \in Good \cup Bad
          /\ stage' = [stage EXCEPT ![d] = text]
          /\ Becomes(p, [ap[p] EXCEPT !.pc = "publish", !.cur = d, !.want[d] = text])
       \/ /\ text \notin Good \cup Bad \/ "io" \in Faults
          /\ Becomes(p, Failed(ap[p], d, NoConf))
          /\ UNCHANGED stage
    /\ UNCHANGED <<db, live, bak, nginx, del, ops>>

\* Publish: copy the staged file over the live one unless they are equal.
Publish(p) ==
    LET d == ap[p].cur IN
    /\ ap[p].pc = "publish"
    /\ \/ /\ live[d] = stage[d]
          /\ Becomes(p, Wrote(ap[p], d, ap[p].want[d], FALSE))
          /\ UNCHANGED <<live, bak>>
       \/ /\ live[d] # stage[d] /\ SwapLive(d, stage[d], TRUE)
          /\ Becomes(p, Wrote(ap[p], d, ap[p].want[d], TRUE))
       \/ /\ live[d] # stage[d] /\ SwapLive(d, stage[d], FALSE)
          /\ Becomes(p, Failed(ap[p], d, ap[p].want[d]))
    /\ UNCHANGED <<db, stage, nginx, del, ops>>

\* UpdateApplyResult for the domain just handled; applyOne then returns.
RecordVerdict(p) ==
    LET c == ap[p] IN
    /\ c.pc = "record"
    /\ UpdateApplyResult(c.cur, c.verdict, c.want[c.cur])
    /\ Becomes(p, IF c.mode = "one" THEN NoCall
                  ELSE [c EXCEPT !.pc = "loop", !.todo = @ \ {c.cur},
                                 !.applied = @ + 1])
    /\ UNCHANGED <<targets, files, nginx, del, ops>>

\* The loop is over: nothing changed, or the batch is validated as one.
EndLoop(p) ==
    /\ ap[p].pc = "loop"
    /\ ap[p].todo = {} \/ LimitReached(ap[p])
    /\ Becomes(p, IF ap[p].changed = {} THEN NoCall
                  ELSE [ap[p] EXCEPT !.pc = "test", !.todo = {}])
    /\ UNCHANGED <<db, files, nginx, del, ops>>

\* A bug: only the site that was handled last is rolled back.
RollingBack_lastOnly(c) == [c EXCEPT !.pc = "rollback", !.todo = {c.cur}]

\* rollbackFromBackup is about to walk the changed domains.
RollingBack(c) == [c EXCEPT !.pc = "rollback", !.todo = c.changed]

TestBeforeReload(p) ==
    /\ ap[p].pc = "test"
    /\ \E ok \in BOOLEAN :
          /\ TestConfig(ok)
          /\ Becomes(p, IF ok THEN [ap[p] EXCEPT !.pc = "reload"]
                        ELSE RollingBack(ap[p]))
    /\ UNCHANGED <<db, files, nginx, del, ops>>

\* A batch has recorded its verdicts already, applyOne does it now.
ReloadNginx(p) ==
    /\ ap[p].pc = "reload"
    /\ \E ok \in BOOLEAN :
          /\ ReloadOrStart(ok)
          /\ Becomes(p, IF ~ok THEN RollingBack(ap[p])
                        ELSE IF ap[p].mode = "batch" THEN NoCall
                        ELSE [ap[p] EXCEPT !.pc = "record"])
    /\ UNCHANGED <<db, files, del, ops>>

\* A bug: a new file that has no backup is left in place.
rollbackFromBackup_keepsNew(p, d) ==
    /\ ap[p].pc = "rollback"
    /\ Next_domain(ap[p], d)
    /\ \/ live' = IF bak[d] = NoConf THEN live ELSE [live EXCEPT ![d] = bak[d]]
       \/ "rollback" \in Faults /\ UNCHANGED live
    /\ Becomes(p, [ap[p] EXCEPT !.todo = @ \ {d},
                                !.pc = IF ap[p].todo = {d} THEN "recover" ELSE @])
    /\ UNCHANGED <<db, stage, bak, nginx, del, ops>>

\* rollbackFromBackup: the backup, if any, replaces the live file, else the
\* live file is removed.  Errors are ignored: a backup that cannot be read
\* counts as none, and a live file that cannot be written is left alone.
rollbackFromBackup(p, d) ==
    /\ ap[p].pc = "rollback"
    /\ Next_domain(ap[p], d)
    /\ \/ live' = [live EXCEPT ![d] = bak[d]]
       \/ "rollback" \in Faults /\ live' = [live EXCEPT ![d] = NoConf]
       \/ "rollback" \in Faults /\ UNCHANGED live
    /\ Becomes(p, [ap[p] EXCEPT !.todo = @ \ {d},
                                !.pc = IF ap[p].todo = {d} THEN "recover" ELSE @])
    /\ UNCHANGED <<db, stage, bak, nginx, del, ops>>

\* A bug: when the recovery reload fails too, the rollback is tried again.
RecoverReload_retries(p) ==
    /\ ap[p].pc = "recover"
    /\ \E ok \in BOOLEAN :
          /\ ReloadOrStart(ok)
          /\ Becomes(p, IF ok THEN [ap[p] EXCEPT !.pc = "fail", !.todo = ap[p].changed]
                        ELSE RollingBack(ap[p]))
    /\ UNCHANGED <<db, files, del, ops>>

\* The second ReloadOrStart, whose result is ignored.
RecoverReload(p) ==
    /\ ap[p].pc = "recover"
    /\ \E ok \in BOOLEAN : ReloadOrStart(ok)
    /\ Becomes(p, [ap[p] EXCEPT !.pc = "fail", !.todo = ap[p].changed])
    /\ UNCHANGED <<db, files, del, ops>>

\* A bug: the verdicts written before nginx -t are not corrected.
RecordFail_forgotten(p, d) ==
    /\ ap[p].pc = "fail"
    /\ Next_domain(ap[p], d)
    /\ Becomes(p, IF ap[p].todo = {d} THEN NoCall
                  ELSE [ap[p] EXCEPT !.todo = @ \ {d}])
    /\ UNCHANGED <<rows, targets, files, nginx, del, ops>>

\* Every changed domain gets the verdict fail; after the last Apply returns.
RecordFail(p, d) ==
    /\ ap[p].pc = "fail"
    /\ Next_domain(ap[p], d)
    /\ UpdateApplyResult(d, "fail", ap[p].want[d])
    /\ Becomes(p, IF ap[p].todo = {d} THEN NoCall
                  ELSE [ap[p] EXCEPT !.todo = @ \ {d}])
    /\ UNCHANGED <<targets, files, nginx, del, ops>>

-----------------------------------------------------------------------------
(* SiteDelete: internal/app/site.go; it does not take applyMu *)

\* A bug: the row is deleted without telling nginx that its file is gone.
SiteDelete_noReload(d) ==
    /\ Accepts
    /\ d \in Deletable /\ del.pc = "idle" /\ rows[d].site # "absent"
    /\ \/ /\ SwapLive(d, NoConf, TRUE)
          /\ del' = [pc |-> "row", dom |-> d]
       \/ /\ live[d] # NoConf /\ SwapLive(d, NoConf, FALSE)
          /\ UNCHANGED del
    /\ UNCHANGED <<db, stage, nginx, ap, ops>>

\* RemoveLiveSite reports success when there is no file, so a reload always
\* follows.  An error other than a missing file ends the call.
SiteDelete(d) ==
    /\ Accepts
    /\ d \in Deletable /\ del.pc = "idle" /\ rows[d].site # "absent"
    /\ \/ /\ SwapLive(d, NoConf, TRUE)
          /\ del' = [pc |-> "reload", dom |-> d]
       \/ /\ live[d] # NoConf /\ SwapLive(d, NoConf, FALSE)
          /\ UNCHANGED del
    /\ UNCHANGED <<db, stage, nginx, ap, ops>>

\* Reload, not ReloadOrStart; on an error the call ends and the row stays.
SiteDeleteReload ==
    /\ del.pc = "reload"
    /\ \E ok \in BOOLEAN :
          /\ Reload(ok)
          /\ del' = IF ok THEN [del EXCEPT !.pc = "row"] ELSE NoDelete
    /\ UNCHANGED <<db, files, ap, ops>>

\* DeleteSiteByDomain, one transaction: the row and its proxy targets.
DeleteSiteByDomain ==
    /\ del.pc = "row"
    /\ rows' = [rows EXCEPT ![del.dom] = NoRow]
    /\ targets' = [targets EXCEPT ![del.dom] = NoConf]
    /\ del' = NoDelete
    /\ UNCHANGED <<files, nginx, ap, ops>>

-----------------------------------------------------------------------------
(* The environment *)

\* The process dies in the middle of an Apply; its mutex dies with it.
Crash(p) ==
    /\ "crash" \in Faults
    /\ ap[p].pc # "idle"
    /\ Becomes(p, NoCall)
    /\ UNCHANGED <<db, files, nginx, del, ops>>

\* nginx is stopped, or started at boot from the sites directory.
NginxStop ==
    /\ "stop" \in Faults /\ up
    /\ up' = FALSE /\ running' = [d \in Domains |-> NoConf]
    /\ UNCHANGED <<db, files, ap, del, ops>>

NginxBoot ==
    /\ "stop" \in Faults /\ ~up /\ Valid(live)
    /\ up' = TRUE /\ running' = live
    /\ UNCHANGED <<db, files, ap, del, ops>>

-----------------------------------------------------------------------------
(* The specification *)

RowOp ==
    \E d \in Domains :
        \/ \E c \in Confs, enabled \in BOOLEAN : UpsertSite(d, c, enabled)
        \/ \E c \in Confs : UpsertProxyTarget(d, c)
        \/ DisableSiteByDomain(d)
        \/ EnableSiteByDomain(d)

StartApply(p) ==
    \/ \E all \in BOOLEAN, limit \in Limits : StartBatch(p, all, limit)
    \/ \E d \in Domains : StartOne(p, d)

ApplyStep(p) ==
    \/ \E d \in Domains :
          \/ SkipSite(p, d)
          \/ stageDeleteLiveConf(p, d)
          \/ RenderSiteToStaging(p, d)
          \/ rollbackFromBackup(p, d)
          \/ RecordFail(p, d)
    \/ Publish(p)
    \/ RecordVerdict(p)
    \/ EndLoop(p)
    \/ TestBeforeReload(p)
    \/ ReloadNginx(p)
    \/ RecoverReload(p)

DeleteStep == SiteDeleteReload \/ DeleteSiteByDomain

Next ==
    \/ RowOp
    \/ \E p \in Procs : StartApply(p) \/ ApplyStep(p) \/ Crash(p)
    \/ \E d \in Domains : SiteDelete(d)
    \/ DeleteStep
    \/ NginxStop
    \/ NginxBoot

Spec == Init /\ [][Next]_vars

\* A call that has begun keeps running: each of its steps is straight-line code
\* whose commands are killed after 10 s (util.Run).
FairSpec ==
    /\ Spec
    /\ \A p \in Procs : WF_vars(ApplyStep(p))
    /\ WF_vars(DeleteStep)

-----------------------------------------------------------------------------
(* Properties *)

\* Between two applies the sites directory is one nginx accepts: a published
\* file that nginx -t rejects is gone when Apply returns, and what the rollback
\* puts in its place is accepted too, however old the backup is.
LiveValidAtRest == NoApply => Valid(live)

\* Every backup kept by Publish and RemoveLiveSite can be rolled back to.
BackupsValid == NoApply => Valid(bak)

\* A row that says ok carries the hash of the file that is live: no path
\* through the early and late UpdateApplyResult calls leaves an ok behind for
\* a file that was rolled back, removed or never written.
VerdictMatchesDisk ==
    Quiet => \A d \in Domains :
                 rows[d].status = "ok" => rows[d].hash = live[d]

\* The vhost a row asks nginx to serve.
Asked(d) == IF rows[d].site = "enabled" THEN Rendered(d, rows[d]) ELSE NoConf

\* The site's live file is the one its row asks for.
Configured(d) == live[d] = Asked(d)

\* A row that siteNeedsApply passes over needs no apply: ok and not stale
\* implies that the live file is what the row, as it is now, would render.
NothingPendingIsHidden ==
    Quiet => \A d \in Domains :
                 rows[d].status = "ok" /\ ~rows[d].stale => Configured(d)

\* A row that says ok is what nginx serves: Apply never reports a file that
\* nginx has not loaded, including when Publish found nothing to change.
OkMeansServed ==
    Quiet /\ up => \A d \in Domains :
                       rows[d].status = "ok" => running[d] = live[d]

\* The vhost nginx is serving for a domain stays on disk, live or as its
\* backup, at every moment of an apply: there is always something to go back to.
ServedIsOnDisk ==
    up => \A d \in Domains :
              running[d] # NoConf => running[d] \in {live[d], bak[d]}

\* After SiteDelete no vhost of the deleted site is left, on disk or in nginx.
NoOrphan ==
    Quiet => \A d \in Domains :
                 rows[d].site = "absent" =>
                     live[d] = NoConf /\ (up => running[d] = NoConf)

\* A call that changed files returns.
Returns(p) ==
    /\ ap[p].pc # "idle" /\ ap'[p].pc = "idle"
    /\ ap[p].changed # {}

Installed(p) ==
    \A d \in ap[p].changed : live'[d] = ap[p].want[d] /\ running'[d] = live'[d]

\* Apply is all or nothing: when it returns, either every file it changed is
\* the new one and nginx has loaded it, or every one of them is what it was
\* before the call; a domain that had no file may get its kept backup instead.
ApplyIsAtomic ==
    [][\A p \in Procs :
          Returns(p) =>
              \/ Installed(p)
              \/ \A d \in ap[p].changed :
                    \/ live'[d] = ap[p].before[d]
                    \/ ap[p].before[d] = NoConf /\ live'[d] = bak'[d]]_vars

\* Whenever UpdateApplyResult writes ok, the file it speaks of is the live one
\* at that moment, whatever failed or crashed before.
OkIsWrittenForLiveFile ==
    [][\A d \in Domains :
          /\ rows'[d].status = "ok"
          /\ rows[d].status # "ok" \/ rows[d].hash # rows'[d].hash
          => rows'[d].hash = live[d]]_vars

\* An Apply that took applyMu releases it: no path through the loop, the
\* rollback or the verdicts repeats itself forever.
ApplyTerminates ==
    \A p \in Procs : ap[p].pc # "idle" ~> ap[p].pc = "idle"

\* An operator, or a timer, that keeps running `ngm apply' as long as the
\* process is free: an assumption on the environment.
OperatorSpec ==
    /\ FairSpec
    /\ \A p \in Procs :
          SF_vars(\E limit \in Limits : StartBatch(p, FALSE, limit))

\* The site asks for a vhost nginx accepts, or is disabled.
Acceptable(d) == rows[d].site = "enabled" => Rendered(d, rows[d]) \in Good

\* Another enabled site has a text that nginx -t rejects: a batch that
\* publishes it is rolled back as a whole.
BesideRejected(d) ==
    \E e \in Domains \ {d} :
        rows[e].site = "enabled" /\ Rendered(e, rows[e]) \in Bad

\* A site that comes before d counts as applied on every run: it is disabled or
\* cannot be built.
BehindCounted(d) ==
    \E e \in Domains :
        /\ e < d
        /\ \/ rows[e].site = "disabled"
           \/ rows[e].site = "enabled" /\ Rendered(e, rows[e]) \in Unbuildable

Served(d) == Configured(d) /\ running[d] = Asked(d)

RunWithoutLimit == \E p \in Procs : StartBatch(p, FALSE, 0)

\* Once the edits stop, repeated applies bring nginx for good to serve what each
\* acceptable site asks for and nothing of a disabled one, also after batches
\* that a rejected site rolled back and that marked all its sites failed.  Only
\* two things can keep a site from it: a site that is still rejected and, as long
\* as every run has --limit, a site before it that uses the limit up.
SitesSettle ==
    \A d \in Domains :
        /\ <>[](Acceptable(d) /\ ~BesideRejected(d))
        /\ <>[](~BehindCounted(d)) \/ []<><<RunWithoutLimit>>_vars
        => <>[]Served(d)

Directory == INSTANCE NgmDirectory
    WITH Texts    <- Confs,
         Accepted <- Good,
         asked    <- [d \in Domains |-> Asked(d)],
         served   <- running,
         kept     <- bak

\* Between the requests of an operator, and whatever single step fails, the
\* pipeline is the promise of NgmDirectory: nginx never starts to serve a text
\* that the row does not ask for at that moment, unless it is the copy of what
\* was served before, and what is copied is always what was served.
ImplementsDirectory == Directory!Spec

=============================================================================
