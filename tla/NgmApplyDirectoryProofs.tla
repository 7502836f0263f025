----------------------- MODULE NgmApplyDirectoryProofs -----------------------
(***************************************************************************)
(* What nginx serves against the disk and against the rows: what it serves *)
(* is what is live between calls and has a copy while one runs, a deleted  *)
(* site leaves nothing behind, a row that nobody will visit again is       *)
(* configured, and the pipeline implements NgmDirectory.                   *)
(***************************************************************************)
EXTENDS NgmApplyOutcomeProofs

-----------------------------------------------------------------------------
(* What nginx serves while a call runs *)

\* nginx is not stopped behind the back of a call, and tells it of a reload.
KeepsServing ==
    /\ SingleWorker
    /\ "stop" \notin Faults
    /\ "reload" \notin Faults

\* nginx still serves what was live before c began.
Waiting(c) ==
    \/ c.pc \in {"loop", "publish", "test", "reload", "rollback", "recover"}
    \/ c.pc = "record" /\ c.mode = "batch"

\* r, what nginx serves, against l, the live files.
Serves(c, l, r) ==
    /\ Waiting(c) => r = c.before
    /\ ~Waiting(c) => \A d \in Domains : r[d] = l[d]

\* Between calls nginx serves the live files, but for the site that is being
\* deleted: its file is gone first, and it is served from its backup's text.
ServedInv ==
    /\ up
    /\ \A p \in Procs : Waiting(ap[p]) => running = ap[p].before
    /\ (\A p \in Procs : ~Waiting(ap[p]))
       => \A d \in Domains :
             running[d] = live[d] \/ (del.pc = "reload" /\ d = del.dom)
    /\ del.pc = "reload" => running[del.dom] \in {NoConf, bak[del.dom]}

LEMMA ServesOne ==
  ASSUME SingleWorker, StoreInv, ServedInv, NEW p \in Procs,
         StartApply(p) \/ ap[p].pc # "idle"
  PROVE  Serves(ap[p], live, running) /\ ~DeleteBusy
  <1>1. ~DeleteBusy
    BY NoDeleteInApply
  <1>2. \A q \in Procs : q = p
    BY DEF SingleWorker
  <1>3. QED
    BY <1>1, <1>2 DEF ServedInv, Serves, DeleteBusy

LEMMA ServedOfOne ==
  ASSUME SingleWorker, NEW p \in Procs, up', ~DeleteBusy',
         Serves(ap'[p], live', running')
  PROVE  ServedInv'
  <1>1. \A q \in Procs : q = p
    BY DEF SingleWorker
  <1>2. QED
    BY <1>1 DEF ServedInv, Serves, DeleteBusy

LEMMA NoCallServes ==
  ASSUME NEW l, NEW r, \A d \in Domains : r[d] = l[d]
  PROVE  Serves(NoCall, l, r)
  BY NoCallFields DEF Serves, Waiting

\* A call that writes files serves what was there before: only a verdict of
\* applyOne that comes without a change finds the directory as it was.
LEMMA WriteServes ==
  ASSUME KeepsServing, TypeInv, AimInv, TrackInv, StoreInv, ServedInv,
         NEW p \in Procs, NEW d \in Domains,
         stageDeleteLiveConf(p, d) \/ (Publish(p) /\ d = ap[p].cur)
  PROVE  ServedInv'
  <1> DEFINE t == FileText(ap[p], d)
             c == ap[p]
  <1>1. /\ FileStep(c, ap'[p], d, t) /\ c.pc \in {"loop", "publish"}
        /\ up' = up /\ running' = running /\ del' = del
    BY CallOfWrite DEF AimInv, nginx
  <1>2. SingleWorker /\ Tracks(c, live, bak)
    BY DEF TrackInv, KeepsServing
  <1>3. running = c.before /\ ~DeleteBusy
    BY <1>1, <1>2, ServesOne DEF Serves, Waiting
  <1>4. c \in ApplyCall /\ t \in ConfOrNone /\ c.mode \in {"batch", "one"}
    BY CallType DEF FileText, ConfOrNone
  <1>5. c.mode = "one" => \A e \in Domains : live[e] = running[e]
    BY <1>1, <1>2, <1>3 DEF Tracks
  <1>6. up' /\ ~DeleteBusy'
    BY <1>1, <1>3 DEF ServedInv, DeleteBusy
  <1> HIDE DEF t, c
  <1>7. CASE ap'[p] = NoCall /\ c.mode = "one" /\ live' = live
    BY <1>1, <1>2, <1>5, <1>6, <1>7, NoCallServes, ServedOfOne
  <1>8. CASE ap'[p] = Matched(c, d, t) /\ live' = live
    <2>1. /\ ap'[p].mode = c.mode /\ ap'[p].before = c.before
          /\ ap'[p].pc = "record"
      BY <1>4, <1>8, MatchedFields DEF SameRequest
    <2>2. Serves(ap'[p], live', running')
      BY <1>1, <1>3, <1>4, <1>5, <1>8, <2>1 DEF Serves, Waiting
    <2>3. QED
      BY <1>2, <1>6, <2>2, ServedOfOne
  <1>9. CASE ap'[p] = Swapped(c, d, t)
    <2>1. /\ ap'[p].mode = c.mode /\ ap'[p].before = c.before
          /\ ap'[p].pc = IF c.mode = "one" THEN "test" ELSE "record"
      BY <1>4, <1>9, SwappedFields DEF SameRequest
    <2>2. Serves(ap'[p], live', running')
      BY <1>1, <1>3, <1>4, <2>1 DEF Serves, Waiting
    <2>3. QED
      BY <1>2, <1>6, <2>2, ServedOfOne
  <1>10. CASE ap'[p] = Failed(c, d, t) /\ live' = live
    <2>1. /\ ap'[p].mode = c.mode /\ ap'[p].before = c.before
          /\ ap'[p].pc = "record"
      BY <1>4, <1>10, FailedFields DEF SameRequest
    <2>2. Serves(ap'[p], live', running')
      BY <1>1, <1>3, <1>4, <1>5, <1>10, <2>1 DEF Serves, Waiting
    <2>3. QED
      BY <1>2, <1>6, <2>2, ServedOfOne
  <1>11. QED
    BY <1>1, <1>7, <1>8, <1>9, <1>10 DEF FileStep

LEMMA ApplyStepServes ==
  ASSUME KeepsServing, TypeInv, SafeInv, AimInv, TrackInv, StoreInv, ServedInv,
         NEW p \in Procs, ApplyStep(p)
  PROVE  ServedInv'
  <1> USE DEF SameWork, SameRequest
  <1>0. /\ SingleWorker /\ Tracks(ap[p], live, bak) /\ CurIsDomain(ap[p])
        /\ ap[p].mode \in {"batch", "one"}
        /\ Serves(ap[p], live, running) /\ up /\ ~DeleteBusy'
    <2>1. ap[p].pc # "idle" /\ del' = del
      BY ApplyStepRuns
    <2>2. SingleWorker
      BY DEF KeepsServing
    <2>3. Serves(ap[p], live, running) /\ ~DeleteBusy
      BY <2>1, <2>2, ServesOne
    <2>4. ~DeleteBusy'
      BY <2>1, <2>3 DEF DeleteBusy
    <2>5. QED
      BY <2>2, <2>3, <2>4, CallType DEF TrackInv, ServedInv
  <1>1. ASSUME NEW d \in Domains, SkipSite(p, d) PROVE ServedInv'
    <2>1. /\ ap[p].pc = "loop" /\ ap'[p].pc = "loop" /\ ap'[p].before = ap[p].before
          /\ running' = running /\ up' = up
      BY <1>1, CallOfSkip DEF nginx
    <2>2. Serves(ap'[p], live', running')
      BY <1>0, <2>1 DEF Serves, Waiting
    <2>3. QED
      BY <1>0, <2>1, <2>2, ServedOfOne
  <1>2. ASSUME NEW d \in Domains, RenderSiteToStaging(p, d) PROVE ServedInv'
    <2>1. /\ ap[p].pc = "loop" /\ ap'[p].pc \in {"publish", "record"}
          /\ ap'[p].before = ap[p].before /\ ap'[p].mode = ap[p].mode
          /\ running' = running /\ up' = up /\ live' = live
      BY <1>2, CallOfRender DEF nginx
    <2>2. ap[p].mode = "one" => \A e \in Domains : live[e] = ap[p].before[e]
      BY <1>0, <2>1 DEF Tracks
    <2>3. Serves(ap'[p], live', running')
      BY <1>0, <2>1, <2>2 DEF Serves, Waiting
    <2>4. QED
      BY <1>0, <2>1, <2>3, ServedOfOne
  <1>3. ASSUME NEW d \in Domains, rollbackFromBackup(p, d) PROVE ServedInv'
    <2>1. /\ ap[p].pc = "rollback" /\ ap'[p].pc \in {"rollback", "recover"}
          /\ ap'[p].before = ap[p].before /\ running' = running /\ up' = up
      BY <1>3, CallOfRollback DEF nginx
    <2>2. Serves(ap'[p], live', running')
      BY <1>0, <2>1 DEF Serves, Waiting
    <2>3. QED
      BY <1>0, <2>1, <2>2, ServedOfOne
  <1>4. ASSUME NEW d \in Domains, RecordFail(p, d) PROVE ServedInv'
    <2>1. /\ ap[p].pc = "fail" /\ ap'[p].pc \in {"fail", "idle"}
          /\ live' = live /\ running' = running /\ up' = up
      BY <1>4, CallOfFail, NoCallFields DEF nginx, files
    <2>2. Serves(ap'[p], live', running')
      BY <1>0, <2>1 DEF Serves, Waiting
    <2>3. QED
      BY <1>0, <2>1, <2>2, ServedOfOne
  <1>5. CASE RecordVerdict(p)
    <2>1. /\ ap[p].pc = "record"
          /\ live' = live /\ running' = running /\ up' = up
          /\ \/ ap[p].mode = "one" /\ ap'[p].pc = "idle"
             \/ /\ ap[p].mode = "batch" /\ ap'[p].pc = "loop"
                /\ ap'[p].before = ap[p].before
      BY <1>5, CallOfRecord, NoCallFields DEF nginx, files
    <2>2. Serves(ap'[p], live', running')
      BY <1>0, <2>1 DEF Serves, Waiting
    <2>3. QED
      BY <1>0, <2>1, <2>2, ServedOfOne
  <1>6. CASE EndLoop(p)
    <2>1. /\ ap[p].pc = "loop"
          /\ live' = live /\ running' = running /\ up' = up
          /\ \/ ap[p].changed = {} /\ ap'[p].pc = "idle"
             \/ ap'[p].pc = "test" /\ ap'[p].before = ap[p].before
      BY <1>6, CallOfEnd, NoCallFields DEF nginx, files
    <2>2. ap[p].changed = {} => \A e \in Domains : live[e] = ap[p].before[e]
      BY <1>0, <2>1 DEF Tracks
    <2>3. Serves(ap'[p], live', running')
      BY <1>0, <2>1, <2>2 DEF Serves, Waiting
    <2>4. QED
      BY <1>0, <2>1, <2>3, ServedOfOne
  <1>7. CASE TestBeforeReload(p)
    <2>1. /\ ap[p].pc = "test" /\ ap'[p].pc \in {"reload", "rollback"}
          /\ ap'[p].before = ap[p].before /\ running' = running /\ up' = up
      BY <1>7, CallOfTest DEF nginx
    <2>2. Serves(ap'[p], live', running')
      BY <1>0, <2>1 DEF Serves, Waiting
    <2>3. QED
      BY <1>0, <2>1, <2>2, ServedOfOne
  <1>8. CASE ReloadNginx(p)
    <2>1. ap[p].pc = "reload" /\ live' = live /\ Valid(live)
      BY <1>0, <1>8, CallOfReload, LoadIsValid DEF files
    <2>2. ~ReloadOrStart(FALSE)
      BY <1>0, <2>1, LoadEffect DEF KeepsServing
    <2>3. /\ ReloadOrStart(TRUE)
          /\ \/ ap'[p].pc = "idle"
             \/ ap'[p].pc = "record" /\ ap'[p].mode = "one"
      BY <1>8, <2>2, CallOfReload, NoCallFields
    <2>4. up' = TRUE /\ running' = live
      BY <2>1, <2>3, LoadedEffect
    <2>5. Serves(ap'[p], live', running')
      BY <2>1, <2>3, <2>4 DEF Serves, Waiting
    <2>6. QED
      BY <1>0, <2>4, <2>5, ServedOfOne
  <1>9. CASE RecoverReload(p)
    <2>1. /\ ap[p].pc = "recover" /\ ap'[p].pc = "fail" /\ live' = live
          /\ Valid(live) /\ \E ok \in BOOLEAN : ReloadOrStart(ok)
      BY <1>0, <1>9, CallOfRecover, LoadIsValid DEF files
    <2>2. up' = TRUE /\ running' = live
      BY <1>0, <2>1, LoadEffect DEF KeepsServing
    <2>3. Serves(ap'[p], live', running')
      BY <2>1, <2>2 DEF Serves, Waiting
    <2>4. QED
      BY <1>0, <2>2, <2>3, ServedOfOne
  <1>10. ASSUME NEW d \in Domains, stageDeleteLiveConf(p, d) PROVE ServedInv'
    BY <1>10, WriteServes
  <1>11. CASE Publish(p)
    BY <1>0, <1>11, WriteServes DEF Publish, CurIsDomain
  <1>12. QED
    BY <1>1, <1>2, <1>3, <1>4, <1>5, <1>6, <1>7, <1>8, <1>9, <1>10, <1>11
       DEF ApplyStep

\* SiteDelete between two applies: the live files are what nginx serves.
LEMMA DeleteServes ==
  ASSUME KeepsServing, TypeInv, SafeInv, StoreInv, ServedInv,
         DeleteStep \/ \E d \in Domains : SiteDelete(d)
  PROVE  ServedInv'
  <1>0. /\ NoApply /\ ap' = ap /\ SingleWorker
        /\ \A p \in Procs : ~Waiting(ap[p]) /\ ~Waiting(ap'[p])
    <2>1. NoApply /\ ap' = ap
      BY DEF KeepsServing, SingleWorker, StoreInv, DeleteBusy, DeleteStep, Quiet,
             SiteDeleteReload, DeleteSiteByDomain, SiteDelete, Accepts
    <2>2. QED
      BY <2>1 DEF NoApply, Waiting, KeepsServing
  <1>1. ASSUME NEW d \in Domains, SiteDelete(d) PROVE ServedInv'
    <2>1. /\ up' = up /\ running' = running /\ del.pc = "idle"
          /\ \A e \in Domains : running[e] = live[e]
      BY <1>0, <1>1 DEF SiteDelete, nginx, ServedInv
    <2>2. CASE live' = live /\ del' = del
      BY <1>0, <2>1, <2>2 DEF ServedInv
    <2>3. CASE /\ live' = [live EXCEPT ![d] = NoConf] /\ bak' = BackedUp(d)
               /\ del' = [pc |-> "reload", dom |-> d]
      <3>1. running[d] \in {NoConf, bak'[d]}
        BY <2>1, <2>3, BackedUpOnlyAt
      <3>2. \A e \in Domains : e # d => live'[e] = live[e]
        BY <2>3 DEF TypeInv, TypeOK
      <3>3. QED
        BY <1>0, <2>1, <2>3, <3>1, <3>2 DEF ServedInv
    <2>4. QED
      BY <1>1, <2>2, <2>3 DEF SiteDelete, SwapLive
  <1>2. CASE SiteDeleteReload
    <2>1. Valid(live)
      BY <1>0, RestIsFine DEF Valid, Fine
    <2>2. up' = TRUE /\ running' = live /\ live' = live
      BY <1>2, <2>1, LoadEffect DEF SiteDeleteReload, KeepsServing, ServedInv, files
    <2>3. del'.pc # "reload"
      BY <1>2 DEF SiteDeleteReload, NoDelete, TypeInv, TypeOK
    <2>4. QED
      BY <1>0, <2>2, <2>3 DEF ServedInv
  <1>3. CASE DeleteSiteByDomain
    <2>1. /\ del.pc = "row" /\ del'.pc = "idle"
          /\ live' = live /\ running' = running /\ up' = up
      BY <1>3 DEF DeleteSiteByDomain, NoDelete, files, nginx
    <2>2. QED
      BY <1>0, <2>1 DEF ServedInv
  <1>4. QED
    BY <1>1, <1>2, <1>3 DEF DeleteStep

LEMMA ServedStep ==
  ASSUME KeepsServing, TypeInv, SafeInv, AimInv, TrackInv, StoreInv, ServedInv,
         [Next]_vars
  PROVE  ServedInv'
  <1>0. SingleWorker
    BY DEF KeepsServing
  <1>1. CASE RowOp \/ UNCHANGED vars
    <2>1. UNCHANGED <<live, bak, up, running, ap, del>>
      BY <1>1 DEF RowOp, UpsertSite, UpsertProxyTarget, DisableSiteByDomain,
                  EnableSiteByDomain, files, nginx, vars
    <2>2. QED
      BY <2>1 DEF ServedInv
  <1>2. ASSUME NEW p \in Procs, StartApply(p) PROVE ServedInv'
    <2>1. /\ ap[p].pc = "idle" /\ ap'[p].pc = "loop" /\ ap'[p].before = live
          /\ running' = running /\ up' = up /\ del' = del
      BY <1>2, CallOfStart DEF nginx
    <2>2. Serves(ap[p], live, running) /\ ~DeleteBusy
      BY <1>0, <1>2, ServesOne
    <2>3. running = live
      BY <2>1, <2>2 DEF Serves, Waiting, TypeInv, TypeOK
    <2>4. Serves(ap'[p], live', running')
      BY <2>1, <2>3 DEF Serves, Waiting
    <2>5. up' /\ ~DeleteBusy'
      BY <2>1, <2>2 DEF ServedInv, DeleteBusy
    <2>6. QED
      BY <1>0, <2>4, <2>5, ServedOfOne
  <1>3. ASSUME NEW p \in Procs, ApplyStep(p) PROVE ServedInv'
    BY <1>3, ApplyStepServes
  <1>4. ASSUME NEW p \in Procs, Crash(p) PROVE ServedInv'
    BY <1>0, <1>4 DEF Crash, SingleWorker
  <1>5. CASE DeleteStep \/ \E d \in Domains : SiteDelete(d)
    BY <1>5, DeleteServes
  <1>6. CASE NginxStop \/ NginxBoot
    BY <1>6 DEF NginxStop, NginxBoot, KeepsServing
  <1>7. QED
    BY <1>1, <1>2, <1>3, <1>4, <1>5, <1>6 DEF Next

\* What the theorems below know of a process whose nginx is not interfered with.
CallInv == SafeInv /\ AimInv /\ TrackInv /\ StoreInv

LEMMA CallInvariant == SingleWorker => (Spec => []CallInv)
  <1>1. SafeInv /\ AimInv /\ TrackInv /\ StoreInv => CallInv
    BY DEF CallInv
  <1>2. QED
    BY <1>1, SafeInvariant, AimInvariant, TrackInvariant, StoreInvariant,
       SingleIsOneWriter, PTL

LEMMA ServedInvariant == KeepsServing => (Spec => []ServedInv)
  <1> SUFFICES ASSUME KeepsServing PROVE Spec => []ServedInv
    OBVIOUS
  <1>1. Init => ServedInv
    BY NoCallFields DEF Init, ServedInv, Waiting, NoDelete
  <1>2. TypeInv /\ CallInv /\ ServedInv /\ [Next]_vars => ServedInv'
    BY ServedStep DEF CallInv
  <1>3. Spec => []CallInv
    BY CallInvariant DEF KeepsServing
  <1>4. QED
    BY <1>1, <1>2, <1>3, TypeInvariant, PTL DEF Spec

\* At every step of every call, what nginx serves for a site is on disk, live
\* or as the backup: whatever fails next, there is something to go back to.
THEOREM ServedStaysOnDisk == KeepsServing => (Spec => []ServedIsOnDisk)
  <1> SUFFICES ASSUME KeepsServing PROVE Spec => []ServedIsOnDisk
    OBVIOUS
  <1>1. ASSUME TrackInv, ServedInv, NEW d \in Domains, running[d] # NoConf
        PROVE  running[d] \in {live[d], bak[d]}
    <2>1. CASE \A p \in Procs : ~Waiting(ap[p])
      BY <1>1, <2>1 DEF ServedInv
    <2>2. ASSUME NEW p \in Procs, Waiting(ap[p])
          PROVE  running[d] \in {live[d], bak[d]}
      <3>1. running = ap[p].before /\ Tracks(ap[p], live, bak)
        BY <1>1, <2>2 DEF ServedInv, TrackInv
      <3>2. CASE d \notin ap[p].changed
        BY <2>2, <3>1, <3>2 DEF Tracks, Waiting
      <3>3. CASE d \in ap[p].changed /\ ap[p].pc = "recover"
        BY <1>1, <3>1, <3>3 DEF Tracks, Back
      <3>4. CASE d \in ap[p].changed /\ ap[p].pc # "recover"
        BY <1>1, <2>2, <3>1, <3>4 DEF Tracks, Waiting, Forward, Kept
      <3>5. QED
        BY <3>2, <3>3, <3>4
    <2>3. QED
      BY <2>1, <2>2
  <1>2. CallInv /\ ServedInv => ServedIsOnDisk
    BY <1>1 DEF ServedIsOnDisk, CallInv
  <1>3. Spec => []CallInv
    BY CallInvariant DEF KeepsServing
  <1>4. QED
    BY <1>2, <1>3, ServedInvariant, PTL

-----------------------------------------------------------------------------
(* What nginx serves when a call returns, if nginx may be stopped and started *)

\* c is over or has changed nothing yet, has made nginx load what it changed, or
\* has taken it back and made nginx load that.
Settled(c) ==
    \/ c.pc = "idle"
    \/ c.changed = {}
    \/ c.pc = "fail"
    \/ c.mode = "one" /\ c.pc = "record"

\* An nginx that runs serves the live files whenever the call has settled.
LoadsInv ==
    up /\ (\A p \in Procs : Settled(ap[p])) =>
        \A d \in Domains : running[d] = live[d] \/ (del.pc = "reload" /\ d = del.dom)

\* A reload that reports the truth.
TellsReload == SingleWorker /\ "reload" \notin Faults

LEMMA LoadsOne ==
  ASSUME SingleWorker, StoreInv, LoadsInv, NEW p \in Procs, ap[p].pc # "idle",
         up, Settled(ap[p])
  PROVE  \A d \in Domains : running[d] = live[d]
  <1>1. del.pc # "reload"
    BY NoDeleteInApply DEF DeleteBusy
  <1>2. \A q \in Procs : q = p
    BY DEF SingleWorker
  <1>3. QED
    BY <1>1, <1>2 DEF LoadsInv

LEMMA LoadsOfOne ==
  ASSUME SingleWorker, NEW p \in Procs,
         up' /\ Settled(ap'[p]) => \A d \in Domains : running'[d] = live'[d]
  PROVE  LoadsInv'
  <1>1. \A q \in Procs : q = p
    BY DEF SingleWorker
  <1>2. QED
    BY <1>1 DEF LoadsInv

\* A step that neither touches the files nor nginx, and settles nothing.
LEMMA LoadsStill ==
  ASSUME SingleWorker, StoreInv, LoadsInv, NEW p \in Procs, ap[p].pc # "idle",
         live' = live, UNCHANGED nginx, Settled(ap'[p]) => Settled(ap[p])
  PROVE  LoadsInv'
  BY LoadsOne, LoadsOfOne DEF nginx

LEMMA WriteLoads ==
  ASSUME SingleWorker, TypeInv, AimInv, TrackInv, StoreInv, LoadsInv,
         NEW p \in Procs, ap[p].pc # "idle", NEW d \in Domains,
         stageDeleteLiveConf(p, d) \/ (Publish(p) /\ d = ap[p].cur)
  PROVE  LoadsInv'
  <1> DEFINE t == FileText(ap[p], d)
             c == ap[p]
  <1>1. /\ FileStep(c, ap'[p], d, t) /\ c.pc \in {"loop", "publish"}
        /\ UNCHANGED nginx
    BY CallOfWrite DEF AimInv
  <1>2. c.mode = "one" => c.changed = {}
    BY <1>1 DEF TrackInv, Tracks
  <1>3. c \in ApplyCall /\ t \in ConfOrNone /\ c.mode \in {"batch", "one"}
    BY CallType DEF FileText, ConfOrNone
  <1> HIDE DEF t, c
  <1>4. CASE ap'[p] = NoCall /\ c.mode = "one" /\ live' = live
    BY <1>1, <1>2, <1>4, LoadsStill DEF Settled, c
  <1>5. CASE ap'[p] = Matched(c, d, t) /\ live' = live
    <2>1. /\ ap'[p].mode = c.mode /\ ap'[p].changed = c.changed
          /\ ap'[p].pc = "record"
      BY <1>3, <1>5, MatchedFields DEF SameRequest
    <2>2. QED
      BY <1>1, <1>2, <1>5, <2>1, LoadsStill DEF Settled, c
  <1>6. CASE ap'[p] = Swapped(c, d, t)
    <2>1. /\ ap'[p].mode = c.mode /\ ap'[p].changed = c.changed \cup {d}
          /\ ap'[p].pc = IF c.mode = "one" THEN "test" ELSE "record"
      BY <1>3, <1>6, SwappedFields DEF SameRequest
    <2>2. ~Settled(ap'[p])
      BY <1>3, <2>1 DEF Settled
    <2>3. QED
      BY <2>2, LoadsOfOne
  <1>7. CASE ap'[p] = Failed(c, d, t) /\ live' = live
    <2>1. /\ ap'[p].mode = c.mode /\ ap'[p].changed = c.changed
          /\ ap'[p].pc = "record"
      BY <1>3, <1>7, FailedFields DEF SameRequest
    <2>2. QED
      BY <1>1, <1>2, <1>7, <2>1, LoadsStill DEF Settled, c
  <1>8. QED
    BY <1>1, <1>4, <1>5, <1>6, <1>7 DEF FileStep

LEMMA ApplyStepLoads ==
  ASSUME TellsReload, TypeInv, SafeInv, AimInv, TrackInv, StoreInv, LoadsInv,
         NEW p \in Procs, ApplyStep(p)
  PROVE  LoadsInv'
  <1> USE DEF SameWork, SameRequest
  <1>0. /\ SingleWorker /\ Tracks(ap[p], live, bak) /\ CurIsDomain(ap[p])
        /\ ap[p].mode \in {"batch", "one"} /\ ap[p].pc # "idle"
    BY ApplyStepRuns, CallType DEF TellsReload, TrackInv
  <1>1. ASSUME NEW d \in Domains, SkipSite(p, d) PROVE LoadsInv'
    <2>1. /\ ap[p].pc = "loop" /\ ap'[p].pc = "loop"
          /\ ap'[p].changed = ap[p].changed
          /\ live' = live /\ UNCHANGED nginx
      BY <1>1, CallOfSkip DEF files
    <2>2. QED
      BY <1>0, <2>1, LoadsStill DEF Settled
  <1>2. ASSUME NEW d \in Domains, RenderSiteToStaging(p, d) PROVE LoadsInv'
    <2>1. /\ ap[p].pc = "loop" /\ ap'[p].pc \in {"publish", "record"}
          /\ ap'[p].changed = ap[p].changed /\ ap'[p].mode = ap[p].mode
          /\ live' = live /\ UNCHANGED nginx
      BY <1>2, CallOfRender
    <2>2. ap[p].mode = "one" => ap[p].changed = {}
      BY <1>0, <2>1 DEF Tracks
    <2>3. QED
      BY <1>0, <2>1, <2>2, LoadsStill DEF Settled
  <1>3. ASSUME NEW d \in Domains, rollbackFromBackup(p, d) PROVE LoadsInv'
    <2>1. /\ ap[p].pc = "rollback" /\ ap'[p].pc \in {"rollback", "recover"}
          /\ d \in ap[p].todo /\ ap'[p].changed = ap[p].changed
      BY <1>3, CallOfRollback
    <2>2. ap[p].changed # {}
      BY <1>0, <2>1 DEF Tracks
    <2>3. ~Settled(ap'[p])
      BY <2>1, <2>2 DEF Settled
    <2>4. QED
      BY <1>0, <2>3, LoadsOfOne
  <1>4. ASSUME NEW d \in Domains, RecordFail(p, d) PROVE LoadsInv'
    <2>1. /\ ap[p].pc = "fail" /\ live' = live /\ UNCHANGED nginx
      BY <1>4, CallOfFail DEF files
    <2>2. QED
      BY <1>0, <2>1, LoadsStill DEF Settled
  <1>5. CASE RecordVerdict(p)
    <2>1. /\ ap[p].pc = "record" /\ live' = live /\ UNCHANGED nginx
          /\ \/ ap[p].mode = "one"
             \/ ap'[p].pc = "loop" /\ ap'[p].changed = ap[p].changed
      BY <1>5, CallOfRecord DEF files
    <2>2. QED
      BY <1>0, <2>1, LoadsStill DEF Settled
  <1>6. CASE EndLoop(p)
    <2>1. /\ live' = live /\ UNCHANGED nginx
          /\ \/ ap[p].changed = {}
             \/ ap'[p].pc = "test" /\ ap'[p].changed = ap[p].changed
      BY <1>6, CallOfEnd DEF files
    <2>2. QED
      BY <1>0, <2>1, LoadsStill DEF Settled
  <1>7. CASE TestBeforeReload(p)
    <2>1. /\ ap'[p].pc \in {"reload", "rollback"}
          /\ ap'[p].changed = ap[p].changed
          /\ live' = live /\ UNCHANGED nginx
      BY <1>7, CallOfTest DEF files
    <2>2. QED
      BY <1>0, <2>1, LoadsStill DEF Settled
  <1>8. CASE ReloadNginx(p)
    <2>1. live' = live /\ Valid(live)
      BY <1>0, <1>8, CallOfReload, LoadIsValid DEF files
    <2>2. CASE ReloadOrStart(TRUE)
      BY <1>0, <2>1, <2>2, LoadedEffect, LoadsOfOne
    <2>3. CASE ~ReloadOrStart(TRUE)
      <3>1. /\ ReloadOrStart(FALSE) /\ ap'[p].pc = "rollback"
            /\ ap'[p].changed = ap[p].changed
        BY <1>8, <2>3, CallOfReload
      <3>2. UNCHANGED nginx \/ running' = live
        BY <2>1, <3>1, LoadEffect
      <3>3. CASE UNCHANGED nginx
        BY <1>0, <2>1, <3>1, <3>3, LoadsStill DEF Settled
      <3>4. CASE running' = live
        BY <1>0, <2>1, <3>4, LoadsOfOne
      <3>5. QED
        BY <3>2, <3>3, <3>4
    <2>4. QED
      BY <2>2, <2>3
  <1>9. CASE RecoverReload(p)
    <2>1. /\ live' = live /\ Valid(live)
          /\ \E ok \in BOOLEAN : ReloadOrStart(ok)
      BY <1>0, <1>9, CallOfRecover, LoadIsValid DEF files
    <2>2. up' => running' = live
      BY <2>1 DEF ReloadOrStart, LoadLive, TellsReload, nginx
    <2>3. QED
      BY <1>0, <2>1, <2>2, LoadsOfOne
  <1>10. ASSUME NEW d \in Domains, stageDeleteLiveConf(p, d) PROVE LoadsInv'
    BY <1>0, <1>10, WriteLoads
  <1>11. CASE Publish(p)
    BY <1>0, <1>11, CallOfWrite, WriteLoads DEF Publish, CurIsDomain
  <1>12. QED
    BY <1>1, <1>2, <1>3, <1>4, <1>5, <1>6, <1>7, <1>8, <1>9, <1>10, <1>11
       DEF ApplyStep

\* While SiteDelete waits for its reload its file is gone; a reload that works
\* drops the site from nginx too, and one that fails found no nginx.
LEMMA DeleteLoads ==
  ASSUME TellsReload, TypeInv, SafeInv, StoreInv, LoadsInv,
         DeleteStep \/ \E d \in Domains : SiteDelete(d)
  PROVE  LoadsInv'
  <1>0. NoApply /\ ap' = ap /\ \A p \in Procs : Settled(ap[p]) <=> Settled(ap'[p])
    BY DEF TellsReload, SingleWorker, StoreInv, DeleteBusy, DeleteStep, Quiet,
           SiteDeleteReload, DeleteSiteByDomain, SiteDelete, Accepts
  <1>1. ASSUME NEW d \in Domains, SiteDelete(d) PROVE LoadsInv'
    <2>1. UNCHANGED nginx /\ del.pc = "idle"
      BY <1>1 DEF SiteDelete
    <2>2. CASE live' = live /\ del' = del
      BY <1>0, <2>1, <2>2 DEF LoadsInv, nginx
    <2>3. CASE /\ live' = [live EXCEPT ![d] = NoConf]
               /\ del' = [pc |-> "reload", dom |-> d]
      <3>1. \A e \in Domains : e # d => live'[e] = live[e]
        BY <2>3 DEF TypeInv, TypeOK
      <3>2. del'.pc = "reload" /\ del'.dom = d
        BY <2>3
      <3>3. QED
        BY <1>0, <2>1, <3>1, <3>2 DEF LoadsInv, nginx
    <2>4. QED
      BY <1>1, <2>2, <2>3 DEF SiteDelete, SwapLive
  <1>2. CASE SiteDeleteReload
    <2>1. Valid(live)
      BY <1>0, RestIsFine DEF Valid, Fine
    <2>2. live' = live /\ \E ok \in BOOLEAN : Reload(ok)
      BY <1>2 DEF SiteDeleteReload, files
    <2>3. up' => running' = live
      BY <2>1, <2>2 DEF Reload, LoadLive, TellsReload, nginx
    <2>4. QED
      BY <2>2, <2>3 DEF LoadsInv
  <1>3. CASE DeleteSiteByDomain
    <2>1. del.pc = "row" /\ live' = live /\ UNCHANGED nginx
      BY <1>3 DEF DeleteSiteByDomain, files
    <2>2. QED
      BY <1>0, <2>1 DEF LoadsInv, nginx
  <1>4. QED
    BY <1>1, <1>2, <1>3 DEF DeleteStep

LEMMA LoadsStep ==
  ASSUME TellsReload, TypeInv, CallInv, LoadsInv, [Next]_vars
  PROVE  LoadsInv'
  <1>0. SingleWorker /\ SafeInv /\ AimInv /\ TrackInv /\ StoreInv
    BY DEF TellsReload, CallInv
  <1>1. CASE RowOp \/ UNCHANGED vars
    <2>1. UNCHANGED <<live, up, running, ap, del>>
      BY <1>1 DEF RowOp, UpsertSite, UpsertProxyTarget, DisableSiteByDomain,
                  EnableSiteByDomain, files, nginx, vars
    <2>2. QED
      BY <2>1 DEF LoadsInv
  <1>2. ASSUME NEW p \in Procs, StartApply(p) PROVE LoadsInv'
    <2>1. /\ live' = live /\ UNCHANGED nginx /\ del.pc = "idle"
      BY <1>0, <1>2, CallOfStart, NoDeleteInApply DEF files, DeleteBusy
    <2>2. Settled(ap[p]) /\ \A q \in Procs : q = p
      BY <1>0, <1>2, CallOfStart DEF Settled, SingleWorker
    <2>3. QED
      BY <1>0, <2>1, <2>2, LoadsOfOne DEF LoadsInv, nginx
  <1>3. ASSUME NEW p \in Procs, ApplyStep(p) PROVE LoadsInv'
    BY <1>0, <1>3, ApplyStepLoads
  <1>4. ASSUME NEW p \in Procs, Crash(p) PROVE LoadsInv'
    BY <1>0, <1>4 DEF Crash, SingleWorker
  <1>5. CASE DeleteStep \/ \E d \in Domains : SiteDelete(d)
    BY <1>0, <1>5, DeleteLoads
  <1>6. CASE NginxStop \/ NginxBoot
    BY <1>6 DEF NginxStop, NginxBoot, files, LoadsInv
  <1>7. QED
    BY <1>1, <1>2, <1>3, <1>4, <1>5, <1>6 DEF Next

\* A row that says ok is what a running nginx serves, even if nginx is stopped and
\* started at any time: no apply reports a file that nginx has not loaded, not
\* even one that Publish found to be in place already.
THEOREM OkIsServed == TellsReload => (Spec => []OkMeansServed)
  <1> SUFFICES ASSUME TellsReload PROVE Spec => []OkMeansServed
    OBVIOUS
  <1>1. Init => LoadsInv
    BY DEF Init, LoadsInv
  <1>2. TypeInv /\ CallInv /\ LoadsInv /\ [Next]_vars => LoadsInv'
    BY LoadsStep
  <1>3. LoadsInv => OkMeansServed
    BY DEF LoadsInv, OkMeansServed, Quiet, NoApply, Settled
  <1>4. Spec => []CallInv
    BY CallInvariant DEF TellsReload
  <1>5. QED
    BY <1>1, <1>2, <1>3, <1>4, TypeInvariant, PTL DEF Spec

-----------------------------------------------------------------------------
(* Deleted sites *)

\* A call writes verdicts into the rows and nothing else.
LEMMA ApplyKeepsSettings ==
  ASSUME TypeInv, NEW p \in Procs, StartApply(p) \/ ApplyStep(p)
  PROVE  /\ targets' = targets
         /\ \A d \in Domains : /\ rows'[d].site = rows[d].site
                               /\ rows'[d].conf = rows[d].conf
  <1>1. CASE StartApply(p)
    BY <1>1, CallOfStart DEF db
  <1>2. ASSUME NEW x \in Domains, NEW s \in {"ok", "fail"}, NEW h \in ConfOrNone,
               UpdateApplyResult(x, s, h)
        PROVE  \A d \in Domains : /\ rows'[d].site = rows[d].site
                                  /\ rows'[d].conf = rows[d].conf
    <2>1. /\ \A e \in Domains \ {x} : rows'[e] = rows[e]
          /\ \/ rows'[x] = rows[x]
             \/ rows'[x].site = rows[x].site /\ rows'[x].conf = rows[x].conf
      BY <1>2, UpdateEffect
    <2>2. QED
      BY <2>1
  <1>3. CASE RecordVerdict(p)
    BY <1>2, <1>3, CallOfRecord, CallType
  <1>4. ASSUME NEW x \in Domains, RecordFail(p, x)
        PROVE  /\ targets' = targets
               /\ \A d \in Domains : /\ rows'[d].site = rows[d].site
                                     /\ rows'[d].conf = rows[d].conf
    BY <1>2, <1>4, CallOfFail, CallType
  <1>5. ASSUME NEW x \in Domains,
               \/ SkipSite(p, x) \/ stageDeleteLiveConf(p, x)
               \/ RenderSiteToStaging(p, x) \/ rollbackFromBackup(p, x)
        PROVE  UNCHANGED db
    BY <1>5 DEF SkipSite, stageDeleteLiveConf, RenderSiteToStaging,
                rollbackFromBackup
  <1>6. ASSUME \/ Publish(p) \/ EndLoop(p) \/ TestBeforeReload(p)
               \/ ReloadNginx(p) \/ RecoverReload(p)
        PROVE  UNCHANGED db
    BY <1>6 DEF Publish, EndLoop, TestBeforeReload, ReloadNginx, RecoverReload
  <1>7. QED
    BY <1>1, <1>3, <1>4, <1>5, <1>6 DEF ApplyStep, db

Present(d) == rows[d].site # "absent"

\* What a call has to do or has done concerns rows that are there: a row goes
\* away only between calls, after its file.
PresentInv ==
    /\ \A d \in Domains : live[d] # NoConf => Present(d)
    /\ \A p \in Procs :
          ap[p].pc # "idle" =>
              \A d \in ap[p].todo \cup ap[p].changed : Present(d)
    /\ DeleteBusy => live[del.dom] = NoConf

Concerns(c) == c.todo \cup c.changed

LEMMA PresentOfOne ==
  ASSUME SingleWorker, TypeInv, PresentInv, NEW p \in Procs, ap[p].pc # "idle",
         ApplyStep(p), ~DeleteBusy',
         \A d \in Domains : live'[d] = live[d] \/ d \in Concerns(ap[p]),
         ap'[p].pc = "idle" \/ Concerns(ap'[p]) \subseteq Concerns(ap[p])
  PROVE  PresentInv'
  <1>1. \A d \in Domains : rows'[d].site = rows[d].site
    BY ApplyKeepsSettings
  <1>2. \A d \in Concerns(ap[p]) : Present(d) /\ d \in Domains
    BY CallType DEF PresentInv, Concerns
  <1>3. \A q \in Procs : q = p
    BY DEF SingleWorker
  <1>4. QED
    BY <1>1, <1>2, <1>3 DEF PresentInv, Present, Concerns

LEMMA WritePresent ==
  ASSUME SingleWorker, TypeInv, SafeInv, AimInv, PresentInv, NEW p \in Procs,
         NEW d \in Domains, ApplyStep(p), ap[p].pc # "idle", ~DeleteBusy',
         stageDeleteLiveConf(p, d) \/ (Publish(p) /\ d = ap[p].cur)
  PROVE  PresentInv'
  <1> DEFINE t == FileText(ap[p], d)
             c == ap[p]
  <1>1. /\ FileStep(c, ap'[p], d, t)
        /\ \/ c.pc = "loop" /\ d \in c.todo
           \/ c.pc = "publish" /\ d = c.cur
    BY CallOfWrite DEF AimInv
  <1>2. d \in Concerns(c)
    BY <1>1 DEF SafeInv, Ahead, Concerns
  <1>3. c \in ApplyCall /\ t \in ConfOrNone
    BY CallType DEF FileText, ConfOrNone
  <1> HIDE DEF t
  <1>4. \A e \in Domains : live'[e] = live[e] \/ e = d
    BY <1>1 DEF FileStep, TypeInv, TypeOK
  <1>5. ap'[p].pc = "idle" \/ Concerns(ap'[p]) \subseteq Concerns(c)
    <2>1. CASE ap'[p] = NoCall
      BY <2>1, NoCallFields
    <2>2. CASE ap'[p] = Matched(c, d, t)
      BY <1>3, <2>2, MatchedFields DEF Concerns
    <2>3. CASE ap'[p] = Swapped(c, d, t)
      BY <1>2, <1>3, <2>3, SwappedFields DEF Concerns
    <2>4. CASE ap'[p] = Failed(c, d, t)
      BY <1>3, <2>4, FailedFields DEF Concerns
    <2>5. QED
      BY <1>1, <2>1, <2>2, <2>3, <2>4 DEF FileStep
  <1>6. QED
    BY <1>2, <1>4, <1>5, PresentOfOne

LEMMA ApplyStepPresent ==
  ASSUME SingleWorker, TypeInv, SafeInv, AimInv, TrackInv, StoreInv, PresentInv,
         NEW p \in Procs, ApplyStep(p)
  PROVE  PresentInv'
  <1> USE DEF SameWork, SameRequest
  <1>0. ap[p].pc # "idle" /\ ~DeleteBusy' /\ Tracks(ap[p], live, bak)
    <2>1. ap[p].pc # "idle" /\ del' = del
      BY ApplyStepRuns
    <2>2. ~DeleteBusy
      BY <2>1, NoDeleteInApply
    <2>3. QED
      BY <2>1, <2>2 DEF DeleteBusy, TrackInv
  <1>1. ASSUME NEW d \in Domains, SkipSite(p, d) \/ RenderSiteToStaging(p, d)
        PROVE  PresentInv'
    <2>1. live' = live /\ ap'[p].changed = ap[p].changed
          /\ ap'[p].todo \subseteq ap[p].todo
      BY <1>1, CallOfSkip, CallOfRender DEF files
    <2>2. QED
      BY <1>0, <2>1, PresentOfOne DEF Concerns
  <1>2. ASSUME NEW d \in Domains, rollbackFromBackup(p, d) PROVE PresentInv'
    <2>1. /\ d \in ap[p].todo /\ ap'[p].changed = ap[p].changed
          /\ ap'[p].todo \subseteq ap[p].todo
          /\ live' = [live EXCEPT ![d] = bak[d]]
      BY <1>2, CallOfRollback DEF SingleWorker
    <2>2. \A e \in Domains : live'[e] = live[e] \/ e = d
      BY <2>1 DEF TypeInv, TypeOK
    <2>3. QED
      BY <1>0, <2>1, <2>2, PresentOfOne DEF Concerns
  <1>3. ASSUME NEW d \in Domains, RecordFail(p, d) PROVE PresentInv'
    <2>1. /\ live' = live
          /\ \/ ap'[p].pc = "idle"
             \/ ap'[p].changed = ap[p].changed /\ ap'[p].todo \subseteq ap[p].todo
      BY <1>3, CallOfFail, NoCallFields DEF files
    <2>2. QED
      BY <1>0, <2>1, PresentOfOne DEF Concerns
  <1>4. CASE RecordVerdict(p) \/ EndLoop(p)
    <2>1. /\ live' = live
          /\ \/ ap'[p].pc = "idle"
             \/ ap'[p].changed = ap[p].changed /\ ap'[p].todo \subseteq ap[p].todo
      BY <1>4, CallOfRecord, CallOfEnd, NoCallFields DEF files
    <2>2. QED
      BY <1>0, <2>1, PresentOfOne DEF Concerns
  <1>5. CASE TestBeforeReload(p) \/ ReloadNginx(p) \/ RecoverReload(p)
    <2>1. /\ live' = live
          /\ \/ ap'[p].pc = "idle"
             \/ /\ ap'[p].changed = ap[p].changed
                /\ ap'[p].todo \in {ap[p].todo, ap[p].changed}
      BY <1>5, CallOfTest, CallOfReload, CallOfRecover, NoCallFields DEF files
    <2>2. QED
      BY <1>0, <2>1, PresentOfOne DEF Concerns
  <1>6. ASSUME NEW d \in Domains, stageDeleteLiveConf(p, d) PROVE PresentInv'
    BY <1>0, <1>6, WritePresent
  <1>7. CASE Publish(p)
    BY <1>0, <1>7, CallType, WritePresent DEF Publish, CurIsDomain
  <1>8. QED
    BY <1>1, <1>2, <1>3, <1>4, <1>5, <1>6, <1>7 DEF ApplyStep

\* No write of a row but its deletion takes it away.
LEMMA RowOpPresent ==
  ASSUME TypeInv, RowOp, NEW d \in Domains, Present(d)
  PROVE  Present(d)'
  <1>0. rows \in [Domains -> Row]
    BY DEF TypeInv, TypeOK
  <1>1. ASSUME NEW x \in Domains, NEW c \in Confs, NEW e \in BOOLEAN, UpsertSite(x, c, e)
        PROVE  Present(d)'
    BY <1>0, <1>1 DEF UpsertSite, Present, Row
  <1>2. ASSUME NEW x \in Domains, NEW c \in Confs, UpsertProxyTarget(x, c)
        PROVE  Present(d)'
    BY <1>2 DEF UpsertProxyTarget, Present
  <1>3. ASSUME NEW x \in Domains, DisableSiteByDomain(x) \/ EnableSiteByDomain(x)
        PROVE  Present(d)'
    BY <1>0, <1>3 DEF DisableSiteByDomain, EnableSiteByDomain, Present, Row
  <1>4. QED
    BY <1>1, <1>2, <1>3 DEF RowOp

LEMMA PresentStep ==
  ASSUME SingleWorker, TypeInv, SafeInv, AimInv, TrackInv, StoreInv, PresentInv,
         [Next]_vars
  PROVE  PresentInv'
  <1>0. rows \in [Domains -> Row] /\ live \in [Domains -> ConfOrNone]
    BY DEF TypeInv, TypeOK
  <1>1. CASE RowOp
    <2>1. UNCHANGED <<live, ap, del>>
      BY <1>1 DEF RowOp, UpsertSite, UpsertProxyTarget, DisableSiteByDomain,
                  EnableSiteByDomain, files
    <2>2. \A d \in Domains : Present(d) => Present(d)'
      BY <1>1, RowOpPresent
    <2>3. \A p \in Procs : ap[p].todo \cup ap[p].changed \subseteq Domains
      BY CallType
    <2>4. QED
      BY <2>1, <2>2, <2>3 DEF PresentInv, DeleteBusy
  <1>2. ASSUME NEW p \in Procs, StartApply(p) PROVE PresentInv'
    <2>1. /\ live' = live /\ rows' = rows /\ del' = del /\ ap'[p].changed = {}
          /\ \A d \in ap'[p].todo : Present(d)
      BY <1>2, CallOfStart DEF files, db, Present
    <2>2. \A q \in Procs : q = p
      BY DEF SingleWorker
    <2>3. QED
      BY <2>1, <2>2 DEF PresentInv, Present, DeleteBusy
  <1>3. ASSUME NEW p \in Procs, ApplyStep(p) PROVE PresentInv'
    BY <1>3, ApplyStepPresent
  <1>4. ASSUME NEW p \in Procs, Crash(p) PROVE PresentInv'
    BY <1>4 DEF Crash, SingleWorker
  <1>5. ASSUME NEW d \in Domains, SiteDelete(d) PROVE PresentInv'
    <2>1. /\ NoApply /\ ap' = ap /\ rows' = rows
          /\ \/ live' = live /\ del' = del
             \/ /\ live' = [live EXCEPT ![d] = NoConf]
                /\ del' = [pc |-> "reload", dom |-> d]
      BY <1>5 DEF SingleWorker, SiteDelete, SwapLive, Accepts, Quiet, db
    <2>2. QED
      BY <1>0, <2>1 DEF PresentInv, Present, DeleteBusy, NoApply
  <1>6. CASE SiteDeleteReload
    <2>1. /\ ap' = ap /\ rows' = rows /\ live' = live /\ DeleteBusy
          /\ DeleteBusy' => del'.dom = del.dom
      BY <1>6 DEF SiteDeleteReload, NoDelete, TypeInv, TypeOK, DeleteBusy, db, files
    <2>2. QED
      BY <2>1 DEF PresentInv, Present
  <1>7. CASE DeleteSiteByDomain
    <2>1. /\ ap' = ap /\ live' = live /\ DeleteBusy /\ ~DeleteBusy'
          /\ rows' = [rows EXCEPT ![del.dom] = NoRow]
      BY <1>7 DEF DeleteSiteByDomain, NoDelete, DeleteBusy, files
    <2>2. NoApply
      BY <2>1 DEF StoreInv
    <2>3. QED
      BY <1>0, <2>1, <2>2 DEF PresentInv, Present, NoApply
  <1>8. CASE NginxStop \/ NginxBoot \/ UNCHANGED vars
    <2>1. UNCHANGED <<rows, live, ap, del>>
      BY <1>8 DEF NginxStop, NginxBoot, vars, db, files
    <2>2. QED
      BY <2>1 DEF PresentInv, Present, DeleteBusy
  <1>9. QED
    BY <1>1, <1>2, <1>3, <1>4, <1>5, <1>6, <1>7, <1>8 DEF Next, DeleteStep

LEMMA PresentInvariant == SingleWorker => (Spec => []PresentInv)
  <1> SUFFICES ASSUME SingleWorker PROVE Spec => []PresentInv
    OBVIOUS
  <1>1. Init => PresentInv
    BY NoCallFields DEF Init, PresentInv, NoDelete, DeleteBusy
  <1>2. TypeInv /\ CallInv /\ PresentInv /\ [Next]_vars => PresentInv'
    BY PresentStep DEF CallInv
  <1>3. QED
    BY <1>1, <1>2, CallInvariant, TypeInvariant, PTL DEF Spec

\* What nginx serves has its row, and when SiteDelete comes to the row nginx has
\* let go of the site.
GoneInv ==
    /\ \A d \in Domains : running[d] # NoConf => Present(d)
    /\ del.pc = "row" => running[del.dom] = NoConf

\* nginx only ever turns to the live files, or to nothing.
LEMMA ServesLive ==
  ASSUME [Next]_vars
  PROVE  \/ UNCHANGED nginx
         \/ running' = live
         \/ running' = [d \in Domains |-> NoConf]
  <1>1. CASE RowOp
    BY <1>1 DEF RowOp, UpsertSite, UpsertProxyTarget, DisableSiteByDomain,
                EnableSiteByDomain
  <1>2. ASSUME NEW p \in Procs, StartApply(p) \/ Crash(p)
        PROVE  UNCHANGED nginx
    BY <1>2 DEF StartApply, StartBatch, StartOne, Crash
  <1>3. ASSUME NEW p \in Procs, ReloadNginx(p) \/ RecoverReload(p)
        PROVE  UNCHANGED nginx \/ running' = live
    BY <1>3 DEF ReloadNginx, RecoverReload, ReloadOrStart, LoadLive
  <1>4. ASSUME NEW p \in Procs, NEW d \in Domains,
               \/ SkipSite(p, d) \/ stageDeleteLiveConf(p, d)
               \/ RenderSiteToStaging(p, d) \/ rollbackFromBackup(p, d)
               \/ RecordFail(p, d)
        PROVE  UNCHANGED nginx
    BY <1>4 DEF SkipSite, stageDeleteLiveConf, RenderSiteToStaging,
                rollbackFromBackup, RecordFail
  <1>5. ASSUME NEW p \in Procs,
               Publish(p) \/ RecordVerdict(p) \/ EndLoop(p) \/ TestBeforeReload(p)
        PROVE  UNCHANGED nginx
    BY <1>5 DEF Publish, RecordVerdict, EndLoop, TestBeforeReload
  <1>6. ASSUME NEW p \in Procs, ApplyStep(p)
        PROVE  UNCHANGED nginx \/ running' = live
    BY <1>3, <1>4, <1>5, <1>6 DEF ApplyStep
  <1>7. ASSUME NEW d \in Domains, SiteDelete(d) \/ DeleteSiteByDomain
        PROVE  UNCHANGED nginx
    BY <1>7 DEF SiteDelete, DeleteSiteByDomain
  <1>8. CASE SiteDeleteReload
    BY <1>8 DEF SiteDeleteReload, Reload, LoadLive
  <1>9. CASE NginxStop \/ NginxBoot
    BY <1>9 DEF NginxStop, NginxBoot
  <1>10. CASE DeleteSiteByDomain \/ UNCHANGED vars
    BY <1>10 DEF DeleteSiteByDomain, vars, nginx
  <1>11. QED
    BY <1>1, <1>2, <1>6, <1>7, <1>8, <1>9, <1>10 DEF Next, DeleteStep

\* Rows stay but for the one SiteDelete ends with.
LEMMA RowsStay ==
  ASSUME TypeInv, [Next]_vars, NEW d \in Domains, Present(d)
  PROVE  Present(d)' \/ (DeleteSiteByDomain /\ d = del.dom)
  <1>1. CASE RowOp
    BY <1>1, RowOpPresent
  <1>2. ASSUME NEW p \in Procs, StartApply(p) \/ ApplyStep(p) PROVE Present(d)'
    BY <1>2, ApplyKeepsSettings DEF Present
  <1>3. ASSUME NEW p \in Procs, Crash(p) PROVE Present(d)'
    BY <1>3 DEF Crash, db, Present
  <1>4. ASSUME NEW x \in Domains, SiteDelete(x) PROVE Present(d)'
    BY <1>4 DEF SiteDelete, db, Present
  <1>5. CASE DeleteSiteByDomain
    BY <1>5 DEF DeleteSiteByDomain, Present, TypeInv, TypeOK
  <1>6. CASE SiteDeleteReload \/ NginxStop \/ NginxBoot \/ UNCHANGED vars
    BY <1>6 DEF SiteDeleteReload, NginxStop, NginxBoot, vars, db, Present
  <1>7. QED
    BY <1>1, <1>2, <1>3, <1>4, <1>5, <1>6 DEF Next, DeleteStep

LEMMA GoneStep ==
  ASSUME SingleWorker, TypeInv, CallInv, PresentInv, GoneInv, [Next]_vars
  PROVE  GoneInv'
  <1>1. ASSUME NEW d \in Domains, running'[d] # NoConf PROVE Present(d)'
    <2>1. running'[d] = running[d] \/ running'[d] = live[d]
      BY <1>1, ServesLive DEF nginx
    <2>2. Present(d)
      BY <1>1, <2>1 DEF GoneInv, PresentInv
    <2>3. CASE DeleteSiteByDomain /\ d = del.dom
      <3>1. running'[d] = running[d] /\ running[d] = NoConf
        BY <2>3 DEF DeleteSiteByDomain, nginx, GoneInv
      <3>2. QED
        BY <1>1, <3>1
    <2>4. QED
      BY <2>2, <2>3, RowsStay
  <1>2. ASSUME del'.pc = "row" PROVE running'[del'.dom] = NoConf
    <2>1. CASE SiteDeleteReload
      <3>0. PICK ok \in BOOLEAN :
              /\ Reload(ok)
              /\ del' = IF ok THEN [del EXCEPT !.pc = "row"] ELSE NoDelete
        BY <2>1 DEF SiteDeleteReload
      <3>1. Reload(TRUE) /\ del.pc = "reload" /\ del'.dom = del.dom
        <4>1. ok
          BY <1>2, <3>0 DEF NoDelete
        <4>2. [del EXCEPT !.pc = "row"].dom = del.dom
          BY DEF TypeInv, TypeOK
        <4>3. ok = TRUE
          BY <4>1
        <4>4. Reload(TRUE)
          BY <3>0, <4>3
        <4>5. QED
          BY <2>1, <3>0, <4>1, <4>2, <4>4 DEF SiteDeleteReload
      <3>2. NoApply /\ live[del.dom] = NoConf
        BY <3>1 DEF CallInv, StoreInv, PresentInv, DeleteBusy
      <3>3. Valid(live)
        BY <3>2, RestIsFine DEF CallInv, Valid, Fine
      <3>4. running' = live
        BY <3>1, <3>3 DEF Reload, LoadLive
      <3>5. QED
        BY <3>1, <3>2, <3>4
    <2>2. CASE ~SiteDeleteReload
      <3>1. del' = del
        <4>1. ASSUME NEW d \in Domains, SiteDelete(d) PROVE del' = del
          <5>1. [pc |-> "reload", dom |-> d].pc = "reload"
            OBVIOUS
          <5>2. del' = [pc |-> "reload", dom |-> d] \/ UNCHANGED del
            BY <4>1 DEF SiteDelete
          <5>3. QED
            BY <1>2, <5>1, <5>2
        <4>2. CASE DeleteSiteByDomain
          BY <1>2, <4>2 DEF DeleteSiteByDomain, NoDelete
        <4>3. CASE RowOp
          BY <4>3 DEF RowOp, UpsertSite, UpsertProxyTarget, DisableSiteByDomain,
                      EnableSiteByDomain
        <4>4. ASSUME NEW p \in Procs, StartApply(p) PROVE del' = del
          BY <4>4, CallOfStart
        <4>5. ASSUME NEW p \in Procs, ApplyStep(p) PROVE del' = del
          BY <4>5, ApplyStepRuns
        <4>6. ASSUME NEW p \in Procs, Crash(p) PROVE del' = del
          BY <4>6 DEF Crash
        <4>7. CASE NginxStop \/ NginxBoot \/ UNCHANGED vars
          BY <4>7 DEF NginxStop, NginxBoot, vars
        <4>8. QED
          BY <2>2, <4>1, <4>2, <4>3, <4>4, <4>5, <4>6, <4>7 DEF Next, DeleteStep
      <3>2. del.dom \in Domains /\ live[del.dom] = NoConf
        BY <1>2, <3>1, ConstantsAssumption
           DEF CallInv, StoreInv, PresentInv, DeleteBusy
      <3>3. running[del.dom] = NoConf
        BY <1>2, <3>1 DEF GoneInv
      <3>4. QED
        BY <3>1, <3>2, <3>3, ServesLive DEF nginx
    <2>3. QED
      BY <2>1, <2>2
  <1>3. QED
    BY <1>1, <1>2 DEF GoneInv

\* A site whose row is gone has no vhost left, neither on disk nor in nginx,
\* whichever reloads fail and whoever stops nginx: SiteDelete takes the row only
\* after nginx let go, and the rollback of no later Apply brings the site back.
THEOREM NoOrphans == SingleWorker => (Spec => []NoOrphan)
  <1> SUFFICES ASSUME SingleWorker PROVE Spec => []NoOrphan
    OBVIOUS
  <1>1. Init => GoneInv
    BY DEF Init, GoneInv, NoDelete
  <1>2. TypeInv /\ CallInv /\ PresentInv /\ GoneInv /\ [Next]_vars => GoneInv'
    BY GoneStep
  <1>3. PresentInv /\ GoneInv => NoOrphan
    BY DEF PresentInv, Present, GoneInv, NoOrphan
  <1>4. QED
    BY <1>1, <1>2, <1>3, PresentInvariant, CallInvariant, TypeInvariant, PTL DEF Spec

-----------------------------------------------------------------------------
(* The text a row asks for *)

\* The operator waits for a request to end before the next one.
KeepsOrder == SingleWorker /\ Serial

\* What a row r of d asks for when the proxy targets are t.
Wish(t, d, r) ==
    IF r.site = "enabled" THEN IF d \in ProxyDomains THEN t[d] ELSE r.conf
    ELSE NoConf

Asking == [d \in Domains |-> Asked(d)]

LEMMA AskingIsWish == \A d \in Domains : Asking[d] = Wish(targets, d, rows[d])
  BY DEF Asking, Asked, Rendered, Wish

\* The call c works on what the rows ask for, a, until its reload: what it has
\* read is still so, and what it has rendered and written is what they ask for.
Follows(c, t, a) ==
    /\ c.pc \in {"loop", "publish"} \/ (c.pc = "record" /\ c.mode = "batch") =>
           \A d \in c.todo : Wish(t, d, c.snap[d]) = a[d]
    /\ c.pc = "publish" => c.want[c.cur] = a[c.cur]
    /\ c.pc = "record" /\ c.verdict = "ok" => c.want[c.cur] = a[c.cur]
    /\ c.mode = "one" /\ c.pc \in {"test", "reload"} => c.want[c.cur] = a[c.cur]
    /\ c.pc \in Forward => \A d \in c.changed : c.want[d] = a[d]

FollowInv == \A p \in Procs : Follows(ap[p], targets, Asking)

LEMMA IdleFollows ==
  ASSUME NEW c, c.pc \notin Forward, NEW t, NEW a
  PROVE  Follows(c, t, a)
  BY DEF Follows, Forward

LEMMA FollowOfOne ==
  ASSUME SingleWorker, NEW p \in Procs, Follows(ap'[p], targets', Asking')
  PROVE  FollowInv'
  BY DEF SingleWorker, FollowInv

LEMMA ApplyKeepsAsking ==
  ASSUME TypeInv, NEW p \in Procs, StartApply(p) \/ ApplyStep(p)
  PROVE  targets' = targets /\ Asking' = Asking
  <1>1. targets' = targets /\ \A d \in Domains : /\ rows'[d].site = rows[d].site
                                                 /\ rows'[d].conf = rows[d].conf
    BY ApplyKeepsSettings
  <1>2. \A d \in Domains : Asked(d)' = Asked(d)
    BY <1>1 DEF Asked, Rendered
  <1>3. QED
    BY <1>1, <1>2 DEF Asking

LEMMA SwappedFollows ==
  ASSUME NEW c, NEW d, MayWrite(c, d), NEW u \in ConfOrNone,
         NEW t, NEW a, Follows(c, t, a), u = a[d]
  PROVE  Follows(Swapped(c, d, u), t, a)
  <1> DEFINE w == Swapped(c, d, u)
  <1>1. /\ w.snap = c.snap /\ w.todo = c.todo /\ w.cur = d /\ w.want[d] = u
        /\ \A e \in Domains \ {d} : w.want[e] = c.want[e]
        /\ w.pc \in {"test", "record"} /\ w.changed = c.changed \cup {d}
    BY SwappedFields DEF MayWrite, SameRequest
  <1>2. c.changed \subseteq Domains /\ d \notin c.changed
    BY DEF MayWrite, ApplyCall
  <1> HIDE DEF w
  <1>3. \A e \in w.changed : w.want[e] = a[e]
    BY <1>1, <1>2 DEF MayWrite, Follows, Forward
  <1>4. Follows(w, t, a)
    BY <1>1, <1>3 DEF Follows, MayWrite
  <1>5. QED
    BY <1>4 DEF w

LEMMA MatchedFollows ==
  ASSUME NEW c, NEW d, MayWrite(c, d), NEW u \in ConfOrNone,
         NEW t, NEW a, Follows(c, t, a), u = a[d]
  PROVE  Follows(Matched(c, d, u), t, a)
  <1> DEFINE w == Matched(c, d, u)
  <1>1. /\ w.snap = c.snap /\ w.todo = c.todo /\ w.cur = d /\ w.want[d] = u
        /\ \A e \in Domains \ {d} : w.want[e] = c.want[e]
        /\ w.pc = "record" /\ w.changed = c.changed
    BY MatchedFields DEF MayWrite, SameRequest
  <1>2. c.changed \subseteq Domains /\ d \notin c.changed
    BY DEF MayWrite, ApplyCall
  <1> HIDE DEF w
  <1>3. \A e \in w.changed : w.want[e] = a[e]
    BY <1>1, <1>2 DEF MayWrite, Follows, Forward
  <1>4. Follows(w, t, a)
    BY <1>1, <1>3 DEF Follows, MayWrite
  <1>5. QED
    BY <1>4 DEF w

LEMMA FailedFollows ==
  ASSUME NEW c, NEW d, MayWrite(c, d), NEW u \in ConfOrNone,
         NEW t, NEW a, Follows(c, t, a)
  PROVE  Follows(Failed(c, d, u), t, a)
  <1> DEFINE w == Failed(c, d, u)
  <1>1. /\ w.snap = c.snap /\ w.todo = c.todo /\ w.verdict = "fail"
        /\ \A e \in Domains \ {d} : w.want[e] = c.want[e]
        /\ w.pc = "record" /\ w.changed = c.changed
    BY FailedFields DEF MayWrite, SameRequest
  <1>2. c.changed \subseteq Domains /\ d \notin c.changed
    BY DEF MayWrite, ApplyCall
  <1> HIDE DEF w
  <1>3. \A e \in w.changed : w.want[e] = a[e]
    BY <1>1, <1>2 DEF MayWrite, Follows, Forward
  <1>4. Follows(w, t, a)
    BY <1>1, <1>3 DEF Follows, MayWrite
  <1>5. QED
    BY <1>4 DEF w

\* Every text a call writes is the one the row asks for.
LEMMA WritesTheWish ==
  ASSUME NEW p \in Procs, NEW d \in Domains, Follows(ap[p], targets, Asking),
         \/ /\ ap[p].pc = "loop" /\ d \in ap[p].todo
            /\ ap[p].snap[d].site = "disabled"
         \/ ap[p].pc = "publish" /\ d = ap[p].cur
  PROVE  FileText(ap[p], d) = Asking[d]
  BY DEF Follows, FileText, Wish

LEMMA WriteFollows ==
  ASSUME SingleWorker, TypeInv, SafeInv, AimInv, FollowInv, NEW p \in Procs,
         NEW d \in Domains, ApplyStep(p),
         stageDeleteLiveConf(p, d) \/ (Publish(p) /\ d = ap[p].cur)
  PROVE  FollowInv'
  <1> DEFINE u == FileText(ap[p], d)
             c == ap[p]
  <1>1. /\ FileStep(c, ap'[p], d, u)
        /\ \/ c.pc = "loop" /\ d \in c.todo /\ c.snap[d].site = "disabled"
           \/ c.pc = "publish" /\ d = c.cur
    BY CallOfWrite DEF AimInv
  <1>2. MayWrite(c, d) /\ Follows(c, targets, Asking)
    BY <1>1, WriteIsNew DEF SafeInv, FollowInv
  <1>3. u = Asking[d] /\ u \in ConfOrNone
    BY <1>1, <1>2, WritesTheWish, CallType DEF FileText, ConfOrNone
  <1>4. targets' = targets /\ Asking' = Asking
    BY ApplyKeepsAsking
  <1> HIDE DEF u
  <1>5. CASE ap'[p] = NoCall
    <2>1. Follows(ap'[p], targets', Asking')
      BY <1>5, NoCallFields, IdleFollows DEF Forward
    <2>2. QED
      BY <2>1, FollowOfOne
  <1>6. CASE ap'[p] = Matched(c, d, u)
    <2>1. Follows(Matched(c, d, u), targets, Asking)
      BY <1>2, <1>3, MatchedFollows
    <2>2. QED
      BY <1>4, <1>6, <2>1, FollowOfOne
  <1>7. CASE ap'[p] = Swapped(c, d, u)
    <2>1. Follows(Swapped(c, d, u), targets, Asking)
      BY <1>2, <1>3, SwappedFollows
    <2>2. QED
      BY <1>4, <1>7, <2>1, FollowOfOne
  <1>8. CASE ap'[p] = Failed(c, d, u)
    <2>1. Follows(Failed(c, d, u), targets, Asking)
      BY <1>2, <1>3, FailedFollows
    <2>2. QED
      BY <1>4, <1>8, <2>1, FollowOfOne
  <1>9. QED
    BY <1>1, <1>5, <1>6, <1>7, <1>8 DEF FileStep

LEMMA RenderFollows ==
  ASSUME SingleWorker, TypeInv, SafeInv, FollowInv, NEW p \in Procs,
         NEW d \in Domains, ApplyStep(p), RenderSiteToStaging(p, d)
  PROVE  FollowInv'
  <1> DEFINE c == ap[p]
             r == ap'[p]
             text == Rendered(d, c.snap[d])
  <1>1. /\ c.pc = "loop" /\ d \in c.todo /\ c.snap[d].site = "enabled"
        /\ r.snap = c.snap /\ r.todo = c.todo /\ r.cur = d
        /\ r.changed = c.changed
        /\ \A e \in Domains \ {d} : r.want[e] = c.want[e]
        /\ \/ r.pc = "publish" /\ r.want[d] = text
           \/ r.pc = "record" /\ r.verdict = "fail"
    BY CallOfRender DEF SameRequest
  <1>2. Follows(c, targets, Asking) /\ d \notin c.changed /\ c.changed \subseteq Domains
    BY <1>1, CallType DEF SafeInv, Ahead, FollowInv
  <1>3. text = Asking[d]
    BY <1>1, <1>2 DEF Follows, Wish, Rendered
  <1>4. targets' = targets /\ Asking' = Asking
    BY ApplyKeepsAsking
  <1> HIDE DEF c, r, text
  <1>5. \A e \in r.changed : r.want[e] = Asking[e]
    BY <1>1, <1>2 DEF Follows, Forward
  <1>6. Follows(r, targets, Asking)
    BY <1>1, <1>2, <1>3, <1>5 DEF Follows
  <1>7. QED
    BY <1>4, <1>6, FollowOfOne DEF r

LEMMA ApplyStepFollows ==
  ASSUME SingleWorker, TypeInv, SafeInv, AimInv, FollowInv, NEW p \in Procs,
         ApplyStep(p)
  PROVE  FollowInv'
  <1> USE DEF SameWork, SameRequest
  <1>0. /\ Follows(ap[p], targets, Asking) /\ CurIsDomain(ap[p])
        /\ targets' = targets /\ Asking' = Asking
    BY CallType, ApplyKeepsAsking DEF FollowInv
  <1>1. ASSUME NEW d \in Domains, SkipSite(p, d) PROVE FollowInv'
    <2>1. Follows(ap'[p], targets, Asking)
      BY <1>0, <1>1, CallOfSkip DEF Follows, Forward
    <2>2. QED
      BY <1>0, <2>1, FollowOfOne
  <1>2. ASSUME NEW d \in Domains, RenderSiteToStaging(p, d) PROVE FollowInv'
    BY <1>2, RenderFollows
  <1>3. ASSUME NEW d \in Domains, rollbackFromBackup(p, d) \/ RecordFail(p, d)
        PROVE  FollowInv'
    <2>1. ap'[p].pc \notin Forward
      BY <1>3, CallOfRollback, CallOfFail, NoCallFields DEF Forward
    <2>2. Follows(ap'[p], targets, Asking)
      BY <2>1, IdleFollows
    <2>3. QED
      BY <1>0, <2>2, FollowOfOne
  <1>4. CASE RecordVerdict(p)
    <2>1. CASE ap'[p].pc = "loop"
      <3>1. /\ ap[p].pc = "record" /\ ap[p].mode = "batch"
            /\ ap'[p].todo \subseteq ap[p].todo
            /\ ap'[p].snap = ap[p].snap /\ ap'[p].want = ap[p].want
            /\ ap'[p].changed = ap[p].changed
        BY <1>4, <2>1, CallOfRecord, NoCallFields
      <3>2. Follows(ap'[p], targets, Asking)
        BY <1>0, <2>1, <3>1 DEF Follows, Forward
      <3>3. QED
        BY <1>0, <3>2, FollowOfOne
    <2>2. CASE ap'[p] = NoCall
      <3>1. Follows(ap'[p], targets, Asking)
        BY <2>2, NoCallFields, IdleFollows DEF Forward
      <3>2. QED
        BY <1>0, <3>1, FollowOfOne
    <2>3. QED
      BY <1>4, <2>1, <2>2, CallOfRecord
  <1>5. CASE EndLoop(p)
    <2>1. \/ ap'[p].pc = "idle"
          \/ /\ ap[p].pc = "loop" /\ ap'[p].pc = "test"
             /\ ap'[p].want = ap[p].want /\ ap'[p].changed = ap[p].changed
             /\ ap'[p].mode = "batch"
      BY <1>5, CallOfEnd, NoCallFields
    <2>2. Follows(ap'[p], targets, Asking)
      BY <1>0, <2>1 DEF Follows, Forward
    <2>3. QED
      BY <1>0, <2>2, FollowOfOne
  <1>6. CASE TestBeforeReload(p)
    <2>1. \/ ap'[p].pc = "rollback"
          \/ /\ ap[p].pc = "test" /\ ap'[p].pc = "reload"
             /\ ap'[p].want = ap[p].want /\ ap'[p].changed = ap[p].changed
             /\ ap'[p].mode = ap[p].mode /\ ap'[p].cur = ap[p].cur
      BY <1>6, CallOfTest
    <2>2. Follows(ap'[p], targets, Asking)
      BY <1>0, <2>1 DEF Follows, Forward
    <2>3. QED
      BY <1>0, <2>2, FollowOfOne
  <1>7. CASE RecoverReload(p)
    <2>1. ap'[p].pc \notin Forward
      BY <1>7, CallOfRecover DEF Forward
    <2>2. Follows(ap'[p], targets, Asking)
      BY <2>1, IdleFollows
    <2>3. QED
      BY <1>0, <2>2, FollowOfOne
  <1>8. ASSUME NEW d \in Domains, stageDeleteLiveConf(p, d) PROVE FollowInv'
    BY <1>8, WriteFollows
  <1>9. CASE Publish(p)
    BY <1>0, <1>9, WriteFollows DEF Publish, CurIsDomain
  <1>10. CASE ReloadNginx(p)
    <2>1. \/ ap'[p].pc \in {"idle", "rollback"}
          \/ /\ ap[p].pc = "reload" /\ ap[p].mode = "one" /\ ap'[p].pc = "record"
             /\ ap'[p].cur = ap[p].cur /\ ap'[p].want = ap[p].want
             /\ ap'[p].changed = ap[p].changed /\ ap'[p].mode = "one"
      BY <1>10, CallOfReload, NoCallFields
    <2>2. Follows(ap'[p], targets, Asking)
      BY <1>0, <2>1 DEF Follows, Forward
    <2>3. QED
      BY <1>0, <2>2, FollowOfOne
  <1>11. QED
    BY <1>1, <1>2, <1>3, <1>4, <1>5, <1>6, <1>7, <1>8, <1>9, <1>10 DEF ApplyStep

\* While a call runs, nobody else asks for anything.
LEMMA QuietAsking ==
  ASSUME KeepsOrder, StoreInv,
         \/ RowOp \/ DeleteStep \/ NginxStop \/ NginxBoot \/ UNCHANGED vars
         \/ \E d \in Domains : SiteDelete(d)
  PROVE  ap' = ap /\ (NoApply \/ UNCHANGED <<rows, targets>>)
  <1>1. ap' = ap
    BY OutsideStep, SingleIsOneWriter DEF KeepsOrder
  <1>2. CASE RowOp
    BY <1>1, <1>2 DEF KeepsOrder, RowOp, UpsertSite, UpsertProxyTarget, Quiet,
                      DisableSiteByDomain, EnableSiteByDomain, Accepts
  <1>3. CASE DeleteStep
    BY <1>1, <1>3 DEF DeleteStep, SiteDeleteReload, DeleteSiteByDomain, StoreInv,
                      DeleteBusy
  <1>4. CASE \/ NginxStop \/ NginxBoot \/ UNCHANGED vars
             \/ \E d \in Domains : SiteDelete(d)
    BY <1>1, <1>4 DEF NginxStop, NginxBoot, vars, SiteDelete, db
  <1>5. QED
    BY <1>2, <1>3, <1>4

LEMMA FollowStep ==
  ASSUME KeepsOrder, TypeInv, SafeInv, AimInv, StoreInv, FollowInv, [Next]_vars
  PROVE  FollowInv'
  <1>0. SingleWorker
    BY DEF KeepsOrder
  <1>1. CASE \/ RowOp \/ DeleteStep \/ NginxStop \/ NginxBoot \/ UNCHANGED vars
             \/ \E d \in Domains : SiteDelete(d)
    <2>1. ap' = ap /\ (NoApply \/ UNCHANGED <<rows, targets>>)
      BY <1>1, QuietAsking
    <2>2. CASE NoApply
      BY <2>1, <2>2, IdleFollows DEF NoApply, FollowInv, Forward
    <2>3. CASE UNCHANGED <<rows, targets>>
      BY <2>1, <2>3 DEF FollowInv, Asking, Asked, Rendered
    <2>4. QED
      BY <2>1, <2>2, <2>3
  <1>2. ASSUME NEW p \in Procs, StartApply(p) PROVE FollowInv'
    <2>1. /\ ap'[p].pc = "loop" /\ ap'[p].changed = {} /\ ap'[p].todo \subseteq Domains
          /\ \A d \in ap'[p].todo : ap'[p].snap[d] = rows[d]
      BY <1>2, CallOfStart
    <2>2. targets' = targets /\ Asking' = Asking
      BY <1>2, ApplyKeepsAsking
    <2>3. Follows(ap'[p], targets, Asking)
      BY <2>1, AskingIsWish DEF Follows
    <2>4. QED
      BY <1>0, <2>2, <2>3, FollowOfOne
  <1>3. ASSUME NEW p \in Procs, ApplyStep(p) PROVE FollowInv'
    BY <1>0, <1>3, ApplyStepFollows
  <1>4. ASSUME NEW p \in Procs, Crash(p) PROVE FollowInv'
    BY <1>0, <1>4 DEF Crash, SingleWorker
  <1>5. QED
    BY <1>1, <1>2, <1>3, <1>4 DEF Next

LEMMA FollowInvariant == KeepsOrder => (Spec => []FollowInv)
  <1> SUFFICES ASSUME KeepsOrder PROVE Spec => []FollowInv
    OBVIOUS
  <1>1. Init => FollowInv
    BY NoCallFields, IdleFollows DEF Init, FollowInv, Forward
  <1>2. TypeInv /\ CallInv /\ FollowInv /\ [Next]_vars => FollowInv'
    BY FollowStep DEF CallInv
  <1>3. Spec => []CallInv
    BY CallInvariant DEF KeepsOrder
  <1>4. QED
    BY <1>1, <1>2, <1>3, TypeInvariant, PTL DEF Spec

\* The verdict ok that nothing has made stale carries the text that the row
\* asks for: every path to UpdateApplyResult rendered the row as it is.
HashInv ==
    \A d \in Domains :
        rows[d].status = "ok" /\ ~rows[d].stale => rows[d].hash = Asking[d]

LEMMA RowOpHash ==
  ASSUME ProxyDomains = {}, TypeInv, HashInv, RowOp
  PROVE  HashInv'
  <1>0. rows \in [Domains -> Row]
    BY DEF TypeInv, TypeOK
  <1>1. ASSUME NEW d \in Domains
        PROVE  rows'[d] = rows[d] \/ rows'[d].stale
    <2>1. ASSUME NEW x \in Domains, NEW c \in Confs, NEW e \in BOOLEAN, UpsertSite(x, c, e)
          PROVE  rows'[d] = rows[d] \/ rows'[d].stale
      BY <1>0, <2>1 DEF UpsertSite, Row
    <2>2. ASSUME NEW x \in Domains, DisableSiteByDomain(x) \/ EnableSiteByDomain(x)
          PROVE  rows'[d] = rows[d] \/ rows'[d].stale
      BY <1>0, <2>2 DEF DisableSiteByDomain, EnableSiteByDomain, Row
    <2>3. ASSUME NEW x \in Domains, NEW c \in Confs, UpsertProxyTarget(x, c)
          PROVE  FALSE
      BY <2>3 DEF UpsertProxyTarget
    <2>4. QED
      BY <2>1, <2>2, <2>3 DEF RowOp
  <1>2. ASSUME NEW d \in Domains, rows'[d] = rows[d]
        PROVE  Asking'[d] = Asking[d]
    BY <1>2 DEF Asking, Asked, Rendered
  <1>3. QED
    BY <1>1, <1>2 DEF HashInv

LEMMA HashStep ==
  ASSUME KeepsOrder, ProxyDomains = {}, TypeInv, FollowInv, HashInv, [Next]_vars
  PROVE  HashInv'
  <1>1. CASE RowOp
    BY <1>1, RowOpHash
  <1>2. CASE DeleteSiteByDomain
    <2>1. ASSUME NEW d \in Domains
          PROVE  rows'[d] = rows[d] \/ rows'[d] = NoRow
      BY <1>2 DEF DeleteSiteByDomain, TypeInv, TypeOK
    <2>2. ASSUME NEW d \in Domains, rows'[d] = rows[d]
          PROVE  Asking'[d] = Asking[d]
      BY <2>2 DEF Asking, Asked, Rendered
    <2>3. QED
      BY <2>1, <2>2 DEF HashInv, NoRow
  <1>3. ASSUME NEW p \in Procs, RecordVerdict(p) PROVE HashInv'
    <2> DEFINE x == ap[p].cur
               v == ap[p].verdict
               h == ap[p].want[x]
    <2>1. ap[p].pc = "record" /\ x \in Domains /\ UpdateApplyResult(x, v, h)
      BY <1>3, CallOfRecord
    <2>2. v \in {"ok", "fail"} /\ h \in ConfOrNone
      BY <2>1, CallType
    <2>3. v = "ok" => h = Asking[x]
      BY <2>1 DEF FollowInv, Follows
    <2>4. Asking' = Asking
      BY <1>3, ApplyKeepsAsking DEF ApplyStep
    <2> HIDE DEF x, v, h
    <2>5. \A e \in Domains \ {x} : rows'[e] = rows[e]
      BY <2>1, <2>2, UpdateEffect
    <2>6. rows'[x] = rows[x] \/ (rows'[x].status = v /\ rows'[x].hash = h)
      BY <2>1, <2>2, UpdateEffect
    <2>7. QED
      BY <2>3, <2>4, <2>5, <2>6 DEF HashInv
  <1>4. ASSUME NEW p \in Procs, NEW x \in Domains, RecordFail(p, x) PROVE HashInv'
    <2>1. UpdateApplyResult(x, "fail", ap[p].want[x]) /\ ap[p].want[x] \in ConfOrNone
      BY <1>4, CallOfFail, CallType
    <2>2. Asking' = Asking
      BY <1>4, ApplyKeepsAsking DEF ApplyStep
    <2>3. \A e \in Domains \ {x} : rows'[e] = rows[e]
      BY <2>1, UpdateEffect
    <2>4. rows'[x] = rows[x] \/ rows'[x].status = "fail"
      BY <2>1, UpdateEffect
    <2>5. QED
      BY <2>2, <2>3, <2>4 DEF HashInv
  <1>5. CASE rows' = rows
    <2>1. Asking' = Asking
      BY <1>5 DEF Asking, Asked, Rendered
    <2>2. QED
      BY <1>5, <2>1 DEF HashInv
  <1>6. QED
    BY <1>1, <1>2, <1>3, <1>4, <1>5, RowsChange

\* A row that siteNeedsApply passes over has nothing pending: whatever the
\* operator did and whichever step failed, an ok that is not stale means that
\* the live file is what the row would render now.  Proxy sites are excluded:
\* proxy_targets are written without touching the row.
THEOREM NothingIsHidden ==
  KeepsVerdicts /\ Serial /\ ProxyDomains = {} => (Spec => []NothingPendingIsHidden)
  <1> SUFFICES ASSUME KeepsVerdicts, Serial, ProxyDomains = {}
               PROVE  Spec => []NothingPendingIsHidden
    OBVIOUS
  <1>0. KeepsOrder
    BY DEF KeepsOrder, KeepsVerdicts
  <1>1. Init => HashInv
    BY DEF Init, HashInv, NoRow
  <1>2. TypeInv /\ FollowInv /\ HashInv /\ [Next]_vars => HashInv'
    BY <1>0, HashStep
  <1>3. VerdictMatchesDisk /\ HashInv => NothingPendingIsHidden
    BY DEF VerdictMatchesDisk, HashInv, NothingPendingIsHidden, Configured, Asking
  <1>4. QED
    BY <1>0, <1>1, <1>2, <1>3, FollowInvariant, VerdictsMatch, TypeInvariant, PTL
       DEF Spec

-----------------------------------------------------------------------------
(* The pipeline implements NgmDirectory *)

KeepsPromise == KeepsServing /\ Serial

\* The three state functions that NgmDirectory sees.
DirectoryStep == Directory!Next \/ UNCHANGED <<Asking, running, bak>>

LEMMA StutterStep ==
  ASSUME UNCHANGED <<Asking, running, bak>>
  PROVE  DirectoryStep
  BY DEF DirectoryStep

LEMMA KeepStep ==
  ASSUME TypeInv, NEW d \in Domains, running[d] = live[d],
         bak' \in {bak, BackedUp(d)}, running' = running, Asking' = Asking
  PROVE  DirectoryStep
  <1>1. CASE bak' = bak
    BY <1>1, StutterStep
  <1>2. CASE live[d] # NoConf /\ bak' = [bak EXCEPT ![d] = live[d]]
    <2>1. Directory!Keep(d)
      BY <1>2 DEF Directory!Keep, Asking
    <2>2. QED
      BY <2>1 DEF DirectoryStep, Directory!Next
  <1>3. QED
    BY <1>1, <1>2 DEF BackedUp

LEMMA AskStep ==
  ASSUME NEW d \in Domains, NEW c \in Confs \cup {NoConf},
         Asking' = [Asking EXCEPT ![d] = c], running' = running, bak' = bak
  PROVE  DirectoryStep
  <1>1. Directory!Ask(d, c)
    BY DEF Directory!Ask, Asking
  <1>2. QED
    BY <1>1 DEF DirectoryStep, Directory!Next

\* Whoever changes one row, or its targets, changes what one site asks for.
LEMMA OneAsks ==
  ASSUME TypeInv, TypeInv', NEW d \in Domains,
         \A e \in Domains : e # d => rows'[e] = rows[e] /\ targets'[e] = targets[e],
         running' = running, bak' = bak
  PROVE  DirectoryStep
  <1> DEFINE c == Asking'[d]
  <1>1. c \in Confs \cup {NoConf}
    <2>1. rows'[d] \in Row /\ targets'[d] \in ConfOrNone
      BY DEF TypeInv, TypeOK
    <2>2. c = IF rows'[d].site = "enabled"
              THEN IF d \in ProxyDomains THEN targets'[d] ELSE rows'[d].conf
              ELSE NoConf
      BY DEF Asking, Asked, Rendered
    <2>3. QED
      BY <2>1, <2>2 DEF Row, ConfOrNone
  <1>2. Asking' = [Asking EXCEPT ![d] = c]
    BY DEF Asking, Asked, Rendered
  <1> HIDE DEF c
  <1>3. QED
    BY <1>1, <1>2, AskStep

LEMMA RowOpAsks ==
  ASSUME TypeInv, TypeInv', RowOp
  PROVE  DirectoryStep
  <1>0. /\ rows \in [Domains -> Row] /\ targets \in [Domains -> ConfOrNone]
        /\ running' = running /\ bak' = bak
    BY DEF TypeInv, TypeOK, RowOp, UpsertSite, UpsertProxyTarget, nginx, files,
           DisableSiteByDomain, EnableSiteByDomain
  <1>1. PICK d \in Domains :
           \A e \in Domains : e # d => rows'[e] = rows[e] /\ targets'[e] = targets[e]
    BY <1>0 DEF RowOp, UpsertSite, UpsertProxyTarget, DisableSiteByDomain,
                EnableSiteByDomain
  <1>2. QED
    BY <1>0, <1>1, OneAsks

\* Each copy is of what is served: the file was live when the call began, and
\* nginx has loaded nothing since.
LEMMA WriteKeeps ==
  ASSUME KeepsPromise, TypeInv, CallInv, ServedInv, NEW p \in Procs,
         NEW d \in Domains, ApplyStep(p),
         stageDeleteLiveConf(p, d) \/ (Publish(p) /\ d = ap[p].cur)
  PROVE  DirectoryStep
  <1> DEFINE c == ap[p]
             t == FileText(c, d)
  <1>1. /\ FileStep(c, ap'[p], d, t) /\ running' = running
        /\ \/ c.pc = "loop" /\ d \in c.todo
           \/ c.pc = "publish" /\ d = c.cur
    BY CallOfWrite DEF CallInv, AimInv, nginx
  <1>2. MayWrite(c, d) /\ Tracks(c, live, bak)
    BY <1>1, WriteIsNew DEF CallInv, SafeInv, TrackInv
  <1>3. running = c.before
    BY <1>1 DEF ServedInv, Waiting
  <1>4. live[d] = running[d]
    BY <1>1, <1>2, <1>3 DEF MayWrite, Tracks
  <1>5. bak' \in {bak, BackedUp(d)}
    BY <1>1 DEF FileStep
  <1>6. Asking' = Asking
    BY ApplyKeepsAsking
  <1>7. QED
    BY <1>1, <1>4, <1>5, <1>6, KeepStep

\* The reload installs what the rows ask for, all of it at once.
LEMMA ReloadInstalls ==
  ASSUME KeepsPromise, TypeInv, CallInv, ServedInv, FollowInv, NEW p \in Procs,
         ApplyStep(p), ReloadNginx(p)
  PROVE  DirectoryStep
  <1> DEFINE S == ap[p].changed
  <1>1. ap[p].pc = "reload" /\ bak' = bak /\ Valid(live)
    BY CallOfReload, LoadIsValid DEF files, CallInv, KeepsPromise, KeepsServing
  <1>2. running' = live
    <2>1. ReloadOrStart(TRUE) \/ ReloadOrStart(FALSE)
      BY CallOfReload
    <2>2. QED
      BY <1>1, <2>1, LoadEffect DEF KeepsPromise, KeepsServing, ServedInv
  <1>3. running = ap[p].before /\ Tracks(ap[p], live, bak)
    BY <1>1 DEF ServedInv, Waiting, CallInv, TrackInv
  <1>4. \A d \in S : d \in Domains /\ live[d] = Asked(d)
    <2>1. Follows(ap[p], targets, Asking) /\ S \subseteq Domains
      BY CallType DEF FollowInv
    <2>2. QED
      BY <1>1, <1>3, <2>1 DEF Follows, Tracks, Forward, Asking
  <1>5. \A d \in Domains : d \notin S => live[d] = running[d]
    BY <1>1, <1>3 DEF Tracks
  <1>6. \A d \in S : Asked(d) \in Good \cup {NoConf}
    BY <1>1, <1>4 DEF Valid
  <1>7. S \in SUBSET Domains /\ Asking' = Asking
    BY CallType, ApplyKeepsAsking
  <1>8. live = [d \in Domains |-> IF d \in S THEN Asking[d] ELSE running[d]]
    BY <1>4, <1>5 DEF TypeInv, TypeOK, Asking
  <1> HIDE DEF S
  <1>9. Directory!Install(S)
    BY <1>1, <1>2, <1>6, <1>7, <1>8 DEF Directory!Install, Asking
  <1>10. QED
    BY <1>7, <1>9 DEF DirectoryStep, Directory!Next

\* The reload after a rollback changes what is served only for a site that had
\* no vhost and has an old backup.
LEMMA RecoverGoesBack ==
  ASSUME KeepsPromise, TypeInv, CallInv, ServedInv, NEW p \in Procs,
         ApplyStep(p), RecoverReload(p)
  PROVE  DirectoryStep
  <1> DEFINE S == {d \in Domains : live[d] # running[d]}
  <1>1. ap[p].pc = "recover" /\ bak' = bak /\ Valid(live)
    BY CallOfRecover, LoadIsValid DEF files, CallInv, KeepsPromise, KeepsServing
  <1>2. running' = live
    BY <1>1, CallOfRecover, LoadEffect DEF KeepsPromise, KeepsServing, ServedInv
  <1>3. running = ap[p].before /\ Tracks(ap[p], live, bak)
    BY <1>1 DEF ServedInv, Waiting, CallInv, TrackInv
  <1>4. \A d \in S : running[d] = NoConf /\ live[d] = bak[d] /\ bak[d] # NoConf
    BY <1>1, <1>3 DEF Tracks, Back
  <1>5. live = [d \in Domains |-> IF d \in S THEN bak[d] ELSE running[d]]
    BY <1>4 DEF TypeInv, TypeOK
  <1>6. S \in SUBSET Domains /\ Asking' = Asking
    BY ApplyKeepsAsking
  <1> HIDE DEF S
  <1>7. Directory!GoBack(S)
    BY <1>1, <1>2, <1>4, <1>5, <1>6 DEF Directory!GoBack, Asking
  <1>8. QED
    BY <1>6, <1>7 DEF DirectoryStep, Directory!Next

LEMMA ApplyRefines ==
  ASSUME KeepsPromise, TypeInv, CallInv, ServedInv, FollowInv, NEW p \in Procs,
         ApplyStep(p)
  PROVE  DirectoryStep
  <1>0. Asking' = Asking
    BY ApplyKeepsAsking
  <1>1. ASSUME NEW d \in Domains,
               \/ SkipSite(p, d) \/ RenderSiteToStaging(p, d)
               \/ rollbackFromBackup(p, d) \/ RecordFail(p, d)
        PROVE  DirectoryStep
    BY <1>0, <1>1, CallOfSkip, CallOfRender, CallOfRollback, CallOfFail, StutterStep
       DEF files, nginx
  <1>2. CASE RecordVerdict(p) \/ EndLoop(p) \/ TestBeforeReload(p)
    BY <1>0, <1>2, CallOfRecord, CallOfEnd, CallOfTest, StutterStep DEF files, nginx
  <1>3. CASE ReloadNginx(p)
    BY <1>3, ReloadInstalls
  <1>4. CASE RecoverReload(p)
    BY <1>4, RecoverGoesBack
  <1>5. ASSUME NEW d \in Domains, stageDeleteLiveConf(p, d) PROVE DirectoryStep
    BY <1>5, WriteKeeps
  <1>6. CASE Publish(p)
    BY <1>6, CallType, WriteKeeps DEF Publish, CurIsDomain
  <1>7. QED
    BY <1>1, <1>2, <1>3, <1>4, <1>5, <1>6 DEF ApplyStep

\* SiteDelete copies what is served, has it withdrawn, and unasks for it.
LEMMA DeleteRefines ==
  ASSUME KeepsPromise, TypeInv, TypeInv', CallInv, ServedInv, PresentInv,
         DeleteStep \/ \E d \in Domains : SiteDelete(d)
  PROVE  DirectoryStep
  <1>0. SingleWorker /\ "reload" \notin Faults
    BY DEF KeepsPromise, KeepsServing
  <1>1. ASSUME NEW d \in Domains, SiteDelete(d) PROVE DirectoryStep
    <2>1. NoApply /\ del.pc = "idle" /\ running' = running /\ UNCHANGED db
          /\ bak' \in {bak, BackedUp(d)}
      BY <1>0, <1>1 DEF SingleWorker, SiteDelete, SwapLive, Accepts, Quiet, nginx
    <2>2. running[d] = live[d]
      BY <2>1 DEF ServedInv, NoApply, Waiting
    <2>3. Asking' = Asking
      BY <2>1 DEF Asking, Asked, Rendered, db
    <2>4. QED
      BY <2>1, <2>2, <2>3, KeepStep
  <1>2. CASE SiteDeleteReload
    <2> DEFINE d == del.dom
    <2>1. NoApply /\ bak' = bak /\ UNCHANGED db /\ del.pc = "reload" /\ d \in Domains
          /\ live' = live
      BY <1>2, ConstantsAssumption DEF SiteDeleteReload, CallInv, StoreInv, DeleteBusy, files
    <2>2. running' = live
      <3>1. Valid(live)
        BY <2>1, RestIsFine DEF CallInv, Valid, Fine
      <3>2. QED
        BY <1>0, <1>2, <3>1, LoadEffect DEF SiteDeleteReload, ServedInv
    <2>3. \A e \in Domains : e # d => live[e] = running[e]
      BY <2>1 DEF ServedInv, NoApply, Waiting
    <2>4. live[d] = NoConf
      BY <2>1 DEF PresentInv, DeleteBusy
    <2>5. live = [running EXCEPT ![d] = NoConf]
      BY <2>1, <2>3, <2>4 DEF TypeInv, TypeOK
    <2>6. Asking' = Asking
      BY <2>1 DEF Asking, Asked, Rendered, db
    <2> HIDE DEF d
    <2>7. Directory!Withdraw(d)
      BY <2>1, <2>2, <2>5, <2>6 DEF Directory!Withdraw, Asking
    <2>8. QED
      BY <2>1, <2>7 DEF DirectoryStep, Directory!Next
  <1>3. CASE DeleteSiteByDomain
    <2>1. /\ running' = running /\ bak' = bak
          /\ rows' = [rows EXCEPT ![del.dom] = NoRow]
          /\ targets' = [targets EXCEPT ![del.dom] = NoConf]
      BY <1>3 DEF DeleteSiteByDomain, files, nginx
    <2>2. del.dom \in Domains
      BY <1>3, ConstantsAssumption DEF DeleteSiteByDomain, CallInv, StoreInv, DeleteBusy
    <2>3. \A e \in Domains : e # del.dom => rows'[e] = rows[e] /\ targets'[e] = targets[e]
      BY <2>1 DEF TypeInv, TypeOK
    <2>4. QED
      BY <2>1, <2>2, <2>3, OneAsks
  <1>4. QED
    BY <1>1, <1>2, <1>3 DEF DeleteStep

LEMMA RefinementStep ==
  ASSUME KeepsPromise, TypeInv, TypeInv', CallInv, ServedInv, FollowInv, PresentInv,
         [Next]_vars
  PROVE  DirectoryStep
  <1>0. SingleWorker
    BY DEF KeepsPromise, KeepsServing
  <1>1. CASE RowOp
    BY <1>1, RowOpAsks
  <1>2. ASSUME NEW p \in Procs, StartApply(p) PROVE DirectoryStep
    BY <1>2, CallOfStart, ApplyKeepsAsking, StutterStep DEF files, nginx
  <1>3. ASSUME NEW p \in Procs, ApplyStep(p) PROVE DirectoryStep
    BY <1>3, ApplyRefines
  <1>4. ASSUME NEW p \in Procs, Crash(p) PROVE DirectoryStep
    BY <1>0, <1>4 DEF Crash, SingleWorker
  <1>5. CASE DeleteStep \/ \E d \in Domains : SiteDelete(d)
    BY <1>5, DeleteRefines
  <1>6. CASE NginxStop \/ NginxBoot
    BY <1>6 DEF NginxStop, NginxBoot, KeepsPromise, KeepsServing
  <1>7. CASE UNCHANGED vars
    BY <1>7, StutterStep DEF vars, Asking, Asked, Rendered
  <1>8. QED
    BY <1>1, <1>2, <1>3, <1>4, <1>5, <1>6, <1>7 DEF Next

\* The pipeline, with its staging, loop, test and rollback, is the directory of
\* NgmDirectory: seen from the rows and from nginx, vhosts change only by
\* being asked for, installed as asked, withdrawn, or put back from the copy of
\* what was served, for any number of sites and whichever single step fails.
THEOREM Refinement == KeepsPromise => (Spec => ImplementsDirectory)
  <1> SUFFICES ASSUME KeepsPromise PROVE Spec => ImplementsDirectory
    OBVIOUS
  <1>0. KeepsServing /\ KeepsOrder /\ SingleWorker
    BY DEF KeepsPromise, KeepsServing, KeepsOrder
  <1>1. Init => Directory!Init
    BY DEF Init, Directory!Init, Asked, NoRow
  <1>2. /\ TypeInv /\ TypeInv' /\ CallInv /\ ServedInv /\ FollowInv /\ PresentInv
        /\ [Next]_vars
        => [Directory!Next]_Directory!vars
    BY RefinementStep DEF DirectoryStep, Directory!vars, Asking
  <1>3. Spec => [](CallInv /\ ServedInv /\ FollowInv /\ PresentInv)
    BY <1>0, CallInvariant, ServedInvariant, FollowInvariant, PresentInvariant, PTL
  <1>4. QED
    BY <1>1, <1>2, <1>3, TypeInvariant, PTL
       DEF Spec, ImplementsDirectory, Directory!Spec

=============================================================================
