--------------------------- MODULE NgmApplyProofs ---------------------------
(***************************************************************************)
(* Theorems about the apply pipeline of NgmApply, for every set of sites,  *)
(* processes and vhost texts.                                              *)
(***************************************************************************)
EXTENDS NgmApply, TLAPS

-----------------------------------------------------------------------------
(* Type correctness *)

\* TypeOK is not inductive: a step that handles cur must know that cur is a
\* domain, and applyOne reaches its test with the domain it wrote.
CurIsDomain(c) ==
    /\ c.pc \in {"publish", "record"} => c.cur \in Domains
    /\ c.mode = "one" /\ c.pc \in {"test", "reload"} => c.cur \in Domains
    /\ c.mode = "one" /\ c.pc = "loop" => c.changed = {}

TypeInv == TypeOK /\ \A p \in Procs : CurIsDomain(ap[p])

LEMMA NoRowType == NoRow \in Row
  BY DEF NoRow, Row, ConfOrNone

LEMMA NoCallType == NoCall \in ApplyCall /\ CurIsDomain(NoCall)
  BY NoRowType DEF NoCall, ApplyCall, CurIsDomain, ConfOrNone

LEMMA BecomesType ==
  ASSUME TypeInv, NEW p \in Procs, NEW r \in ApplyCall, CurIsDomain(r), Becomes(p, r)
  PROVE  ap' \in [Procs -> ApplyCall] /\ \A q \in Procs : CurIsDomain(ap'[q])
  BY DEF TypeInv, TypeOK, Becomes

LEMMA UpdateType ==
  ASSUME TypeOK, NEW d \in Domains, NEW s \in {"none", "ok", "fail"},
         NEW h \in ConfOrNone, UpdateApplyResult(d, s, h)
  PROVE  rows' \in [Domains -> Row]
  <1>1. CASE UNCHANGED rows
    BY <1>1 DEF TypeOK
  <1>2. CASE ~UNCHANGED rows
    <2>1. rows' = IF rows[d].site = "absent" THEN rows
                  ELSE [rows EXCEPT ![d] = [@ EXCEPT !.status = s,
                                                     !.stale = FALSE,
                                                     !.hash = h]]
      BY <1>2 DEF UpdateApplyResult
    <2>2. rows[d] \in Row
      BY DEF TypeOK
    <2>3. [rows[d] EXCEPT !.status = s, !.stale = FALSE, !.hash = h] \in Row
      BY <2>2 DEF Row
    <2>4. [rows EXCEPT ![d] = [rows[d] EXCEPT !.status = s, !.stale = FALSE,
                                              !.hash = h]] \in [Domains -> Row]
      BY <2>3 DEF TypeOK
    <2>5. QED
      BY <2>1, <2>4 DEF TypeOK
  <1>3. QED
    BY <1>1, <1>2

LEMMA SwapType ==
  ASSUME TypeOK, NEW d \in Domains, NEW c \in ConfOrNone, NEW ok \in BOOLEAN,
         SwapLive(d, c, ok)
  PROVE  live' \in [Domains -> ConfOrNone] /\ bak' \in [Domains -> ConfOrNone]
  BY DEF TypeOK, SwapLive, BackedUp

LEMMA LoadType ==
  ASSUME TypeOK, NEW ok \in BOOLEAN, LoadLive(ok)
  PROVE  up' \in BOOLEAN /\ running' \in [Domains -> ConfOrNone]
  BY DEF TypeOK, LoadLive, nginx

LEMMA WroteType ==
  ASSUME NEW c \in ApplyCall, NEW d \in Domains, NEW t \in ConfOrNone,
         NEW s \in BOOLEAN
  PROVE  Wrote(c, d, t, s) \in ApplyCall /\ CurIsDomain(Wrote(c, d, t, s))
  BY DEF ApplyCall, Wrote, CurIsDomain

LEMMA FailedType ==
  ASSUME NEW c \in ApplyCall, NEW d \in Domains, NEW t \in ConfOrNone
  PROVE  Failed(c, d, t) \in ApplyCall /\ CurIsDomain(Failed(c, d, t))
  BY DEF ApplyCall, Failed, CurIsDomain

LEMMA RollingBackType ==
  ASSUME NEW c \in ApplyCall
  PROVE  RollingBack(c) \in ApplyCall /\ CurIsDomain(RollingBack(c))
  BY DEF ApplyCall, RollingBack, CurIsDomain

LEMMA InitType == Init => TypeInv
  BY NoRowType, NoCallType, ConstantsAssumption
     DEF Init, TypeInv, TypeOK, NoDelete, ConfOrNone

LEMMA WriteRowType ==
  ASSUME TypeOK, NEW d \in Domains, NEW r \in Row
  PROVE  [rows EXCEPT ![d] = r] \in [Domains -> Row]
  BY DEF TypeOK

LEMMA SavedType ==
  ASSUME TypeOK, NEW d \in Domains, NEW c \in ConfOrNone, NEW e \in BOOLEAN
  PROVE  [rows[d] EXCEPT !.site = IF e THEN "enabled" ELSE "disabled",
                         !.conf = IF d \in ProxyDomains THEN NoConf ELSE c,
                         !.stale = TRUE] \in Row
  <1> DEFINE s == IF e THEN "enabled" ELSE "disabled"
             x == IF d \in ProxyDomains THEN NoConf ELSE c
  <1>1. s \in {"absent", "enabled", "disabled"} /\ x \in ConfOrNone
    BY DEF ConfOrNone
  <1>2. rows[d] \in Row
    BY DEF TypeOK
  <1> HIDE DEF s, x
  <1>3. [rows[d] EXCEPT !.site = s, !.conf = x, !.stale = TRUE] \in Row
    BY <1>1, <1>2 DEF Row
  <1>4. QED
    BY <1>3 DEF s, x

LEMMA ToggledType ==
  ASSUME TypeOK, NEW d \in Domains, NEW s \in {"enabled", "disabled"}
  PROVE  [rows[d] EXCEPT !.site = s, !.stale = TRUE] \in Row
  <1>1. rows[d] \in Row
    BY DEF TypeOK
  <1>2. QED
    BY <1>1 DEF Row

LEMMA RowOpType == ASSUME TypeInv, RowOp PROVE TypeInv'
  <1> USE ConstantsAssumption DEF files, nginx, Spend, ConfOrNone
  <1>1. ASSUME NEW d \in Domains, NEW c \in Confs, NEW e \in BOOLEAN, UpsertSite(d, c, e)
        PROVE  TypeInv'
    <2>1. rows' \in [Domains -> Row]
      BY <1>1, SavedType, WriteRowType DEF TypeInv, UpsertSite
    <2>2. QED
      BY <1>1, <2>1 DEF TypeInv, TypeOK, UpsertSite
  <1>2. ASSUME NEW d \in Domains, NEW c \in Confs, UpsertProxyTarget(d, c)
        PROVE  TypeInv'
    BY <1>2 DEF TypeInv, TypeOK, UpsertProxyTarget
  <1>3. ASSUME NEW d \in Domains, DisableSiteByDomain(d) PROVE TypeInv'
    <2>1. rows' \in [Domains -> Row]
      BY <1>3, ToggledType, WriteRowType DEF TypeInv, DisableSiteByDomain
    <2>2. QED
      BY <1>3, <2>1 DEF TypeInv, TypeOK, DisableSiteByDomain
  <1>4. ASSUME NEW d \in Domains, EnableSiteByDomain(d) PROVE TypeInv'
    <2>1. rows' \in [Domains -> Row]
      BY <1>4, ToggledType, WriteRowType DEF TypeInv, EnableSiteByDomain
    <2>2. QED
      BY <1>4, <2>1 DEF TypeInv, TypeOK, EnableSiteByDomain
  <1>5. QED
    BY <1>1, <1>2, <1>3, <1>4 DEF RowOp

LEMMA StartType == ASSUME TypeInv, NEW p \in Procs, StartApply(p) PROVE TypeInv'
  <1> USE ConstantsAssumption DEF files, nginx, db
  <1>1. ASSUME NEW all \in BOOLEAN, NEW limit \in Limits, StartBatch(p, all, limit)
        PROVE  TypeInv'
    <2> DEFINE r == [NoCall EXCEPT !.pc = "loop", !.all = all, !.limit = limit,
                        !.snap = rows,
                        !.todo = {d \in Domains : rows[d].site # "absent"},
                        !.before = live]
    <2>1. r \in ApplyCall /\ CurIsDomain(r)
      BY NoCallType DEF TypeInv, TypeOK, ApplyCall, CurIsDomain, NoCall
    <2>2. Becomes(p, r)
      BY <1>1 DEF StartBatch
    <2>3. QED
      BY <1>1, <2>1, <2>2, BecomesType DEF TypeInv, TypeOK, StartBatch
  <1>2. ASSUME NEW d \in Domains, StartOne(p, d) PROVE TypeInv'
    <2> DEFINE r == [NoCall EXCEPT !.pc = "loop", !.mode = "one", !.all = TRUE,
                        !.snap = [@ EXCEPT ![d] = rows[d]],
                        !.todo = {d}, !.before = live]
    <2>1. r \in ApplyCall /\ CurIsDomain(r)
      BY NoCallType DEF TypeInv, TypeOK, ApplyCall, CurIsDomain, NoCall
    <2>2. Becomes(p, r)
      BY <1>2 DEF StartOne
    <2>3. QED
      BY <1>2, <2>1, <2>2, BecomesType DEF TypeInv, TypeOK, StartOne
  <1>3. QED
    BY <1>1, <1>2 DEF StartApply

LEMMA LoopType ==
  ASSUME TypeInv, NEW p \in Procs, NEW d \in Domains,
         SkipSite(p, d) \/ stageDeleteLiveConf(p, d) \/ RenderSiteToStaging(p, d)
  PROVE  TypeInv'
  <1> USE ConstantsAssumption DEF files, nginx, db
  <1>0. ap[p] \in ApplyCall /\ CurIsDomain(ap[p]) /\ NoConf \in ConfOrNone
    BY DEF TypeInv, TypeOK, ConfOrNone
  <1>1. CASE SkipSite(p, d)
    <2> DEFINE r == [ap[p] EXCEPT !.todo = @ \ {d}]
    <2>1. r \in ApplyCall /\ CurIsDomain(r)
      BY <1>0 DEF ApplyCall, CurIsDomain
    <2>2. Becomes(p, r)
      BY <1>1 DEF SkipSite
    <2>3. QED
      BY <1>1, <2>1, <2>2, BecomesType DEF TypeInv, TypeOK, SkipSite
  <1>2. CASE stageDeleteLiveConf(p, d)
    <2>1. PICK r \in ApplyCall : CurIsDomain(r) /\ Becomes(p, r)
      BY <1>0, <1>2, NoCallType, WroteType, FailedType DEF stageDeleteLiveConf
    <2>2. live' \in [Domains -> ConfOrNone] /\ bak' \in [Domains -> ConfOrNone]
      BY <1>0, <1>2, SwapType DEF stageDeleteLiveConf, TypeInv, TypeOK
    <2>3. QED
      BY <1>2, <2>1, <2>2, BecomesType DEF TypeInv, TypeOK, stageDeleteLiveConf
  <1>3. CASE RenderSiteToStaging(p, d)
    <2> DEFINE text == Rendered(d, ap[p].snap[d])
               r == [ap[p] EXCEPT !.pc = "publish", !.cur = d, !.want[d] = text]
    <2>1. text \in ConfOrNone
      BY <1>0 DEF Rendered, TypeInv, TypeOK, ApplyCall, Row
    <2>2. r \in ApplyCall /\ CurIsDomain(r)
      BY <1>0, <2>1 DEF ApplyCall, CurIsDomain
    <2>3. ap' \in [Procs -> ApplyCall] /\ \A q \in Procs : CurIsDomain(ap'[q])
      BY <1>0, <1>3, <2>2, FailedType, BecomesType DEF RenderSiteToStaging
    <2>4. stage' \in [Domains -> ConfOrNone]
      BY <1>3, <2>1 DEF RenderSiteToStaging, TypeInv, TypeOK
    <2>5. QED
      BY <1>3, <2>3, <2>4 DEF TypeInv, TypeOK, RenderSiteToStaging
  <1>4. QED
    BY <1>1, <1>2, <1>3

LEMMA RecordType ==
  ASSUME TypeInv, NEW p \in Procs, RecordVerdict(p) \/ Publish(p) \/ EndLoop(p)
  PROVE  TypeInv'
  <1> USE ConstantsAssumption DEF files, nginx, db
  <1>0. ap[p] \in ApplyCall /\ CurIsDomain(ap[p])
    BY DEF TypeInv, TypeOK
  <1>1. CASE RecordVerdict(p)
    <2> DEFINE r == [ap[p] EXCEPT !.pc = "loop", !.todo = @ \ {ap[p].cur},
                                  !.applied = @ + 1]
    <2>1. ap[p].cur \in Domains /\ ap[p].want[ap[p].cur] \in ConfOrNone
          /\ ap[p].verdict \in {"none", "ok", "fail"}
      BY <1>0, <1>1 DEF RecordVerdict, CurIsDomain, ApplyCall
    <2>2. rows' \in [Domains -> Row]
      BY <1>1, <2>1, UpdateType DEF RecordVerdict, TypeInv
    <2>3. r \in ApplyCall
      <3>1. ap[p].applied + 1 \in Nat /\ ap[p].todo \ {ap[p].cur} \in SUBSET Domains
        BY <1>0 DEF ApplyCall
      <3>2. QED
        BY <1>0, <3>1 DEF ApplyCall
    <2>4. ap[p].mode # "one" => CurIsDomain(r)
      BY <1>0 DEF CurIsDomain, ApplyCall
    <2>5. ap' \in [Procs -> ApplyCall] /\ \A q \in Procs : CurIsDomain(ap'[q])
      BY <1>1, <2>3, <2>4, NoCallType, BecomesType DEF RecordVerdict
    <2>6. QED
      BY <1>1, <2>2, <2>5 DEF TypeInv, TypeOK, RecordVerdict
  <1>2. CASE Publish(p)
    <2>1. ap[p].cur \in Domains /\ ap[p].want[ap[p].cur] \in ConfOrNone
          /\ stage[ap[p].cur] \in ConfOrNone
      BY <1>0, <1>2 DEF Publish, CurIsDomain, ApplyCall, TypeInv, TypeOK
    <2>2. live' \in [Domains -> ConfOrNone] /\ bak' \in [Domains -> ConfOrNone]
      BY <1>2, <2>1, SwapType DEF Publish, TypeInv, TypeOK
    <2>3. PICK r \in ApplyCall : CurIsDomain(r) /\ Becomes(p, r)
      BY <1>0, <1>2, <2>1, WroteType, FailedType DEF Publish
    <2>4. QED
      BY <1>2, <2>2, <2>3, BecomesType DEF TypeInv, TypeOK, Publish
  <1>3. CASE EndLoop(p)
    <2> DEFINE r == [ap[p] EXCEPT !.pc = "test", !.todo = {}]
    <2>1. r \in ApplyCall
      BY <1>0 DEF ApplyCall
    <2>2. ap[p].changed # {} => CurIsDomain(r)
      BY <1>0, <1>3 DEF EndLoop, CurIsDomain, ApplyCall
    <2>3. ap' \in [Procs -> ApplyCall] /\ \A q \in Procs : CurIsDomain(ap'[q])
      BY <1>3, <2>1, <2>2, NoCallType, BecomesType DEF EndLoop
    <2>4. QED
      BY <1>3, <2>3 DEF TypeInv, TypeOK, EndLoop
  <1>4. QED
    BY <1>1, <1>2, <1>3

LEMMA ReloadType ==
  ASSUME TypeInv, NEW p \in Procs,
         TestBeforeReload(p) \/ ReloadNginx(p) \/ RecoverReload(p)
  PROVE  TypeInv'
  <1> USE ConstantsAssumption DEF files, db
  <1>0. ap[p] \in ApplyCall /\ CurIsDomain(ap[p])
    BY DEF TypeInv, TypeOK
  <1>1. CASE TestBeforeReload(p)
    <2> DEFINE r == [ap[p] EXCEPT !.pc = "reload"]
    <2>1. r \in ApplyCall /\ CurIsDomain(r)
      BY <1>0, <1>1 DEF TestBeforeReload, ApplyCall, CurIsDomain
    <2>2. ap' \in [Procs -> ApplyCall] /\ \A q \in Procs : CurIsDomain(ap'[q])
      BY <1>0, <1>1, <2>1, RollingBackType, BecomesType DEF TestBeforeReload
    <2>3. QED
      BY <1>1, <2>2 DEF TypeInv, TypeOK, TestBeforeReload, nginx
  <1>2. CASE ReloadNginx(p)
    <2> DEFINE r == [ap[p] EXCEPT !.pc = "record"]
    <2>1. r \in ApplyCall
      BY <1>0 DEF ApplyCall
    <2>2. ap[p].mode # "batch" => CurIsDomain(r)
      BY <1>0, <1>2 DEF ReloadNginx, ApplyCall, CurIsDomain
    <2>3. ap' \in [Procs -> ApplyCall] /\ \A q \in Procs : CurIsDomain(ap'[q])
      BY <1>0, <1>2, <2>1, <2>2, RollingBackType, NoCallType, BecomesType
         DEF ReloadNginx
    <2>4. up' \in BOOLEAN /\ running' \in [Domains -> ConfOrNone]
      BY <1>2, LoadType DEF ReloadNginx, ReloadOrStart, TypeInv, TypeOK, nginx
    <2>5. QED
      BY <1>2, <2>3, <2>4 DEF TypeInv, TypeOK, ReloadNginx
  <1>3. CASE RecoverReload(p)
    <2> DEFINE r == [ap[p] EXCEPT !.pc = "fail", !.todo = ap[p].changed]
    <2>1. r \in ApplyCall /\ CurIsDomain(r)
      BY <1>0 DEF ApplyCall, CurIsDomain
    <2>2. ap' \in [Procs -> ApplyCall] /\ \A q \in Procs : CurIsDomain(ap'[q])
      BY <1>3, <2>1, BecomesType DEF RecoverReload
    <2>3. up' \in BOOLEAN /\ running' \in [Domains -> ConfOrNone]
      BY <1>3, LoadType DEF RecoverReload, ReloadOrStart, TypeInv, TypeOK, nginx
    <2>4. QED
      BY <1>3, <2>2, <2>3 DEF TypeInv, TypeOK, RecoverReload
  <1>4. QED
    BY <1>1, <1>2, <1>3

LEMMA RollbackType ==
  ASSUME TypeInv, NEW p \in Procs, NEW d \in Domains,
         rollbackFromBackup(p, d) \/ RecordFail(p, d)
  PROVE  TypeInv'
  <1> USE ConstantsAssumption DEF files, nginx, db
  <1>0. ap[p] \in ApplyCall /\ CurIsDomain(ap[p])
    BY DEF TypeInv, TypeOK
  <1>1. CASE rollbackFromBackup(p, d)
    <2> DEFINE r == [ap[p] EXCEPT !.todo = @ \ {d},
                       !.pc = IF ap[p].todo = {d} THEN "recover" ELSE @]
    <2>1. r \in ApplyCall /\ CurIsDomain(r)
      BY <1>0, <1>1 DEF rollbackFromBackup, ApplyCall, CurIsDomain
    <2>2. ap' \in [Procs -> ApplyCall] /\ \A q \in Procs : CurIsDomain(ap'[q])
      BY <1>1, <2>1, BecomesType DEF rollbackFromBackup
    <2>3. live' \in [Domains -> ConfOrNone]
      <3>1. NoConf \in ConfOrNone /\ live \in [Domains -> ConfOrNone]
            /\ bak[d] \in ConfOrNone
        BY DEF TypeInv, TypeOK, ConfOrNone
      <3>2. \/ live' = [live EXCEPT ![d] = bak[d]]
            \/ live' = [live EXCEPT ![d] = NoConf]
            \/ live' = live
        BY <1>1 DEF rollbackFromBackup
      <3>3. QED
        BY <3>1, <3>2
    <2>4. QED
      BY <1>1, <2>2, <2>3 DEF TypeInv, TypeOK, rollbackFromBackup
  <1>2. CASE RecordFail(p, d)
    <2> DEFINE r == [ap[p] EXCEPT !.todo = @ \ {d}]
    <2>1. r \in ApplyCall /\ CurIsDomain(r)
      BY <1>0, <1>2 DEF RecordFail, ApplyCall, CurIsDomain
    <2>2. ap' \in [Procs -> ApplyCall] /\ \A q \in Procs : CurIsDomain(ap'[q])
      BY <1>2, <2>1, NoCallType, BecomesType DEF RecordFail
    <2>3. ap[p].want[d] \in ConfOrNone
      BY <1>0 DEF ApplyCall
    <2>4. rows' \in [Domains -> Row]
      BY <1>2, <2>3, UpdateType DEF RecordFail, TypeInv
    <2>5. QED
      BY <1>2, <2>2, <2>4 DEF TypeInv, TypeOK, RecordFail
  <1>3. QED
    BY <1>1, <1>2

LEMMA DeleteType ==
  ASSUME TypeInv, (\E d \in Domains : SiteDelete(d)) \/ DeleteStep
  PROVE  TypeInv'
  <1> USE ConstantsAssumption DEF files, nginx, db
  <1>0. NoConf \in ConfOrNone
    BY DEF ConfOrNone
  <1>1. ASSUME NEW d \in Domains, SiteDelete(d) PROVE TypeInv'
    <2>1. live' \in [Domains -> ConfOrNone] /\ bak' \in [Domains -> ConfOrNone]
      BY <1>0, <1>1, SwapType DEF SiteDelete, TypeInv
    <2>2. del' \in [pc : {"idle", "reload", "row"}, dom : Domains \cup {NoConf}]
      <3>1. del' = [pc |-> "reload", dom |-> d] \/ del' = del
        BY <1>1 DEF SiteDelete
      <3>2. QED
        BY <3>1 DEF TypeInv, TypeOK
    <2>3. QED
      BY <1>1, <2>1, <2>2 DEF SiteDelete, TypeInv, TypeOK
  <1>2. CASE SiteDeleteReload
    <2>1. up' \in BOOLEAN /\ running' \in [Domains -> ConfOrNone]
      BY <1>2, LoadType DEF SiteDeleteReload, Reload, TypeInv, TypeOK
    <2>2. del' \in [pc : {"idle", "reload", "row"}, dom : Domains \cup {NoConf}]
      BY <1>2 DEF SiteDeleteReload, NoDelete, TypeInv, TypeOK
    <2>3. QED
      BY <1>2, <2>1, <2>2 DEF SiteDeleteReload, TypeInv, TypeOK
  <1>3. CASE DeleteSiteByDomain
    BY <1>0, <1>3, NoRowType DEF DeleteSiteByDomain, NoDelete, TypeInv, TypeOK
  <1>4. QED
    BY <1>1, <1>2, <1>3 DEF DeleteStep

LEMMA EnvironmentType ==
  ASSUME TypeInv, NginxStop \/ NginxBoot \/ \E p \in Procs : Crash(p)
  PROVE  TypeInv'
  <1> USE ConstantsAssumption DEF files, nginx, db
  <1>1. ASSUME NEW p \in Procs, Crash(p) PROVE TypeInv'
    BY <1>1, NoCallType, BecomesType DEF Crash, TypeInv, TypeOK
  <1>2. CASE NginxStop
    BY <1>2 DEF NginxStop, TypeInv, TypeOK, ConfOrNone
  <1>3. CASE NginxBoot
    BY <1>3 DEF NginxBoot, TypeInv, TypeOK
  <1>4. QED
    BY <1>1, <1>2, <1>3

LEMMA TypeStep == TypeInv /\ [Next]_vars => TypeInv'
  <1> SUFFICES ASSUME TypeInv, [Next]_vars PROVE TypeInv'
    OBVIOUS
  <1>1. CASE RowOp
    BY <1>1, RowOpType
  <1>2. ASSUME NEW p \in Procs, StartApply(p) PROVE TypeInv'
    BY <1>2, StartType
  <1>3. ASSUME NEW p \in Procs, ApplyStep(p) PROVE TypeInv'
    BY <1>3, LoopType, RecordType, ReloadType, RollbackType DEF ApplyStep
  <1>4. CASE DeleteStep \/ \E d \in Domains : SiteDelete(d)
    BY <1>4, DeleteType
  <1>5. CASE NginxStop \/ NginxBoot \/ \E p \in Procs : Crash(p)
    BY <1>5, EnvironmentType
  <1>6. CASE UNCHANGED vars
    BY <1>6 DEF vars, TypeInv, TypeOK, CurIsDomain
  <1>7. QED
    BY <1>1, <1>2, <1>3, <1>4, <1>5, <1>6 DEF Next

LEMMA TypeInvariant == Spec => []TypeInv
  BY InitType, TypeStep, PTL DEF Spec

\* Every reachable state is well typed, for every set of sites, processes and
\* faults: in particular each verdict written and each file swapped concerns a
\* domain (the cur of the call), whichever path of Apply led there.
THEOREM TypeCorrect == Spec => []TypeOK
  BY TypeInvariant, PTL DEF TypeInv

-----------------------------------------------------------------------------
(* Validity: the sites directory is valid whenever no Apply is running, for  *)
(* any number of sites and vhost texts: what LiveValidAtRest says, proved    *)
(* for a single ngm process that does not die in the middle of an Apply.     *)

\* The assumptions, each refuted by a run when dropped: one process, so that
\* applyMu serialises every Apply; no crash and no failed write of a rollback;
\* SiteDelete, which does not take applyMu, never overlaps an Apply.
SingleWorker ==
    /\ \A p, q \in Procs : p = q
    /\ "crash" \notin Faults
    /\ "rollback" \notin Faults
    /\ Serial \/ Deletable = {}

\* The call c accounts for an invalid live file of d: the batch wrote it and
\* has not tested it yet, applyOne wrote it and is about to test it, or the
\* rollback has not come to it yet.
Excuses(c, d) ==
    \/ /\ c.mode = "batch" /\ c.pc \in {"loop", "publish", "record", "test"}
       /\ d \in c.changed
    \/ /\ c.mode = "one" /\ c.pc = "test"
       /\ d \in c.changed
    \/ c.pc = "rollback" /\ d \in c.todo

\* What a call has still to write it has not written yet, so the file that a
\* Publish copies to the backup was there before the call.
Ahead(c) ==
    /\ c.pc \in {"loop", "publish"} => c.todo \cap c.changed = {}
    /\ c.pc = "publish" => c.cur \in c.todo
    /\ c.pc = "record" /\ c.mode = "batch" =>
           (c.todo \ {c.cur}) \cap c.changed = {}

Fine(text) == text \in Good \cup {NoConf}

\* The inductive invariant: backups are valid at every moment, every invalid
\* live file is one that the running call will test or roll back.
SafeInv ==
    /\ \A d \in Domains : Fine(bak[d])
    /\ \A d \in Domains : Fine(live[d]) \/ \E p \in Procs : Excuses(ap[p], d)
    /\ \A p \in Procs : Ahead(ap[p])

\* A call of a single process: it is the one that excuses every bad file.
LEMMA OnlyCall ==
  ASSUME SingleWorker, SafeInv, NEW p \in Procs
  PROVE  /\ \A d \in Domains : Fine(live[d]) \/ Excuses(ap[p], d)
         /\ Ahead(ap[p])
         /\ \A d \in Domains : Fine(bak[d])
  BY DEF SingleWorker, SafeInv

LEMMA StepOfCall ==
  ASSUME SingleWorker, TypeInv, NEW p \in Procs, NEW r, Becomes(p, r), Ahead(r),
         \A d \in Domains : Fine(bak'[d]),
         \A d \in Domains : Fine(live'[d]) \/ Excuses(r, d)
  PROVE  SafeInv'
  <1>1. ap'[p] = r /\ \A q \in Procs : q = p
    BY DEF TypeInv, TypeOK, Becomes, SingleWorker
  <1>2. QED
    BY <1>1 DEF SafeInv, Excuses, Ahead, Fine

\* Swapping a file that was valid leaves every backup valid and every other
\* live file alone.
LEMMA SwapOfFine ==
  ASSUME TypeInv, NEW d \in Domains, NEW c, NEW ok \in BOOLEAN,
         SwapLive(d, c, ok), Fine(live[d]),
         \A e \in Domains : Fine(bak[e])
  PROVE  /\ \A e \in Domains : Fine(bak'[e])
         /\ \A e \in Domains : e # d => live'[e] = live[e]
         /\ ok => live'[d] = c
         /\ ~ok => live' = live
  BY DEF SwapLive, BackedUp, TypeInv, TypeOK, Fine

LEMMA NoCallExcusesNothing ==
  /\ Ahead(NoCall)
  /\ \A d \in Domains : ~Excuses(NoCall, d)
  BY DEF NoCall, Ahead, Excuses

\* Between calls the directory is valid.
LEMMA RestIsFine ==
  ASSUME SafeInv, NoApply
  PROVE  \A d \in Domains : Fine(live[d])
  BY DEF SafeInv, NoApply, Excuses

LEMMA InitSafe == Init => SafeInv
  BY NoCallExcusesNothing DEF Init, SafeInv, Fine

LEMMA StartSafe ==
  ASSUME SingleWorker, TypeInv, SafeInv, NEW p \in Procs, StartApply(p)
  PROVE  SafeInv'
  <1>1. NoApply
    BY DEF SingleWorker, NoApply, StartApply, StartBatch, StartOne
  <1>2. \A d \in Domains : Fine(live[d]) /\ Fine(bak[d])
    BY <1>1, RestIsFine DEF SafeInv
  <1>3. ASSUME NEW all \in BOOLEAN, NEW limit \in Limits, StartBatch(p, all, limit)
        PROVE  SafeInv'
    <2> DEFINE r == [NoCall EXCEPT !.pc = "loop", !.all = all, !.limit = limit,
                        !.snap = rows,
                        !.todo = {d \in Domains : rows[d].site # "absent"},
                        !.before = live]
    <2>1. r.pc = "loop" /\ r.changed = {}
      BY DEF NoCall
    <2>2. Ahead(r)
      BY <2>1 DEF Ahead
    <2>3. Becomes(p, r) /\ live' = live /\ bak' = bak
      BY <1>3 DEF StartBatch, files
    <2>4. QED
      BY <1>2, <2>2, <2>3, StepOfCall
  <1>4. ASSUME NEW d \in Domains, StartOne(p, d) PROVE SafeInv'
    <2> DEFINE r == [NoCall EXCEPT !.pc = "loop", !.mode = "one", !.all = TRUE,
                        !.snap = [@ EXCEPT ![d] = rows[d]],
                        !.todo = {d}, !.before = live]
    <2>1. r.pc = "loop" /\ r.changed = {}
      BY DEF NoCall
    <2>2. Ahead(r)
      BY <2>1 DEF Ahead
    <2>3. Becomes(p, r) /\ live' = live /\ bak' = bak
      BY <1>4 DEF StartOne, files
    <2>4. QED
      BY <1>2, <2>2, <2>3, StepOfCall
  <1>5. QED
    BY <1>3, <1>4 DEF StartApply

LEMMA WroteSafe ==
  ASSUME NEW c \in ApplyCall, c.pc \in {"loop", "publish"}, Ahead(c),
         NEW d \in c.todo, NEW t \in ConfOrNone, NEW s \in BOOLEAN
  PROVE  /\ Ahead(Wrote(c, d, t, s))
         /\ \A e : Excuses(c, e) => Excuses(Wrote(c, d, t, s), e)
         /\ s => Excuses(Wrote(c, d, t, s), d)
         /\ ~Excuses(c, d)
  <1> DEFINE w == Wrote(c, d, t, s)
  <1>1. /\ w.mode = c.mode /\ w.todo = c.todo /\ w.cur = d
        /\ w.pc = IF c.mode = "one" /\ s THEN "test" ELSE "record"
        /\ w.changed = IF s THEN c.changed \cup {d} ELSE c.changed
    BY DEF Wrote, ApplyCall
  <1>2. c.todo \cap c.changed = {} /\ c.mode \in {"batch", "one"}
    BY DEF Ahead, ApplyCall
  <1> HIDE DEF w
  <1>3. Ahead(w)
    BY <1>1, <1>2 DEF Ahead
  <1>4. \A e : Excuses(c, e) => Excuses(w, e)
    BY <1>1, <1>2 DEF Excuses
  <1>5. s => Excuses(w, d)
    BY <1>1, <1>2 DEF Excuses
  <1>6. ~Excuses(c, d)
    BY <1>2 DEF Excuses
  <1>7. QED
    BY <1>3, <1>4, <1>5, <1>6 DEF w

LEMMA FailedSafe ==
  ASSUME NEW c \in ApplyCall, c.pc \in {"loop", "publish"}, Ahead(c),
         NEW d \in c.todo, NEW t \in ConfOrNone
  PROVE  /\ Ahead(Failed(c, d, t))
         /\ \A e : Excuses(c, e) => Excuses(Failed(c, d, t), e)
  <1> DEFINE w == Failed(c, d, t)
  <1>1. /\ w.mode = c.mode /\ w.todo = c.todo /\ w.cur = d
        /\ w.pc = "record" /\ w.changed = c.changed
    BY DEF Failed, ApplyCall
  <1>2. c.todo \cap c.changed = {} /\ c.mode \in {"batch", "one"}
    BY DEF Ahead, ApplyCall
  <1> HIDE DEF w
  <1>3. Ahead(w) /\ \A e : Excuses(c, e) => Excuses(w, e)
    BY <1>1, <1>2 DEF Ahead, Excuses
  <1>4. QED
    BY <1>3 DEF w

\* The file steps of the loop: the swapped file becomes one the call excuses.
LEMMA WriteSafe ==
  ASSUME SingleWorker, TypeInv, SafeInv, NEW p \in Procs, NEW d \in Domains,
         stageDeleteLiveConf(p, d) \/ (Publish(p) /\ d = ap[p].cur)
  PROVE  SafeInv'
  <1> DEFINE c == ap[p]
             text == IF c.pc = "publish" THEN stage[d] ELSE NoConf
             hash == IF c.pc = "publish" THEN c.want[d] ELSE NoConf
  <1>1. /\ c \in ApplyCall /\ c.pc \in {"loop", "publish"} /\ Ahead(c)
        /\ d \in c.todo /\ hash \in ConfOrNone
    <2>1. c \in ApplyCall /\ Ahead(c)
      BY DEF TypeInv, TypeOK, SafeInv
    <2>2. c.pc \in {"loop", "publish"} /\ d \in c.todo
      BY <2>1 DEF stageDeleteLiveConf, Taking, Next_domain, Publish, Ahead
    <2>3. QED
      BY <2>1, <2>2 DEF ApplyCall, ConfOrNone
  <1>2. /\ \A e \in Domains : Fine(live[e]) \/ Excuses(c, e)
        /\ \A e \in Domains : Fine(bak[e])
    BY OnlyCall
  <1>3. ~Excuses(c, d) /\ Fine(live[d])
    BY <1>1, <1>2, WroteSafe
  <1>4. \/ Becomes(p, NoCall) /\ c.mode = "one" /\ c.pc = "loop" /\ UNCHANGED <<live, bak>>
        \/ Becomes(p, Wrote(c, d, hash, FALSE)) /\ UNCHANGED <<live, bak>>
        \/ Becomes(p, Wrote(c, d, hash, TRUE)) /\ SwapLive(d, text, TRUE)
        \/ Becomes(p, Failed(c, d, hash)) /\ SwapLive(d, text, FALSE)
    BY <1>1 DEF stageDeleteLiveConf, Taking, Publish
  <1> HIDE DEF c, text, hash
  <1>5. CASE Becomes(p, NoCall) /\ c.mode = "one" /\ c.pc = "loop" /\ UNCHANGED <<live, bak>>
    <2>1. \A e \in Domains : Fine(live[e])
      BY <1>2, <1>5 DEF Excuses
    <2>2. QED
      BY <1>2, <1>5, <2>1, NoCallExcusesNothing, StepOfCall
  <1>6. CASE Becomes(p, Wrote(c, d, hash, FALSE)) /\ UNCHANGED <<live, bak>>
    <2>1. Ahead(Wrote(c, d, hash, FALSE))
          /\ \A e : Excuses(c, e) => Excuses(Wrote(c, d, hash, FALSE), e)
      BY <1>1, WroteSafe
    <2>2. QED
      BY <1>2, <1>6, <2>1, StepOfCall
  <1>7. CASE Becomes(p, Wrote(c, d, hash, TRUE)) /\ SwapLive(d, text, TRUE)
    <2>1. /\ Ahead(Wrote(c, d, hash, TRUE))
          /\ \A e : Excuses(c, e) => Excuses(Wrote(c, d, hash, TRUE), e)
          /\ Excuses(Wrote(c, d, hash, TRUE), d)
      BY <1>1, WroteSafe
    <2>2. /\ \A e \in Domains : Fine(bak'[e])
          /\ \A e \in Domains : e # d => live'[e] = live[e]
      BY <1>2, <1>3, <1>7, SwapOfFine
    <2>3. QED
      BY <1>2, <1>7, <2>1, <2>2, StepOfCall
  <1>8. CASE Becomes(p, Failed(c, d, hash)) /\ SwapLive(d, text, FALSE)
    <2>1. /\ Ahead(Failed(c, d, hash))
          /\ \A e : Excuses(c, e) => Excuses(Failed(c, d, hash), e)
      BY <1>1, FailedSafe
    <2>2. (\A e \in Domains : Fine(bak'[e])) /\ live' = live
      BY <1>2, <1>3, <1>8, SwapOfFine
    <2>3. QED
      BY <1>2, <1>8, <2>1, <2>2, StepOfCall
  <1>9. QED
    BY <1>4, <1>5, <1>6, <1>7, <1>8

LEMMA RenderSafe ==
  ASSUME SingleWorker, TypeInv, SafeInv, NEW p \in Procs, NEW d \in Domains,
         RenderSiteToStaging(p, d)
  PROVE  SafeInv'
  <1> DEFINE c == ap[p]
             text == Rendered(d, c.snap[d])
             r == [c EXCEPT !.pc = "publish", !.cur = d, !.want[d] = text]
  <1>1. /\ c \in ApplyCall /\ c.pc = "loop" /\ Ahead(c) /\ d \in c.todo
        /\ live' = live /\ bak' = bak
    BY DEF TypeInv, TypeOK, SafeInv, RenderSiteToStaging, Taking, Next_domain
  <1>2. /\ \A e \in Domains : Fine(live[e]) \/ Excuses(c, e)
        /\ \A e \in Domains : Fine(bak[e])
    BY OnlyCall
  <1>3. Becomes(p, r) \/ Becomes(p, Failed(c, d, NoConf))
    BY DEF RenderSiteToStaging
  <1>4. /\ r.pc = "publish" /\ r.cur = d /\ r.mode = c.mode
        /\ r.todo = c.todo /\ r.changed = c.changed
    BY <1>1 DEF ApplyCall
  <1> HIDE DEF r, c
  <1>5. CASE Becomes(p, r)
    <2>1. Ahead(r) /\ \A e : Excuses(c, e) => Excuses(r, e)
      BY <1>1, <1>4 DEF Ahead, Excuses
    <2>2. QED
      BY <1>1, <1>2, <1>5, <2>1, StepOfCall
  <1>6. CASE Becomes(p, Failed(c, d, NoConf))
    <2>1. /\ Ahead(Failed(c, d, NoConf))
          /\ \A e : Excuses(c, e) => Excuses(Failed(c, d, NoConf), e)
      BY <1>1, FailedSafe DEF ConfOrNone
    <2>2. QED
      BY <1>1, <1>2, <1>6, <2>1, StepOfCall
  <1>7. QED
    BY <1>3, <1>5, <1>6

\* A step that touches no file, after which the call excuses what it excused.
LEMMA QuietStepSafe ==
  ASSUME SingleWorker, TypeInv, SafeInv, NEW p \in Procs, NEW r,
         Becomes(p, r), Ahead(r), live' = live, bak' = bak,
         \A d \in Domains : Excuses(ap[p], d) => Excuses(r, d)
  PROVE  SafeInv'
  <1>1. /\ \A e \in Domains : Fine(live[e]) \/ Excuses(ap[p], e)
        /\ \A e \in Domains : Fine(bak[e])
    BY OnlyCall
  <1>2. QED
    BY <1>1, StepOfCall

LEMMA SkipSafe ==
  ASSUME SingleWorker, TypeInv, SafeInv, NEW p \in Procs, NEW d \in Domains,
         SkipSite(p, d)
  PROVE  SafeInv'
  <1> DEFINE c == ap[p]
             r == [c EXCEPT !.todo = @ \ {d}]
  <1>1. c \in ApplyCall /\ c.pc = "loop" /\ Ahead(c)
    BY DEF TypeInv, TypeOK, SafeInv, SkipSite, Taking
  <1>2. Becomes(p, r) /\ live' = live /\ bak' = bak
    BY DEF SkipSite, files
  <1>3. /\ r.pc = "loop" /\ r.mode = c.mode /\ r.changed = c.changed
        /\ r.todo = c.todo \ {d}
    BY <1>1 DEF ApplyCall
  <1> HIDE DEF r
  <1>4. Ahead(r) /\ \A e : Excuses(c, e) => Excuses(r, e)
    BY <1>1, <1>3 DEF Ahead, Excuses
  <1>5. QED
    BY <1>2, <1>4, QuietStepSafe

LEMMA RecordSafe ==
  ASSUME SingleWorker, TypeInv, SafeInv, NEW p \in Procs, RecordVerdict(p)
  PROVE  SafeInv'
  <1> DEFINE c == ap[p]
             r == [c EXCEPT !.pc = "loop", !.todo = @ \ {c.cur},
                            !.applied = @ + 1]
  <1>1. c \in ApplyCall /\ c.pc = "record" /\ Ahead(c)
    BY DEF TypeInv, TypeOK, SafeInv, RecordVerdict
  <1>2. /\ Becomes(p, IF c.mode = "one" THEN NoCall ELSE r)
        /\ live' = live /\ bak' = bak
    BY DEF RecordVerdict, files
  <1>3. /\ r.pc = "loop" /\ r.mode = c.mode /\ r.changed = c.changed
        /\ r.todo = c.todo \ {c.cur} /\ c.mode \in {"one", "batch"}
    BY <1>1 DEF ApplyCall
  <1> HIDE DEF r
  <1>4. CASE c.mode = "one"
    <2>1. \A e : ~Excuses(c, e)
      BY <1>1, <1>4 DEF Excuses
    <2>2. QED
      BY <1>2, <1>4, <2>1, NoCallExcusesNothing, QuietStepSafe
  <1>5. CASE c.mode = "batch"
    <2>1. Ahead(r) /\ \A e : Excuses(c, e) => Excuses(r, e)
      BY <1>1, <1>3, <1>5 DEF Ahead, Excuses
    <2>2. QED
      BY <1>2, <1>5, <2>1, QuietStepSafe
  <1>6. QED
    BY <1>3, <1>4, <1>5

\* The loop of applyOne ends without a call of its own only after a record, so
\* a batch that changed nothing, or an applyOne still in its loop, is safe.
LEMMA EndLoopSafe ==
  ASSUME SingleWorker, TypeInv, SafeInv, NEW p \in Procs, EndLoop(p)
  PROVE  SafeInv'
  <1> DEFINE c == ap[p]
             r == [c EXCEPT !.pc = "test", !.todo = {}]
  <1>1. c \in ApplyCall /\ c.pc = "loop"
    BY DEF TypeInv, TypeOK, EndLoop
  <1>2. /\ Becomes(p, IF c.changed = {} THEN NoCall ELSE r)
        /\ live' = live /\ bak' = bak
    BY DEF EndLoop, files
  <1>3. /\ r.pc = "test" /\ r.mode = c.mode /\ r.changed = c.changed
    BY <1>1 DEF ApplyCall
  <1> HIDE DEF r
  <1>4. CASE c.changed = {}
    <2>1. \A e : ~Excuses(c, e)
      BY <1>1, <1>4 DEF Excuses
    <2>2. QED
      BY <1>2, <1>4, <2>1, NoCallExcusesNothing, QuietStepSafe
  <1>5. CASE c.changed # {}
    <2>1. Ahead(r) /\ \A e : Excuses(c, e) => Excuses(r, e)
      BY <1>1, <1>3 DEF Ahead, Excuses
    <2>2. QED
      BY <1>2, <1>5, <2>1, QuietStepSafe
  <1>6. QED
    BY <1>4, <1>5

LEMMA RollingBackSafe ==
  ASSUME NEW c \in ApplyCall, c.pc \in {"test", "reload"}
  PROVE  /\ Ahead(RollingBack(c))
         /\ \A d : Excuses(c, d) => Excuses(RollingBack(c), d)
  <1> DEFINE r == RollingBack(c)
  <1>1. r.pc = "rollback" /\ r.todo = c.changed
    BY DEF RollingBack, ApplyCall
  <1> HIDE DEF r
  <1>2. Ahead(r) /\ \A d : Excuses(c, d) => Excuses(r, d)
    BY <1>1 DEF Ahead, Excuses
  <1>3. QED
    BY <1>2 DEF r

\* Where it matters that the order is test, reload: what passes nginx -t needs
\* no excuse, what fails is what the rollback walks.
LEMMA TestSafe ==
  ASSUME SingleWorker, TypeInv, SafeInv, NEW p \in Procs, TestBeforeReload(p)
  PROVE  SafeInv'
  <1> DEFINE c == ap[p]
             r == [c EXCEPT !.pc = "reload"]
  <1>1. c \in ApplyCall /\ c.pc = "test"
    BY DEF TypeInv, TypeOK, TestBeforeReload
  <1>2. live' = live /\ bak' = bak
    BY DEF TestBeforeReload, files
  <1>3. PICK ok \in BOOLEAN : TestConfig(ok) /\ Becomes(p, IF ok THEN r ELSE RollingBack(c))
    BY DEF TestBeforeReload
  <1>4. r.pc = "reload"
    BY <1>1 DEF ApplyCall
  <1> HIDE DEF r
  <1>5. CASE ok
    <2>1. \A d \in Domains : Fine(live[d])
      BY <1>3, <1>5 DEF TestConfig, Valid, Fine
    <2>2. \A d \in Domains : Fine(bak[d])
      BY DEF SafeInv
    <2>3. Ahead(r)
      BY <1>4 DEF Ahead
    <2>4. QED
      BY <1>2, <1>3, <1>5, <2>1, <2>2, <2>3, StepOfCall
  <1>6. CASE ~ok
    BY <1>1, <1>2, <1>3, <1>6, RollingBackSafe, QuietStepSafe
  <1>7. QED
    BY <1>5, <1>6

LEMMA ReloadSafe ==
  ASSUME SingleWorker, TypeInv, SafeInv, NEW p \in Procs, ReloadNginx(p)
  PROVE  SafeInv'
  <1> DEFINE c == ap[p]
             r == [c EXCEPT !.pc = "record"]
  <1>1. c \in ApplyCall /\ c.pc = "reload" /\ c.mode \in {"batch", "one"}
    BY DEF TypeInv, TypeOK, ReloadNginx, ApplyCall
  <1>2. live' = live /\ bak' = bak
    BY DEF ReloadNginx, files
  <1>3. PICK ok \in BOOLEAN :
           Becomes(p, IF ~ok THEN RollingBack(c)
                      ELSE IF c.mode = "batch" THEN NoCall ELSE r)
    BY DEF ReloadNginx
  <1>4. r.pc = "record" /\ r.mode = c.mode
    BY <1>1 DEF ApplyCall
  <1> HIDE DEF r
  <1>5. \A d : ~Excuses(c, d)
    BY <1>1 DEF Excuses
  <1>6. CASE ~ok
    BY <1>1, <1>2, <1>3, <1>6, RollingBackSafe, QuietStepSafe
  <1>7. CASE ok /\ c.mode = "batch"
    BY <1>2, <1>3, <1>5, <1>7, NoCallExcusesNothing, QuietStepSafe
  <1>8. CASE ok /\ c.mode = "one"
    <2>1. Ahead(r)
      BY <1>4, <1>8 DEF Ahead
    <2>2. QED
      BY <1>2, <1>3, <1>5, <1>8, <2>1, QuietStepSafe
  <1>9. QED
    BY <1>1, <1>6, <1>7, <1>8

\* The rollback of d puts a valid backup in the place of a file it excused.
LEMMA RollbackSafe ==
  ASSUME SingleWorker, TypeInv, SafeInv, NEW p \in Procs, NEW d \in Domains,
         rollbackFromBackup(p, d)
  PROVE  SafeInv'
  <1> DEFINE c == ap[p]
             r == [c EXCEPT !.todo = @ \ {d},
                            !.pc = IF c.todo = {d} THEN "recover" ELSE @]
  <1>1. c \in ApplyCall /\ c.pc = "rollback"
    BY DEF TypeInv, TypeOK, rollbackFromBackup
  <1>2. /\ live' = [live EXCEPT ![d] = bak[d]]
        /\ Becomes(p, r) /\ bak' = bak
    BY DEF SingleWorker, rollbackFromBackup
  <1>3. /\ r.pc = IF c.todo = {d} THEN "recover" ELSE "rollback"
        /\ r.todo = c.todo \ {d}
    BY <1>1 DEF ApplyCall
  <1>4. /\ \A e \in Domains : Fine(live[e]) \/ Excuses(c, e)
        /\ \A e \in Domains : Fine(bak[e])
    BY OnlyCall
  <1> HIDE DEF r
  <1>5. Ahead(r)
    BY <1>3 DEF Ahead
  <1>6. \A e \in Domains : Fine(live'[e]) \/ Excuses(r, e)
    <2>1. Fine(live'[d])
      BY <1>2, <1>4 DEF TypeInv, TypeOK
    <2>2. ASSUME NEW e \in Domains, e # d PROVE Fine(live'[e]) \/ Excuses(r, e)
      <3>1. live'[e] = live[e]
        BY <1>2, <2>2 DEF TypeInv, TypeOK
      <3>2. Excuses(c, e) => Excuses(r, e)
        BY <1>1, <1>3, <2>2 DEF Excuses
      <3>3. QED
        BY <1>4, <3>1, <3>2
    <2>3. QED
      BY <2>1, <2>2
  <1>7. QED
    BY <1>2, <1>4, <1>5, <1>6, StepOfCall

\* After the rollback the call excuses nothing.
LEMMA RecoverSafe ==
  ASSUME SingleWorker, TypeInv, SafeInv, NEW p \in Procs, RecoverReload(p)
  PROVE  SafeInv'
  <1> DEFINE c == ap[p]
             r == [c EXCEPT !.pc = "fail", !.todo = c.changed]
  <1>1. c \in ApplyCall /\ c.pc = "recover"
    BY DEF TypeInv, TypeOK, RecoverReload
  <1>2. Becomes(p, r) /\ live' = live /\ bak' = bak
    BY DEF RecoverReload, files
  <1>3. r.pc = "fail"
    BY <1>1 DEF ApplyCall
  <1> HIDE DEF r
  <1>4. Ahead(r) /\ \A d : ~Excuses(c, d)
    BY <1>1, <1>3 DEF Ahead, Excuses
  <1>5. QED
    BY <1>2, <1>4, QuietStepSafe

LEMMA FailSafe ==
  ASSUME SingleWorker, TypeInv, SafeInv, NEW p \in Procs, NEW d \in Domains,
         RecordFail(p, d)
  PROVE  SafeInv'
  <1> DEFINE c == ap[p]
             r == [c EXCEPT !.todo = @ \ {d}]
  <1>1. c \in ApplyCall /\ c.pc = "fail"
    BY DEF TypeInv, TypeOK, RecordFail
  <1>2. /\ Becomes(p, NoCall) \/ Becomes(p, r)
        /\ live' = live /\ bak' = bak
    BY DEF RecordFail, files
  <1>3. r.pc = "fail"
    BY <1>1 DEF ApplyCall
  <1> HIDE DEF r
  <1>4. Ahead(r) /\ \A e : ~Excuses(c, e)
    BY <1>1, <1>3 DEF Ahead, Excuses
  <1>5. QED
    BY <1>2, <1>4, NoCallExcusesNothing, QuietStepSafe

LEMMA ApplyStepSafe ==
  ASSUME SingleWorker, TypeInv, SafeInv, NEW p \in Procs, ApplyStep(p)
  PROVE  SafeInv'
  <1>1. ASSUME NEW d \in Domains, stageDeleteLiveConf(p, d) PROVE SafeInv'
    BY <1>1, WriteSafe
  <1>2. CASE Publish(p)
    <2>1. ap[p].cur \in Domains
      BY <1>2, OnlyCall DEF TypeInv, TypeOK, ApplyCall, Publish, Ahead
    <2>2. QED
      BY <1>2, <2>1, WriteSafe
  <1>3. QED
    BY <1>1, <1>2, RenderSafe, SkipSafe, RecordSafe, EndLoopSafe, TestSafe,
       ReloadSafe, RollbackSafe, RecoverSafe, FailSafe DEF ApplyStep

\* SiteDelete overlaps no Apply: it removes and backs up a valid file.
LEMMA DeleteSafe ==
  ASSUME SingleWorker, TypeInv, SafeInv, NEW d \in Domains, SiteDelete(d)
  PROVE  SafeInv'
  <1>1. NoApply
    BY DEF SingleWorker, SiteDelete, Accepts, Quiet
  <1>2. /\ \A e \in Domains : Fine(live[e]) /\ Fine(bak[e])
    BY <1>1, RestIsFine DEF SafeInv
  <1>3. ap' = ap /\ (SwapLive(d, NoConf, TRUE) \/ SwapLive(d, NoConf, FALSE))
    BY DEF SiteDelete
  <1>4. /\ \A e \in Domains : Fine(bak'[e])
        /\ \A e \in Domains : e # d => live'[e] = live[e]
        /\ live'[d] = NoConf \/ live' = live
    BY <1>2, <1>3, SwapOfFine
  <1>5. \A e \in Domains : Fine(live'[e])
    BY <1>2, <1>4 DEF Fine
  <1>6. QED
    BY <1>3, <1>4, <1>5 DEF SafeInv

\* Everything else leaves the files and the calls alone.
LEMMA FrameSafe ==
  ASSUME SafeInv, UNCHANGED <<live, bak, ap>>
  PROVE  SafeInv'
  BY DEF SafeInv

LEMMA SafeStep ==
  ASSUME SingleWorker, TypeInv, SafeInv, [Next]_vars
  PROVE  SafeInv'
  <1>1. CASE RowOp
    <2>1. UNCHANGED <<live, bak, ap>>
      BY <1>1 DEF RowOp, UpsertSite, UpsertProxyTarget, DisableSiteByDomain,
                  EnableSiteByDomain, files
    <2>2. QED
      BY <2>1, FrameSafe
  <1>2. ASSUME NEW p \in Procs, StartApply(p) PROVE SafeInv'
    BY <1>2, StartSafe
  <1>3. ASSUME NEW p \in Procs, ApplyStep(p) PROVE SafeInv'
    BY <1>3, ApplyStepSafe
  <1>4. ASSUME NEW p \in Procs, Crash(p) PROVE SafeInv'
    BY <1>4 DEF Crash, SingleWorker
  <1>5. ASSUME NEW d \in Domains, SiteDelete(d) PROVE SafeInv'
    BY <1>5, DeleteSafe
  <1>6. CASE DeleteStep
    <2>1. UNCHANGED <<live, bak, ap>>
      BY <1>6 DEF DeleteStep, SiteDeleteReload, DeleteSiteByDomain, files
    <2>2. QED
      BY <2>1, FrameSafe
  <1>7. CASE NginxStop \/ NginxBoot
    <2>1. UNCHANGED <<live, bak, ap>>
      BY <1>7 DEF NginxStop, NginxBoot, files
    <2>2. QED
      BY <2>1, FrameSafe
  <1>8. CASE UNCHANGED vars
    BY <1>8, FrameSafe DEF vars
  <1>9. QED
    BY <1>1, <1>2, <1>3, <1>4, <1>5, <1>6, <1>7, <1>8 DEF Next

\* With one process that neither dies in the middle of an Apply nor fails to
\* write a rollback, and with SiteDelete kept apart from Apply, SafeInv holds
\* of every reachable state.
THEOREM SafeInvariant == SingleWorker => (Spec => []SafeInv)
  <1> SUFFICES ASSUME SingleWorker PROVE Spec => []SafeInv
    OBVIOUS
  <1>1. Init => SafeInv
    BY InitSafe
  <1>2. TypeInv /\ SafeInv /\ [Next]_vars => SafeInv'
    BY SafeStep
  <1>3. QED
    BY <1>1, <1>2, TypeInvariant, PTL DEF Spec

\* Under the same assumptions the sites directory is one nginx accepts whenever
\* no Apply is running: whatever a batch or a single apply published and nginx
\* -t rejected has been rolled back to something valid.
THEOREM LiveValid == SingleWorker => (Spec => []LiveValidAtRest)
  <1> SUFFICES ASSUME SingleWorker PROVE Spec => []LiveValidAtRest
    OBVIOUS
  <1>1. SafeInv => LiveValidAtRest
    BY RestIsFine DEF LiveValidAtRest, Valid, Fine
  <1>2. QED
    BY <1>1, SafeInvariant, PTL

\* Under the same assumptions every backup is a file nginx accepts, so that a
\* rollback restores a valid directory.
THEOREM BackupsAreValid == SingleWorker => (Spec => []BackupsValid)
  <1> SUFFICES ASSUME SingleWorker PROVE Spec => []BackupsValid
    OBVIOUS
  <1>1. SafeInv => BackupsValid
    BY DEF SafeInv, BackupsValid, Valid, Fine
  <1>2. QED
    BY <1>1, SafeInvariant, PTL

=============================================================================
