------------------------ MODULE NgmApplyOutcomeProofs ------------------------
(***************************************************************************)
(* What a call of Apply leaves behind when it returns: a verdict speaks of *)
(* the file that is live, a call installs all it changed or puts all of it *)
(* back, and a row that says ok carries the hash of its live file.         *)
(***************************************************************************)
EXTENDS NgmApplyProofs

\* One process applies, and SiteDelete never overlaps it.
OneWriter ==
    /\ \A p, q \in Procs : p = q
    /\ Serial \/ Deletable = {}

Forward == {"loop", "publish", "record", "test", "reload"}

-----------------------------------------------------------------------------
(* What each action makes of the record of the call.  Below, c is ap[p].   *)

\* r serves the same request as c.
SameRequest(r, c) ==
    /\ r.mode = c.mode /\ r.before = c.before /\ r.snap = c.snap
    /\ r.all = c.all /\ r.limit = c.limit

\* r is c up to its place in the call and what it has still to do.
SameWork(r, c) ==
    /\ SameRequest(r, c)
    /\ r.changed = c.changed /\ r.want = c.want /\ r.cur = c.cur
    /\ r.verdict = c.verdict

LEMMA BecomesCall ==
  ASSUME TypeInv, NEW p \in Procs, NEW r, Becomes(p, r)
  PROVE  ap'[p] = r
  BY DEF TypeInv, TypeOK, Becomes

LEMMA CallType ==
  ASSUME TypeInv, NEW p \in Procs
  PROVE  /\ ap[p] \in ApplyCall /\ CurIsDomain(ap[p])
         /\ ap[p].mode \in {"batch", "one"} /\ ap[p].verdict \in {"ok", "fail"}
         /\ ap[p].changed \subseteq Domains /\ ap[p].todo \subseteq Domains
         /\ ap[p].want \in [Domains -> ConfOrNone]
         /\ ap[p].before \in [Domains -> ConfOrNone]
  BY DEF TypeInv, TypeOK, ApplyCall

LEMMA NoCallFields ==
  /\ NoCall.pc = "idle" /\ NoCall.mode = "batch" /\ NoCall.changed = {}
  /\ NoCall.todo = {} /\ NoCall.verdict = "ok"
  BY DEF NoCall

\* The two uses of Wrote: the file was replaced, or was already as it should be.
Swapped(c, d, t) == Wrote(c, d, t, TRUE)
Matched(c, d, t) == Wrote(c, d, t, FALSE)

LEMMA SwappedFields ==
  ASSUME NEW c \in ApplyCall, NEW d \in Domains, NEW t \in ConfOrNone
  PROVE  /\ SameRequest(Swapped(c, d, t), c)
         /\ Swapped(c, d, t).todo = c.todo /\ Swapped(c, d, t).cur = d
         /\ Swapped(c, d, t).want[d] = t
         /\ \A e \in Domains \ {d} : Swapped(c, d, t).want[e] = c.want[e]
         /\ Swapped(c, d, t).pc = IF c.mode = "one" THEN "test" ELSE "record"
         /\ Swapped(c, d, t).changed = c.changed \cup {d}
  BY DEF Swapped, Wrote, ApplyCall, SameRequest

LEMMA MatchedFields ==
  ASSUME NEW c \in ApplyCall, NEW d \in Domains, NEW t \in ConfOrNone
  PROVE  /\ SameRequest(Matched(c, d, t), c)
         /\ Matched(c, d, t).todo = c.todo /\ Matched(c, d, t).cur = d
         /\ Matched(c, d, t).want[d] = t
         /\ \A e \in Domains \ {d} : Matched(c, d, t).want[e] = c.want[e]
         /\ Matched(c, d, t).pc = "record"
         /\ Matched(c, d, t).changed = c.changed
  BY DEF Matched, Wrote, ApplyCall, SameRequest

LEMMA FailedFields ==
  ASSUME NEW c \in ApplyCall, NEW d \in Domains, NEW t \in ConfOrNone
  PROVE  /\ SameRequest(Failed(c, d, t), c)
         /\ Failed(c, d, t).todo = c.todo /\ Failed(c, d, t).cur = d
         /\ Failed(c, d, t).verdict = "fail"
         /\ \A e \in Domains \ {d} : Failed(c, d, t).want[e] = c.want[e]
         /\ Failed(c, d, t).pc = "record" /\ Failed(c, d, t).changed = c.changed
  BY DEF Failed, ApplyCall, SameRequest

LEMMA RollingBackFields ==
  ASSUME NEW c \in ApplyCall
  PROVE  /\ SameWork(RollingBack(c), c)
         /\ RollingBack(c).todo = c.changed /\ RollingBack(c).pc = "rollback"
  BY DEF RollingBack, ApplyCall, SameWork, SameRequest

LEMMA CallOfStart ==
  ASSUME TypeInv, NEW p \in Procs, StartApply(p)
  PROVE  /\ ap[p].pc = "idle" /\ Accepts
         /\ ap'[p].pc = "loop" /\ ap'[p].changed = {} /\ ap'[p].before = live
         /\ ap'[p].todo \subseteq Domains
         /\ \A d \in ap'[p].todo : /\ ap'[p].snap[d] = rows[d]
                                   /\ rows[d].site # "absent"
         /\ UNCHANGED <<db, files, nginx, del>>
  <1>1. ASSUME NEW all \in BOOLEAN, NEW limit \in Limits, StartBatch(p, all, limit)
        PROVE  /\ ap'[p].pc = "loop" /\ ap'[p].changed = {} /\ ap'[p].before = live
               /\ ap'[p].snap = rows
               /\ ap'[p].todo = {d \in Domains : rows[d].site # "absent"}
    <2> DEFINE r == [NoCall EXCEPT !.pc = "loop", !.all = all, !.limit = limit,
                        !.snap = rows,
                        !.todo = {d \in Domains : rows[d].site # "absent"},
                        !.before = live]
    <2>1. ap'[p] = r
      BY <1>1, BecomesCall DEF StartBatch
    <2>2. QED
      BY <2>1 DEF NoCall
  <1>2. ASSUME NEW d \in Domains, StartOne(p, d)
        PROVE  /\ ap'[p].pc = "loop" /\ ap'[p].changed = {} /\ ap'[p].before = live
               /\ ap'[p].todo = {d} /\ ap'[p].snap[d] = rows[d]
               /\ rows[d].site # "absent"
    <2> DEFINE r == [NoCall EXCEPT !.pc = "loop", !.mode = "one", !.all = TRUE,
                        !.snap = [@ EXCEPT ![d] = rows[d]],
                        !.todo = {d}, !.before = live]
    <2>1. ap'[p] = r
      BY <1>2, BecomesCall DEF StartOne
    <2>2. QED
      BY <1>2, <2>1 DEF NoCall, StartOne
  <1>3. /\ ap[p].pc = "idle" /\ Accepts /\ UNCHANGED <<db, files, nginx, del>>
    BY DEF StartApply, StartBatch, StartOne
  <1>4. QED
    BY <1>1, <1>2, <1>3 DEF StartApply

LEMMA CallOfSkip ==
  ASSUME TypeInv, NEW p \in Procs, NEW d \in Domains, SkipSite(p, d)
  PROVE  /\ ap[p].pc = "loop" /\ ap'[p].pc = "loop"
         /\ SameWork(ap'[p], ap[p]) /\ ap'[p].todo = ap[p].todo \ {d}
         /\ UNCHANGED <<db, files, nginx, del>>
  <1> DEFINE c == ap[p]
             r == [c EXCEPT !.todo = @ \ {d}]
  <1>1. c \in ApplyCall
    BY CallType
  <1>2. ap'[p] = r
    BY BecomesCall DEF SkipSite
  <1>3. SameWork(r, c) /\ r.pc = c.pc /\ r.todo = c.todo \ {d}
    BY <1>1 DEF ApplyCall, SameWork, SameRequest
  <1> HIDE DEF r
  <1>4. QED
    BY <1>2, <1>3 DEF SkipSite, Taking

LEMMA CallOfRender ==
  ASSUME TypeInv, NEW p \in Procs, NEW d \in Domains, RenderSiteToStaging(p, d)
  PROVE  LET c == ap[p] r == ap'[p] text == Rendered(d, c.snap[d]) IN
         /\ c.pc = "loop" /\ d \in c.todo /\ c.snap[d].site = "enabled"
         /\ SameRequest(r, c) /\ r.todo = c.todo /\ r.cur = d
         /\ r.changed = c.changed
         /\ \A e \in Domains \ {d} : r.want[e] = c.want[e]
         /\ \/ /\ r.pc = "publish" /\ r.want[d] = text
               /\ stage' = [stage EXCEPT ![d] = text]
            \/ r.pc = "record" /\ r.verdict = "fail"
         /\ UNCHANGED <<db, live, bak, nginx, del>>
  <1> DEFINE c == ap[p]
             text == Rendered(d, c.snap[d])
             r == [c EXCEPT !.pc = "publish", !.cur = d, !.want[d] = text]
  <1>1. c \in ApplyCall
    BY CallType
  <1>2. /\ c.pc = "loop" /\ d \in c.todo /\ c.snap[d].site = "enabled"
        /\ UNCHANGED <<db, live, bak, nginx, del>>
    BY DEF RenderSiteToStaging, Taking, Next_domain
  <1>3. \/ Becomes(p, r) /\ stage' = [stage EXCEPT ![d] = text]
        \/ Becomes(p, Failed(c, d, NoConf))
    BY DEF RenderSiteToStaging
  <1>4. /\ SameRequest(r, c) /\ r.todo = c.todo /\ r.cur = d
        /\ r.changed = c.changed /\ r.pc = "publish"
        /\ r.want[d] = text /\ \A e \in Domains \ {d} : r.want[e] = c.want[e]
    BY <1>1 DEF ApplyCall, SameRequest
  <1> HIDE DEF c, r, text
  <1>5. CASE Becomes(p, r) /\ stage' = [stage EXCEPT ![d] = text]
    <2>1. ap'[p] = r
      BY <1>5, BecomesCall
    <2>2. QED
      BY <1>2, <1>4, <1>5, <2>1 DEF c, text
  <1>6. CASE Becomes(p, Failed(c, d, NoConf))
    <2>1. ap'[p] = Failed(c, d, NoConf)
      BY <1>6, BecomesCall
    <2>2. c \in ApplyCall /\ NoConf \in ConfOrNone
      BY <1>1 DEF c, ConfOrNone
    <2>3. QED
      BY <1>2, <2>1, <2>2, FailedFields DEF c
  <1>7. QED
    BY <1>3, <1>5, <1>6

LEMMA CallOfRecord ==
  ASSUME TypeInv, NEW p \in Procs, RecordVerdict(p)
  PROVE  LET c == ap[p] r == ap'[p] IN
         /\ c.pc = "record" /\ c.cur \in Domains
         /\ UpdateApplyResult(c.cur, c.verdict, c.want[c.cur])
         /\ \/ c.mode = "one" /\ r = NoCall
            \/ /\ c.mode = "batch" /\ r.pc = "loop" /\ SameWork(r, c)
               /\ r.todo = c.todo \ {c.cur}
         /\ UNCHANGED <<targets, files, nginx, del>>
  <1> DEFINE c == ap[p]
             r == [c EXCEPT !.pc = "loop", !.todo = @ \ {c.cur},
                            !.applied = @ + 1]
  <1>1. c \in ApplyCall /\ c.mode \in {"batch", "one"}
    BY CallType
  <1>2. /\ c.pc = "record" /\ c.cur \in Domains
        /\ UpdateApplyResult(c.cur, c.verdict, c.want[c.cur])
        /\ UNCHANGED <<targets, files, nginx, del>>
    BY CallType DEF RecordVerdict, CurIsDomain
  <1>3. ap'[p] = IF c.mode = "one" THEN NoCall ELSE r
    BY BecomesCall DEF RecordVerdict
  <1>4. SameWork(r, c) /\ r.pc = "loop" /\ r.todo = c.todo \ {c.cur}
    BY <1>1 DEF ApplyCall, SameWork, SameRequest
  <1> HIDE DEF r
  <1>5. QED
    BY <1>1, <1>2, <1>3, <1>4

LEMMA CallOfEnd ==
  ASSUME TypeInv, NEW p \in Procs, EndLoop(p)
  PROVE  LET c == ap[p] r == ap'[p] IN
         /\ c.pc = "loop"
         /\ \/ c.changed = {} /\ r = NoCall
            \/ /\ c.changed # {} /\ c.mode = "batch"
               /\ r.pc = "test" /\ SameWork(r, c) /\ r.todo = {}
         /\ UNCHANGED <<db, files, nginx, del>>
  <1> DEFINE c == ap[p]
             r == [c EXCEPT !.pc = "test", !.todo = {}]
  <1>1. /\ c \in ApplyCall /\ c.mode \in {"batch", "one"}
        /\ c.pc = "loop" /\ c.mode = "one" => c.changed = {}
    BY CallType DEF CurIsDomain
  <1>2. c.pc = "loop" /\ UNCHANGED <<db, files, nginx, del>>
    BY DEF EndLoop
  <1>3. ap'[p] = IF c.changed = {} THEN NoCall ELSE r
    BY BecomesCall DEF EndLoop
  <1>4. SameWork(r, c) /\ r.pc = "test" /\ r.todo = {}
    BY <1>1 DEF ApplyCall, SameWork, SameRequest
  <1> HIDE DEF r
  <1>5. QED
    BY <1>1, <1>2, <1>3, <1>4

LEMMA CallOfTest ==
  ASSUME TypeInv, NEW p \in Procs, TestBeforeReload(p)
  PROVE  LET c == ap[p] r == ap'[p] IN
         /\ c.pc = "test" /\ SameWork(r, c)
         /\ \/ r.pc = "reload" /\ r.todo = c.todo
            \/ r.pc = "rollback" /\ r.todo = c.changed
         /\ UNCHANGED <<db, files, nginx, del>>
  <1> DEFINE c == ap[p]
             r == [c EXCEPT !.pc = "reload"]
  <1>1. c \in ApplyCall
    BY CallType
  <1>2. c.pc = "test" /\ UNCHANGED <<db, files, nginx, del>>
    BY DEF TestBeforeReload
  <1>3. ap'[p] = r \/ ap'[p] = RollingBack(c)
    BY BecomesCall DEF TestBeforeReload
  <1>4. SameWork(r, c) /\ r.pc = "reload" /\ r.todo = c.todo
    BY <1>1 DEF ApplyCall, SameWork, SameRequest
  <1> HIDE DEF r
  <1>5. QED
    BY <1>1, <1>2, <1>3, <1>4, RollingBackFields

LEMMA CallOfReload ==
  ASSUME TypeInv, NEW p \in Procs, ReloadNginx(p)
  PROVE  LET c == ap[p] r == ap'[p] IN
         /\ c.pc = "reload"
         /\ \/ ReloadOrStart(TRUE) /\ c.mode = "batch" /\ r = NoCall
            \/ /\ ReloadOrStart(TRUE) /\ c.mode = "one"
               /\ r.pc = "record" /\ SameWork(r, c) /\ r.todo = c.todo
            \/ /\ ReloadOrStart(FALSE)
               /\ r.pc = "rollback" /\ SameWork(r, c) /\ r.todo = c.changed
         /\ UNCHANGED <<db, files, del>>
  <1> DEFINE c == ap[p]
             r == [c EXCEPT !.pc = "record"]
  <1>1. c \in ApplyCall /\ c.mode \in {"batch", "one"}
    BY CallType
  <1>2. c.pc = "reload" /\ UNCHANGED <<db, files, del>>
    BY DEF ReloadNginx
  <1>3. PICK ok \in BOOLEAN :
           /\ ReloadOrStart(ok)
           /\ Becomes(p, IF ~ok THEN RollingBack(c)
                         ELSE IF c.mode = "batch" THEN NoCall ELSE r)
    BY DEF ReloadNginx
  <1>4. SameWork(r, c) /\ r.pc = "record" /\ r.todo = c.todo
    BY <1>1 DEF ApplyCall, SameWork, SameRequest
  <1> HIDE DEF r
  <1>5. CASE ok
    <2>1. ap'[p] = IF c.mode = "batch" THEN NoCall ELSE r
      BY <1>3, <1>5, BecomesCall
    <2>2. ReloadOrStart(TRUE)
      BY <1>3, <1>5
    <2>3. QED
      BY <1>1, <1>2, <1>4, <2>1, <2>2
  <1>6. CASE ~ok
    <2>1. ap'[p] = RollingBack(c)
      BY <1>3, <1>6, BecomesCall
    <2>2. ReloadOrStart(FALSE)
      BY <1>3, <1>6
    <2>3. QED
      BY <1>1, <1>2, <2>1, <2>2, RollingBackFields
  <1>7. QED
    BY <1>5, <1>6

LEMMA CallOfRollback ==
  ASSUME TypeInv, NEW p \in Procs, NEW d \in Domains, rollbackFromBackup(p, d)
  PROVE  LET c == ap[p] r == ap'[p] IN
         /\ c.pc = "rollback" /\ d \in c.todo
         /\ SameWork(r, c) /\ r.todo = c.todo \ {d}
         /\ r.pc = IF c.todo = {d} THEN "recover" ELSE "rollback"
         /\ \/ live' = [live EXCEPT ![d] = bak[d]]
            \/ "rollback" \in Faults
         /\ UNCHANGED <<db, stage, bak, nginx, del>>
  <1> DEFINE c == ap[p]
             r == [c EXCEPT !.todo = @ \ {d},
                            !.pc = IF c.todo = {d} THEN "recover" ELSE @]
  <1>1. c \in ApplyCall
    BY CallType
  <1>2. /\ c.pc = "rollback" /\ d \in c.todo
        /\ \/ live' = [live EXCEPT ![d] = bak[d]]
           \/ "rollback" \in Faults
        /\ UNCHANGED <<db, stage, bak, nginx, del>>
    BY DEF rollbackFromBackup, Next_domain
  <1>3. ap'[p] = r
    BY BecomesCall DEF rollbackFromBackup
  <1>4. /\ SameWork(r, c) /\ r.todo = c.todo \ {d}
        /\ r.pc = IF c.todo = {d} THEN "recover" ELSE c.pc
    BY <1>1 DEF ApplyCall, SameWork, SameRequest
  <1> HIDE DEF r
  <1>5. QED
    BY <1>2, <1>3, <1>4

LEMMA CallOfRecover ==
  ASSUME TypeInv, NEW p \in Procs, RecoverReload(p)
  PROVE  LET c == ap[p] r == ap'[p] IN
         /\ c.pc = "recover" /\ r.pc = "fail"
         /\ SameWork(r, c) /\ r.todo = c.changed
         /\ \E ok \in BOOLEAN : ReloadOrStart(ok)
         /\ UNCHANGED <<db, files, del>>
  <1> DEFINE c == ap[p]
             r == [c EXCEPT !.pc = "fail", !.todo = c.changed]
  <1>1. c \in ApplyCall
    BY CallType
  <1>2. ap'[p] = r
    BY BecomesCall DEF RecoverReload
  <1>3. SameWork(r, c) /\ r.todo = c.changed /\ r.pc = "fail"
    BY <1>1 DEF ApplyCall, SameWork, SameRequest
  <1> HIDE DEF r
  <1>4. QED
    BY <1>2, <1>3 DEF RecoverReload

LEMMA CallOfFail ==
  ASSUME TypeInv, NEW p \in Procs, NEW d \in Domains, RecordFail(p, d)
  PROVE  LET c == ap[p] r == ap'[p] IN
         /\ c.pc = "fail" /\ d \in c.todo
         /\ UpdateApplyResult(d, "fail", c.want[d])
         /\ \/ c.todo = {d} /\ r = NoCall
            \/ r.pc = "fail" /\ SameWork(r, c) /\ r.todo = c.todo \ {d}
         /\ UNCHANGED <<targets, files, nginx, del>>
  <1> DEFINE c == ap[p]
             r == [c EXCEPT !.todo = @ \ {d}]
  <1>1. c \in ApplyCall
    BY CallType
  <1>2. ap'[p] = IF c.todo = {d} THEN NoCall ELSE r
    BY BecomesCall DEF RecordFail
  <1>3. SameWork(r, c) /\ r.pc = c.pc /\ r.todo = c.todo \ {d}
    BY <1>1 DEF ApplyCall, SameWork, SameRequest
  <1> HIDE DEF r
  <1>4. QED
    BY <1>2, <1>3 DEF RecordFail, Next_domain

-----------------------------------------------------------------------------
(* The file a verdict speaks of *)

\* c is about to publish the text it rendered, and about to write ok only for
\* a file that is live; s and l are the staging and the sites directory.
Aims(c, s, l) ==
    /\ c.pc = "publish" => s[c.cur] = c.want[c.cur]
    /\ c.pc = "record" /\ c.verdict = "ok" => l[c.cur] = c.want[c.cur]
    /\ c.mode = "one" /\ c.pc \in {"test", "reload"} => l[c.cur] = c.want[c.cur]

AimInv == \A p \in Procs : Aims(ap[p], stage, live)

\* The file d is replaced by t, or left alone, and the call continues as r.
\* A disabled site is removed; Publish writes the text that was rendered.
FileStep(c, r, d, t) ==
    \/ /\ r = NoCall /\ c.mode = "one" /\ c.pc = "loop"
       /\ UNCHANGED <<live, bak>>
    \/ /\ r = Matched(c, d, t) /\ live[d] = t
       /\ UNCHANGED <<live, bak>>
    \/ /\ r = Swapped(c, d, t)
       /\ live' = [live EXCEPT ![d] = t] /\ bak' = BackedUp(d)
    \/ /\ r = Failed(c, d, t)
       /\ live' = live /\ bak' \in {bak, BackedUp(d)}

FileText(c, d) == IF c.pc = "publish" THEN c.want[d] ELSE NoConf

LEMMA CallOfWrite ==
  ASSUME TypeInv, NEW p \in Procs, NEW d \in Domains, Aims(ap[p], stage, live),
         stageDeleteLiveConf(p, d) \/ (Publish(p) /\ d = ap[p].cur)
  PROVE  LET c == ap[p] IN
         /\ \/ c.pc = "loop" /\ d \in c.todo /\ c.snap[d].site = "disabled"
            \/ c.pc = "publish" /\ d = c.cur
         /\ FileStep(c, ap'[p], d, FileText(c, d))
         /\ UNCHANGED <<db, stage, nginx, del>>
  <1> DEFINE c == ap[p]
             t == FileText(c, d)
  <1>1. CASE stageDeleteLiveConf(p, d)
    <2>1. /\ c.pc = "loop" /\ d \in c.todo /\ c.snap[d].site = "disabled"
          /\ UNCHANGED <<db, stage, nginx, del>> /\ t = NoConf
      BY <1>1 DEF stageDeleteLiveConf, Taking, Next_domain, FileText
    <2>2. FileStep(c, ap'[p], d, NoConf)
      BY <1>1, <2>1, BecomesCall, CallType
         DEF stageDeleteLiveConf, FileStep, SwapLive, Swapped, Matched
    <2>3. QED
      BY <2>1, <2>2
  <1>2. CASE Publish(p) /\ d = c.cur
    <2>1. /\ c.pc = "publish" /\ t = c.want[d] /\ stage[d] = t
          /\ UNCHANGED <<db, stage, nginx, del>>
      BY <1>2 DEF Publish, FileText, Aims
    <2>2. FileStep(c, ap'[p], d, t)
      BY <1>2, <2>1, BecomesCall DEF Publish, FileStep, SwapLive, Swapped, Matched
    <2>3. QED
      BY <1>2, <2>1, <2>2
  <1>3. QED
    BY <1>1, <1>2

LEMMA AimOfRest ==
  ASSUME NEW c, NEW s, NEW l, c.pc \notin {"publish", "record", "test", "reload"}
  PROVE  Aims(c, s, l)
  BY DEF Aims

LEMMA AimOfOne ==
  ASSUME OneWriter, NEW p \in Procs, Aims(ap'[p], stage', live')
  PROVE  AimInv'
  BY DEF OneWriter, AimInv

LEMMA WroteAims ==
  ASSUME NEW c \in ApplyCall, NEW d \in Domains, NEW t \in ConfOrNone,
         NEW s, NEW l, l[d] = t
  PROVE  Aims(Swapped(c, d, t), s, l) /\ Aims(Matched(c, d, t), s, l)
  <1>1. Aims(Swapped(c, d, t), s, l)
    BY SwappedFields DEF Aims
  <1>2. Aims(Matched(c, d, t), s, l)
    BY MatchedFields DEF Aims
  <1>3. QED
    BY <1>1, <1>2

LEMMA FailedAims ==
  ASSUME NEW c \in ApplyCall, NEW d \in Domains, NEW t \in ConfOrNone,
         NEW s, NEW l
  PROVE  Aims(Failed(c, d, t), s, l)
  <1> DEFINE w == Failed(c, d, t)
  <1>1. w.pc = "record" /\ w.verdict = "fail"
    BY FailedFields
  <1> HIDE DEF w
  <1>2. Aims(w, s, l)
    BY <1>1 DEF Aims
  <1>3. QED
    BY <1>2 DEF w

LEMMA WriteAims ==
  ASSUME OneWriter, TypeInv, AimInv, NEW p \in Procs, NEW d \in Domains,
         stageDeleteLiveConf(p, d) \/ (Publish(p) /\ d = ap[p].cur)
  PROVE  AimInv'
  <1> DEFINE t == FileText(ap[p], d)
  <1>1. ap[p] \in ApplyCall /\ FileStep(ap[p], ap'[p], d, t)
    BY CallOfWrite, CallType DEF AimInv
  <1>2. t \in ConfOrNone /\ live \in [Domains -> ConfOrNone]
    BY CallType DEF FileText, ConfOrNone, TypeInv, TypeOK
  <1> HIDE DEF t
  <1>3. CASE ap'[p] = NoCall
    BY <1>3, NoCallFields, AimOfRest, AimOfOne
  <1>4. CASE /\ ap'[p] \in {Swapped(ap[p], d, t), Matched(ap[p], d, t)}
             /\ live'[d] = t
    BY <1>1, <1>2, <1>4, WroteAims, AimOfOne
  <1>5. CASE ap'[p] = Failed(ap[p], d, t)
    BY <1>1, <1>2, <1>5, FailedAims, AimOfOne
  <1>6. QED
    BY <1>1, <1>2, <1>3, <1>4, <1>5 DEF FileStep

LEMMA ApplyStepAims ==
  ASSUME OneWriter, TypeInv, AimInv, NEW p \in Procs, ApplyStep(p)
  PROVE  AimInv'
  <1>0. Aims(ap[p], stage, live) /\ CurIsDomain(ap[p])
    BY CallType DEF AimInv
  <1>1. ASSUME NEW d \in Domains, SkipSite(p, d) PROVE AimInv'
    BY <1>1, CallOfSkip, AimOfRest, AimOfOne
  <1>2. ASSUME NEW d \in Domains, RenderSiteToStaging(p, d) PROVE AimInv'
    <2> DEFINE r == ap'[p]
               text == Rendered(d, ap[p].snap[d])
    <2>1. /\ r.cur = d
          /\ \/ /\ r.pc = "publish" /\ r.want[d] = text
                /\ stage' = [stage EXCEPT ![d] = text]
             \/ r.pc = "record" /\ r.verdict = "fail"
      BY <1>2, CallOfRender
    <2>2. Aims(r, stage', live')
      BY <2>1, CallType DEF Aims, TypeInv, TypeOK
    <2>3. QED
      BY <2>2, AimOfOne
  <1>3. ASSUME NEW d \in Domains, rollbackFromBackup(p, d) PROVE AimInv'
    BY <1>3, CallOfRollback, AimOfRest, AimOfOne
  <1>4. ASSUME NEW d \in Domains, RecordFail(p, d) PROVE AimInv'
    BY <1>4, CallOfFail, NoCallFields, AimOfRest, AimOfOne
  <1>5. CASE RecordVerdict(p)
    BY <1>5, CallOfRecord, NoCallFields, AimOfRest, AimOfOne
  <1>6. CASE EndLoop(p)
    <2>1. ap'[p].pc = "idle" \/ (ap'[p].pc = "test" /\ ap'[p].mode = "batch")
      BY <1>6, CallOfEnd, NoCallFields DEF SameWork, SameRequest
    <2>2. QED
      BY <2>1, AimOfOne DEF Aims
  <1>7. CASE TestBeforeReload(p)
    <2>1. Aims(ap'[p], stage', live')
      BY <1>0, <1>7, CallOfTest DEF Aims, SameWork, SameRequest, files
    <2>2. QED
      BY <2>1, AimOfOne
  <1>8. CASE ReloadNginx(p)
    <2>1. Aims(ap'[p], stage', live')
      BY <1>0, <1>8, CallOfReload, NoCallFields
         DEF Aims, SameWork, SameRequest, files
    <2>2. QED
      BY <2>1, AimOfOne
  <1>9. CASE RecoverReload(p)
    BY <1>9, CallOfRecover, AimOfRest, AimOfOne
  <1>10. ASSUME NEW d \in Domains, stageDeleteLiveConf(p, d) PROVE AimInv'
    BY <1>10, WriteAims
  <1>11. CASE Publish(p)
    BY <1>0, <1>11, WriteAims DEF Publish, CurIsDomain
  <1>12. QED
    BY <1>1, <1>2, <1>3, <1>4, <1>5, <1>6, <1>7, <1>8, <1>9, <1>10, <1>11
       DEF ApplyStep

\* Steps that no Apply makes: they leave the staging directory and the calls
\* alone, and the live files too while a call runs.
LEMMA OutsideStep ==
  ASSUME OneWriter,
         \/ RowOp \/ DeleteStep \/ NginxStop \/ NginxBoot \/ UNCHANGED vars
         \/ \E d \in Domains : SiteDelete(d)
  PROVE  UNCHANGED <<ap, stage>> /\ (NoApply \/ UNCHANGED <<live, bak>>)
  BY DEF OneWriter, RowOp, UpsertSite, UpsertProxyTarget, DisableSiteByDomain,
         EnableSiteByDomain, DeleteStep, SiteDeleteReload, DeleteSiteByDomain,
         NginxStop, NginxBoot, vars, SiteDelete, Accepts, Quiet, files

LEMMA AimStep ==
  ASSUME OneWriter, TypeInv, AimInv, [Next]_vars
  PROVE  AimInv'
  <1>1. CASE \/ RowOp \/ DeleteStep \/ NginxStop \/ NginxBoot \/ UNCHANGED vars
             \/ \E d \in Domains : SiteDelete(d)
    <2>1. UNCHANGED <<ap, stage>> /\ (NoApply \/ UNCHANGED <<live, bak>>)
      BY <1>1, OutsideStep
    <2>2. QED
      BY <2>1 DEF AimInv, Aims, NoApply
  <1>2. ASSUME NEW p \in Procs, StartApply(p) PROVE AimInv'
    BY <1>2, CallOfStart, AimOfRest, AimOfOne
  <1>3. ASSUME NEW p \in Procs, ApplyStep(p) PROVE AimInv'
    BY <1>3, ApplyStepAims
  <1>4. ASSUME NEW p \in Procs, Crash(p) PROVE AimInv'
    BY <1>4, BecomesCall, NoCallFields, AimOfRest, AimOfOne DEF Crash
  <1>5. QED
    BY <1>1, <1>2, <1>3, <1>4 DEF Next

LEMMA AimInvariant == OneWriter => (Spec => []AimInv)
  <1> SUFFICES ASSUME OneWriter PROVE Spec => []AimInv
    OBVIOUS
  <1>1. Init => AimInv
    BY NoCallFields DEF Init, AimInv, Aims
  <1>2. TypeInv /\ AimInv /\ [Next]_vars => AimInv'
    BY AimStep
  <1>3. QED
    BY <1>1, <1>2, TypeInvariant, PTL DEF Spec

\* UpdateApplyResult writes one row, or none; site and settings stay.
LEMMA UpdateEffect ==
  ASSUME TypeInv, NEW d \in Domains, NEW s \in {"ok", "fail"},
         NEW h \in ConfOrNone, UpdateApplyResult(d, s, h)
  PROVE  /\ \A e \in Domains \ {d} : rows'[e] = rows[e]
         /\ \/ rows'[d] = rows[d] /\ (rows[d].site = "absent" \/ "db" \in Faults)
            \/ /\ rows'[d].status = s /\ rows'[d].hash = h /\ ~rows'[d].stale
               /\ rows'[d].site = rows[d].site /\ rows'[d].conf = rows[d].conf
               /\ rows[d].site # "absent"
  <1>1. rows \in [Domains -> Row] /\ rows[d] \in Row
    BY DEF TypeInv, TypeOK
  <1>2. CASE rows' = rows /\ (rows[d].site = "absent" \/ "db" \in Faults)
    BY <1>2
  <1>3. CASE /\ rows[d].site # "absent"
             /\ rows' = [rows EXCEPT ![d] = [@ EXCEPT !.status = s,
                                                      !.stale = FALSE,
                                                      !.hash = h]]
    <2> DEFINE r == [rows[d] EXCEPT !.status = s, !.stale = FALSE, !.hash = h]
    <2>1. /\ r.status = s /\ r.hash = h /\ r.stale = FALSE
          /\ r.site = rows[d].site /\ r.conf = rows[d].conf
      BY <1>1 DEF Row
    <2>2. rows' = [rows EXCEPT ![d] = r]
      BY <1>3
    <2> HIDE DEF r
    <2>3. QED
      BY <1>1, <1>3, <2>1, <2>2
  <1>4. QED
    BY <1>2, <1>3 DEF UpdateApplyResult

\* The rest of the program writes no verdict; it may forget one with its row.
SameVerdict(r, s) == r.status = s.status /\ r.hash = s.hash

LEMMA RowOpEffect ==
  ASSUME TypeInv, RowOp
  PROVE  \A d \in Domains : SameVerdict(rows'[d], rows[d])
  <1>1. \A e \in Domains : rows[e] \in Row
    BY DEF TypeInv, TypeOK
  <1>2. ASSUME NEW d \in Domains, NEW c \in Confs, NEW e \in BOOLEAN, UpsertSite(d, c, e)
        PROVE  \A x \in Domains : SameVerdict(rows'[x], rows[x])
    <2> DEFINE r == [rows[d] EXCEPT !.site = IF e THEN "enabled" ELSE "disabled",
                        !.conf = IF d \in ProxyDomains THEN NoConf ELSE c,
                        !.stale = TRUE]
    <2>1. rows' = [rows EXCEPT ![d] = r] /\ rows \in [Domains -> Row]
      BY <1>2 DEF UpsertSite, TypeInv, TypeOK
    <2>2. SameVerdict(r, rows[d])
      BY <1>1 DEF Row, SameVerdict
    <2> HIDE DEF r
    <2>3. QED
      BY <2>1, <2>2 DEF SameVerdict
  <1>3. ASSUME NEW d \in Domains, NEW c \in Confs, UpsertProxyTarget(d, c)
        PROVE  \A x \in Domains : SameVerdict(rows'[x], rows[x])
    BY <1>3 DEF UpsertProxyTarget, SameVerdict
  <1>4. ASSUME NEW d \in Domains, DisableSiteByDomain(d) \/ EnableSiteByDomain(d)
        PROVE  \A x \in Domains : SameVerdict(rows'[x], rows[x])
    <2>1. PICK s \in {"enabled", "disabled"} :
             rows' = [rows EXCEPT ![d] = [@ EXCEPT !.site = s, !.stale = TRUE]]
      BY <1>4 DEF DisableSiteByDomain, EnableSiteByDomain
    <2> DEFINE r == [rows[d] EXCEPT !.site = s, !.stale = TRUE]
    <2>2. rows' = [rows EXCEPT ![d] = r] /\ rows \in [Domains -> Row]
      BY <2>1 DEF TypeInv, TypeOK
    <2>3. SameVerdict(r, rows[d])
      BY <1>1 DEF Row, SameVerdict
    <2> HIDE DEF r
    <2>4. QED
      BY <2>2, <2>3 DEF SameVerdict
  <1>5. QED
    BY <1>2, <1>3, <1>4 DEF RowOp

\* The steps that write rows.
LEMMA RowsChange ==
  ASSUME [Next]_vars
  PROVE  \/ rows' = rows
         \/ RowOp
         \/ DeleteSiteByDomain
         \/ \E p \in Procs : RecordVerdict(p)
         \/ \E p \in Procs, d \in Domains : RecordFail(p, d)
  <1>1. ASSUME NEW p \in Procs, StartApply(p) \/ Crash(p) PROVE rows' = rows
    BY <1>1 DEF StartApply, StartBatch, StartOne, Crash, db
  <1>2. ASSUME NEW p \in Procs, ApplyStep(p)
        PROVE  \/ rows' = rows
               \/ RecordVerdict(p)
               \/ \E d \in Domains : RecordFail(p, d)
    <2>1. ASSUME NEW d \in Domains,
                 \/ SkipSite(p, d) \/ stageDeleteLiveConf(p, d)
                 \/ RenderSiteToStaging(p, d) \/ rollbackFromBackup(p, d)
          PROVE  rows' = rows
      BY <2>1 DEF SkipSite, stageDeleteLiveConf, RenderSiteToStaging,
                  rollbackFromBackup, db
    <2>2. ASSUME \/ Publish(p) \/ EndLoop(p) \/ TestBeforeReload(p)
                 \/ ReloadNginx(p) \/ RecoverReload(p)
          PROVE  rows' = rows
      BY <2>2 DEF Publish, EndLoop, TestBeforeReload, ReloadNginx, RecoverReload, db
    <2>3. QED
      BY <1>2, <2>1, <2>2 DEF ApplyStep
  <1>3. ASSUME \/ \E d \in Domains : SiteDelete(d)
               \/ SiteDeleteReload \/ NginxStop \/ NginxBoot \/ UNCHANGED vars
        PROVE  rows' = rows
    BY <1>3 DEF SiteDelete, SiteDeleteReload, NginxStop, NginxBoot, vars, db
  <1>4. QED
    BY <1>1, <1>2, <1>3 DEF Next, DeleteStep

OkIsTrue(d) ==
    /\ rows'[d].status = "ok"
    /\ rows[d].status # "ok" \/ rows[d].hash # rows'[d].hash
    => rows'[d].hash = live[d]

LEMMA OkStep ==
  ASSUME OneWriter, TypeInv, AimInv, [Next]_vars, NEW d \in Domains
  PROVE  OkIsTrue(d)
  <1>1. CASE rows' = rows
    BY <1>1 DEF OkIsTrue
  <1>2. CASE RowOp
    BY <1>2, RowOpEffect DEF SameVerdict, OkIsTrue
  <1>3. CASE DeleteSiteByDomain
    <2>1. rows'[d] = rows[d] \/ rows'[d] = NoRow
      BY <1>3 DEF DeleteSiteByDomain, TypeInv, TypeOK
    <2>2. QED
      BY <2>1 DEF NoRow, OkIsTrue
  <1>4. ASSUME NEW p \in Procs, RecordVerdict(p) PROVE OkIsTrue(d)
    <2> DEFINE x == ap[p].cur
               v == ap[p].verdict
               h == ap[p].want[x]
    <2>1. ap[p].pc = "record" /\ x \in Domains /\ UpdateApplyResult(x, v, h)
      BY <1>4, CallOfRecord
    <2>2. v \in {"ok", "fail"} /\ h \in ConfOrNone
      BY <2>1, CallType
    <2>3. v = "ok" => h = live[x]
      BY <2>1 DEF AimInv, Aims
    <2> HIDE DEF x, v, h
    <2>4. d # x => rows'[d] = rows[d]
      BY <2>1, <2>2, UpdateEffect
    <2>5. rows'[x] = rows[x] \/ (rows'[x].status = v /\ rows'[x].hash = h)
      BY <2>1, <2>2, UpdateEffect
    <2>6. QED
      BY <2>2, <2>3, <2>4, <2>5 DEF OkIsTrue
  <1>5. ASSUME NEW p \in Procs, NEW x \in Domains, RecordFail(p, x)
        PROVE  OkIsTrue(d)
    <2>1. UpdateApplyResult(x, "fail", ap[p].want[x]) /\ ap[p].want[x] \in ConfOrNone
      BY <1>5, CallOfFail, CallType
    <2>2. d # x => rows'[d] = rows[d]
      BY <2>1, UpdateEffect
    <2>3. rows'[x] = rows[x] \/ rows'[x].status = "fail"
      BY <2>1, UpdateEffect
    <2>4. QED
      BY <2>2, <2>3 DEF OkIsTrue
  <1>6. QED
    BY <1>1, <1>2, <1>3, <1>4, <1>5, RowsChange

\* Whatever fails and whenever the process dies, UpdateApplyResult writes ok
\* only with the hash of the file that is live at that moment: what the run
\* with every fault checks for two sites, for any number of sites and texts.
THEOREM OkIsTruthful == OneWriter => (Spec => OkIsWrittenForLiveFile)
  <1> SUFFICES ASSUME OneWriter PROVE Spec => OkIsWrittenForLiveFile
    OBVIOUS
  <1>1. TypeInv /\ AimInv /\ [Next]_vars => [\A d \in Domains : OkIsTrue(d)]_vars
    BY OkStep
  <1>2. (\A d \in Domains : OkIsTrue(d)) <=>
           \A d \in Domains :
              /\ rows'[d].status = "ok"
              /\ rows[d].status # "ok" \/ rows[d].hash # rows'[d].hash
              => rows'[d].hash = live[d]
    BY DEF OkIsTrue
  <1>3. QED
    BY <1>1, <1>2, TypeInvariant, AimInvariant, PTL DEF Spec, OkIsWrittenForLiveFile

-----------------------------------------------------------------------------
(* What a call knows of the directories it changes *)

\* The backup of d is the file that was live before the call.
Kept(c, d, b) == c.before[d] # NoConf => b[d] = c.before[d]

\* d is as it was before the call, or is a backup where there was no file.
Back(c, d, l, b) ==
    \/ l[d] = c.before[d]
    \/ c.before[d] = NoConf /\ l[d] = b[d]

\* l and b, the sites and the backup directory, as c has made them: until the
\* reload what it changed is the new text and what it did not is untouched;
\* the rollback goes through what was changed and leaves the rest alone.
Tracks(c, l, b) ==
    /\ c.mode = "one" => c.changed \subseteq {c.cur}
    /\ c.mode = "one" /\ c.pc \in {"loop", "publish"} => c.changed = {}
    /\ c.pc \in Forward => \A d \in c.changed : l[d] = c.want[d]
    /\ c.pc \in Forward \cup {"rollback"} => \A d \in c.changed : Kept(c, d, b)
    /\ c.pc \in {"rollback", "fail"} => c.todo \subseteq c.changed
    /\ c.pc = "rollback" => \A d \in c.changed \ c.todo : Back(c, d, l, b)
    /\ c.pc \in {"recover", "fail"} => \A d \in c.changed : Back(c, d, l, b)
    /\ c.pc # "idle" => \A d \in Domains \ c.changed : l[d] = c.before[d]

TrackInv == \A p \in Procs : Tracks(ap[p], live, bak)

LEMMA SingleIsOneWriter == SingleWorker => OneWriter
  BY DEF SingleWorker, OneWriter

LEMMA TrackOfOne ==
  ASSUME SingleWorker, NEW p \in Procs, Tracks(ap'[p], live', bak')
  PROVE  TrackInv'
  BY DEF SingleWorker, TrackInv

LEMMA IdleTracks ==
  ASSUME NEW l, NEW b
  PROVE  Tracks(NoCall, l, b)
  BY NoCallFields DEF Tracks, Forward

\* c is about to handle d, which it has not changed yet.
MayWrite(c, d) ==
    /\ c \in ApplyCall /\ d \in Domains /\ d \notin c.changed
    /\ c.pc \in {"loop", "publish"}

\* Only d differs between the directories x and y.
OnlyAt(d, x, y) == \A e \in Domains : e # d => y[e] = x[e]

LEMMA SwappedTracks ==
  ASSUME NEW c, NEW d, MayWrite(c, d), NEW t \in ConfOrNone,
         NEW l, NEW b, Tracks(c, l, b),
         NEW l1, NEW b1, OnlyAt(d, l, l1), OnlyAt(d, b, b1),
         l1[d] = t, l[d] # NoConf => b1[d] = l[d]
  PROVE  Tracks(Swapped(c, d, t), l1, b1)
  <1> DEFINE w == Swapped(c, d, t)
  <1>1. /\ w.mode = c.mode /\ w.before = c.before /\ w.cur = d /\ w.want[d] = t
        /\ \A e \in Domains \ {d} : w.want[e] = c.want[e]
        /\ w.pc \in {"test", "record"} /\ w.changed = c.changed \cup {d}
    BY SwappedFields DEF MayWrite, SameRequest
  <1>2. c.changed \subseteq Domains /\ d \in Domains /\ d \notin c.changed
    BY DEF MayWrite, ApplyCall
  <1> HIDE DEF w
  <1>3. c.mode = "one" => w.changed = {d}
    BY <1>1 DEF MayWrite, Tracks
  <1>4. \A e \in w.changed : l1[e] = w.want[e]
    BY <1>1, <1>2 DEF MayWrite, Tracks, Forward, OnlyAt
  <1>5. l[d] = c.before[d]
    BY <1>2 DEF MayWrite, Tracks
  <1>6. \A e \in w.changed : Kept(w, e, b1)
    BY <1>1, <1>2, <1>5 DEF MayWrite, Tracks, Forward, OnlyAt, Kept
  <1>7. \A e \in Domains \ w.changed : l1[e] = w.before[e]
    BY <1>1, <1>2 DEF MayWrite, Tracks, OnlyAt
  <1>8. Tracks(w, l1, b1)
    BY <1>1, <1>3, <1>4, <1>6, <1>7 DEF Tracks
  <1>9. QED
    BY <1>8 DEF w

LEMMA MatchedTracks ==
  ASSUME NEW c, NEW d, MayWrite(c, d), NEW t \in ConfOrNone,
         NEW l, NEW b, Tracks(c, l, b)
  PROVE  Tracks(Matched(c, d, t), l, b)
  <1> DEFINE w == Matched(c, d, t)
  <1>1. /\ w.mode = c.mode /\ w.before = c.before /\ w.changed = c.changed
        /\ \A e \in Domains \ {d} : w.want[e] = c.want[e]
        /\ w.pc = "record"
    BY MatchedFields DEF MayWrite, SameRequest
  <1>2. c.changed \subseteq Domains /\ d \in Domains /\ d \notin c.changed
    BY DEF MayWrite, ApplyCall
  <1> HIDE DEF w
  <1>3. c.mode = "one" => w.changed = {}
    BY <1>1 DEF MayWrite, Tracks
  <1>4. \A e \in w.changed : l[e] = w.want[e] /\ Kept(w, e, b)
    BY <1>1, <1>2 DEF MayWrite, Tracks, Forward, Kept
  <1>5. \A e \in Domains \ w.changed : l[e] = w.before[e]
    BY <1>1 DEF MayWrite, Tracks
  <1>6. Tracks(w, l, b)
    BY <1>1, <1>3, <1>4, <1>5 DEF Tracks
  <1>7. QED
    BY <1>6 DEF w

LEMMA FailedTracks ==
  ASSUME NEW c, NEW d, MayWrite(c, d), NEW t \in ConfOrNone,
         NEW l, NEW b, Tracks(c, l, b), NEW b1, OnlyAt(d, b, b1)
  PROVE  Tracks(Failed(c, d, t), l, b1)
  <1> DEFINE w == Failed(c, d, t)
  <1>1. /\ w.mode = c.mode /\ w.before = c.before /\ w.changed = c.changed
        /\ \A e \in Domains \ {d} : w.want[e] = c.want[e]
        /\ w.pc = "record"
    BY FailedFields DEF MayWrite, SameRequest
  <1>2. c.changed \subseteq Domains /\ d \in Domains /\ d \notin c.changed
    BY DEF MayWrite, ApplyCall
  <1> HIDE DEF w
  <1>3. c.mode = "one" => w.changed = {}
    BY <1>1 DEF MayWrite, Tracks
  <1>4. \A e \in w.changed : l[e] = w.want[e] /\ Kept(w, e, b1)
    BY <1>1, <1>2 DEF MayWrite, Tracks, Forward, Kept, OnlyAt
  <1>5. \A e \in Domains \ w.changed : l[e] = w.before[e]
    BY <1>1 DEF MayWrite, Tracks
  <1>6. Tracks(w, l, b1)
    BY <1>1, <1>3, <1>4, <1>5 DEF Tracks
  <1>7. QED
    BY <1>6 DEF w

\* What the running call may write next it has not written.
LEMMA WriteIsNew ==
  ASSUME TypeInv, NEW p \in Procs, Ahead(ap[p]), NEW d \in Domains,
         \/ ap[p].pc = "loop" /\ d \in ap[p].todo
         \/ ap[p].pc = "publish" /\ d = ap[p].cur
  PROVE  MayWrite(ap[p], d)
  BY CallType DEF MayWrite, Ahead

LEMMA BackedUpOnlyAt ==
  ASSUME TypeInv, NEW d \in Domains, bak' \in {bak, BackedUp(d)}
  PROVE  /\ OnlyAt(d, bak, bak')
         /\ bak' = BackedUp(d) => (live[d] # NoConf => bak'[d] = live[d])
  BY DEF OnlyAt, BackedUp, TypeInv, TypeOK

LEMMA WriteTracks ==
  ASSUME SingleWorker, TypeInv, SafeInv, AimInv, TrackInv,
         NEW p \in Procs, NEW d \in Domains,
         stageDeleteLiveConf(p, d) \/ (Publish(p) /\ d = ap[p].cur)
  PROVE  TrackInv'
  <1> DEFINE t == FileText(ap[p], d)
  <1>1. /\ FileStep(ap[p], ap'[p], d, t)
        /\ \/ ap[p].pc = "loop" /\ d \in ap[p].todo
           \/ ap[p].pc = "publish" /\ d = ap[p].cur
    BY CallOfWrite DEF AimInv
  <1>2. MayWrite(ap[p], d) /\ Tracks(ap[p], live, bak)
    BY <1>1, WriteIsNew DEF SafeInv, TrackInv
  <1>3. t \in ConfOrNone
    BY CallType DEF FileText, ConfOrNone
  <1> HIDE DEF t
  <1>4. CASE ap'[p] = NoCall
    BY <1>4, IdleTracks, TrackOfOne
  <1>5. CASE ap'[p] = Matched(ap[p], d, t) /\ UNCHANGED <<live, bak>>
    <2>1. Tracks(ap'[p], live, bak)
      BY <1>2, <1>3, <1>5, MatchedTracks
    <2>2. QED
      BY <1>5, <2>1, TrackOfOne
  <1>6. CASE /\ ap'[p] = Swapped(ap[p], d, t)
             /\ live' = [live EXCEPT ![d] = t] /\ bak' = BackedUp(d)
    <2>1. OnlyAt(d, live, live') /\ live'[d] = t
      BY <1>6 DEF OnlyAt, TypeInv, TypeOK
    <2>2. OnlyAt(d, bak, bak') /\ (live[d] # NoConf => bak'[d] = live[d])
      BY <1>6, BackedUpOnlyAt
    <2>3. Tracks(Swapped(ap[p], d, t), live', bak')
      BY <1>2, <1>3, <2>1, <2>2, SwappedTracks
    <2>4. QED
      BY <1>6, <2>3, TrackOfOne
  <1>7. CASE /\ ap'[p] = Failed(ap[p], d, t)
             /\ live' = live /\ bak' \in {bak, BackedUp(d)}
    <2>1. OnlyAt(d, bak, bak')
      BY <1>7, BackedUpOnlyAt
    <2>2. Tracks(ap'[p], live, bak')
      BY <1>2, <1>3, <1>7, <2>1, FailedTracks
    <2>3. QED
      BY <1>7, <2>2, TrackOfOne
  <1>8. QED
    BY <1>1, <1>4, <1>5, <1>6, <1>7 DEF FileStep

LEMMA RollbackTracks ==
  ASSUME SingleWorker, TypeInv, TrackInv, NEW p \in Procs, NEW d \in Domains,
         rollbackFromBackup(p, d)
  PROVE  TrackInv'
  <1> DEFINE c == ap[p]
             r == ap'[p]
  <1>1. /\ c.pc = "rollback" /\ d \in c.todo
        /\ SameWork(r, c) /\ r.todo = c.todo \ {d}
        /\ r.pc = IF c.todo = {d} THEN "recover" ELSE "rollback"
        /\ live' = [live EXCEPT ![d] = bak[d]] /\ bak' = bak
    BY CallOfRollback DEF SingleWorker
  <1>2. Tracks(c, live, bak) /\ c.changed \subseteq Domains
    BY CallType DEF TrackInv
  <1>3. live'[d] = bak[d] /\ \A e \in Domains : e # d => live'[e] = live[e]
    BY <1>1 DEF TypeInv, TypeOK
  <1> HIDE DEF c, r
  <1>4. d \in c.changed /\ Kept(c, d, bak)
    BY <1>1, <1>2 DEF Tracks
  <1>5. Back(r, d, live', bak)
    BY <1>1, <1>3, <1>4 DEF Kept, Back, SameWork, SameRequest
  <1>6. \A e \in r.changed \ r.todo : Back(r, e, live', bak)
    BY <1>1, <1>2, <1>3, <1>5 DEF Tracks, Back, SameWork, SameRequest
  <1>7. \A e \in Domains \ r.changed : live'[e] = r.before[e]
    BY <1>1, <1>2, <1>3, <1>4 DEF Tracks, SameWork, SameRequest
  <1>8. /\ r.mode = "one" => r.changed \subseteq {r.cur}
        /\ r.todo \subseteq r.changed
        /\ \A e \in r.changed : Kept(r, e, bak)
        /\ r.pc = "recover" => r.todo = {}
    BY <1>1, <1>2 DEF Tracks, Kept, SameWork, SameRequest
  <1>9. Tracks(r, live', bak)
    BY <1>1, <1>6, <1>7, <1>8 DEF Tracks, Forward
  <1>10. QED
    BY <1>1, <1>9, TrackOfOne DEF r

LEMMA ApplyStepTracks ==
  ASSUME SingleWorker, TypeInv, SafeInv, AimInv, TrackInv, NEW p \in Procs,
         ApplyStep(p)
  PROVE  TrackInv'
  <1> USE DEF SameWork, SameRequest, files
  <1>0. Tracks(ap[p], live, bak) /\ CurIsDomain(ap[p])
    BY CallType DEF TrackInv
  <1>1. ASSUME NEW d \in Domains, SkipSite(p, d) PROVE TrackInv'
    <2>1. Tracks(ap'[p], live', bak')
      BY <1>0, <1>1, CallOfSkip DEF Tracks, Forward, Kept
    <2>2. QED
      BY <2>1, TrackOfOne
  <1>2. ASSUME NEW d \in Domains, RenderSiteToStaging(p, d) PROVE TrackInv'
    <2> DEFINE c == ap[p]
               r == ap'[p]
    <2>1. /\ c.pc = "loop" /\ d \in c.todo
          /\ r.mode = c.mode /\ r.before = c.before /\ r.changed = c.changed
          /\ r.pc \in {"publish", "record"} /\ live' = live /\ bak' = bak
          /\ \A e \in Domains \ {d} : r.want[e] = c.want[e]
      BY <1>2, CallOfRender
    <2>2. d \notin c.changed /\ c.changed \subseteq Domains
      BY <2>1, CallType DEF SafeInv, Ahead
    <2> HIDE DEF c, r
    <2>3. \A e \in r.changed : live[e] = r.want[e] /\ Kept(r, e, bak)
      BY <1>0, <2>1, <2>2 DEF Tracks, Forward, Kept, c
    <2>4. c.mode = "one" => r.changed = {}
      BY <1>0, <2>1 DEF Tracks, c
    <2>5. \A e \in Domains \ r.changed : live[e] = r.before[e]
      BY <1>0, <2>1 DEF Tracks, c
    <2>6. Tracks(r, live, bak)
      BY <2>1, <2>3, <2>4, <2>5 DEF Tracks
    <2>7. QED
      BY <2>1, <2>6, TrackOfOne DEF r
  <1>3. ASSUME NEW d \in Domains, rollbackFromBackup(p, d) PROVE TrackInv'
    BY <1>3, RollbackTracks
  <1>4. ASSUME NEW d \in Domains, RecordFail(p, d) PROVE TrackInv'
    <2>1. Tracks(ap'[p], live', bak')
      BY <1>0, <1>4, CallOfFail, IdleTracks DEF Tracks, Forward, Back
    <2>2. QED
      BY <2>1, TrackOfOne
  <1>5. CASE RecordVerdict(p)
    <2>1. live' = live /\ bak' = bak
      BY <1>5, CallOfRecord
    <2>2. CASE ap'[p].pc = "loop" /\ ap'[p].mode = "batch" /\ ap[p].pc = "record"
      <3>1. /\ ap'[p].mode = ap[p].mode /\ ap'[p].before = ap[p].before
            /\ ap'[p].changed = ap[p].changed /\ ap'[p].want = ap[p].want
            /\ ap'[p].cur = ap[p].cur
            /\ ap'[p].pc = "rollback" => ap'[p].todo = ap'[p].changed
        BY <1>5, <2>2, CallOfRecord, NoCallFields
      <3>2. Tracks(ap'[p], live, bak)
        BY <1>0, <2>2, <3>1 DEF Tracks, Forward, Kept
      <3>3. QED
        BY <2>1, <3>2, TrackOfOne
    <2>3. CASE ap'[p] = NoCall
      BY <2>3, IdleTracks, TrackOfOne
    <2>4. QED
      BY <1>5, <2>2, <2>3, CallOfRecord
  <1>6. CASE EndLoop(p)
    <2>1. live' = live /\ bak' = bak
      BY <1>6, CallOfEnd
    <2>2. CASE ap'[p].pc = "test" /\ ap'[p].mode = "batch" /\ ap[p].pc = "loop"
      <3>1. /\ ap'[p].mode = ap[p].mode /\ ap'[p].before = ap[p].before
            /\ ap'[p].changed = ap[p].changed /\ ap'[p].want = ap[p].want
            /\ ap'[p].cur = ap[p].cur
            /\ ap'[p].pc = "rollback" => ap'[p].todo = ap'[p].changed
        BY <1>6, <2>2, CallOfEnd, NoCallFields
      <3>2. Tracks(ap'[p], live, bak)
        BY <1>0, <2>2, <3>1 DEF Tracks, Forward, Kept
      <3>3. QED
        BY <2>1, <3>2, TrackOfOne
    <2>3. CASE ap'[p] = NoCall
      BY <2>3, IdleTracks, TrackOfOne
    <2>4. QED
      BY <1>6, <2>2, <2>3, CallOfEnd
  <1>7. CASE TestBeforeReload(p)
    <2>1. Tracks(ap'[p], live', bak')
      BY <1>0, <1>7, CallOfTest DEF Tracks, Forward, Kept
    <2>2. QED
      BY <2>1, TrackOfOne
  <1>8. CASE ReloadNginx(p)
    <2>1. live' = live /\ bak' = bak
      BY <1>8, CallOfReload
    <2>2. CASE ap'[p].pc \in {"record", "rollback"} /\ ap[p].pc = "reload"
      <3>1. /\ ap'[p].mode = ap[p].mode /\ ap'[p].before = ap[p].before
            /\ ap'[p].changed = ap[p].changed /\ ap'[p].want = ap[p].want
            /\ ap'[p].cur = ap[p].cur
            /\ ap'[p].pc = "rollback" => ap'[p].todo = ap'[p].changed
        BY <1>8, <2>2, CallOfReload, NoCallFields
      <3>2. Tracks(ap'[p], live, bak)
        BY <1>0, <2>2, <3>1 DEF Tracks, Forward, Kept
      <3>3. QED
        BY <2>1, <3>2, TrackOfOne
    <2>3. CASE ap'[p] = NoCall
      BY <2>3, IdleTracks, TrackOfOne
    <2>4. QED
      BY <1>8, <2>2, <2>3, CallOfReload
  <1>9. CASE RecoverReload(p)
    <2>1. Tracks(ap'[p], live', bak')
      BY <1>0, <1>9, CallOfRecover DEF Tracks, Forward, Back
    <2>2. QED
      BY <2>1, TrackOfOne
  <1>10. ASSUME NEW d \in Domains, stageDeleteLiveConf(p, d) PROVE TrackInv'
    BY <1>10, WriteTracks
  <1>11. CASE Publish(p)
    BY <1>0, <1>11, WriteTracks DEF Publish, CurIsDomain
  <1>12. QED
    BY <1>1, <1>2, <1>3, <1>4, <1>5, <1>6, <1>7, <1>8, <1>9, <1>10, <1>11
       DEF ApplyStep

LEMMA StartTracks ==
  ASSUME SingleWorker, TypeInv, NEW p \in Procs, StartApply(p)
  PROVE  TrackInv'
  <1>1. /\ ap'[p].pc = "loop" /\ ap'[p].changed = {} /\ ap'[p].before = live
        /\ live' = live
    BY CallOfStart DEF files
  <1>2. Tracks(ap'[p], live', bak')
    BY <1>1 DEF Tracks, Forward
  <1>3. QED
    BY <1>2, TrackOfOne

LEMMA TrackStep ==
  ASSUME SingleWorker, TypeInv, SafeInv, AimInv, TrackInv, [Next]_vars
  PROVE  TrackInv'
  <1>1. CASE \/ RowOp \/ DeleteStep \/ NginxStop \/ NginxBoot \/ UNCHANGED vars
             \/ \E d \in Domains : SiteDelete(d)
    <2>1. ap' = ap /\ (NoApply \/ UNCHANGED <<live, bak>>)
      BY <1>1, OutsideStep, SingleIsOneWriter
    <2>2. CASE UNCHANGED <<live, bak>>
      BY <2>1, <2>2 DEF TrackInv
    <2>3. CASE NoApply
      <3>1. ASSUME NEW p \in Procs PROVE Tracks(ap'[p], live', bak')
        BY <2>1, <2>3 DEF TrackInv, Tracks, Forward, NoApply
      <3>2. QED
        BY <3>1 DEF TrackInv
    <2>4. QED
      BY <2>1, <2>2, <2>3
  <1>2. ASSUME NEW p \in Procs, StartApply(p) PROVE TrackInv'
    BY <1>2, StartTracks
  <1>3. ASSUME NEW p \in Procs, ApplyStep(p) PROVE TrackInv'
    BY <1>3, ApplyStepTracks
  <1>4. ASSUME NEW p \in Procs, Crash(p) PROVE TrackInv'
    BY <1>4 DEF Crash, SingleWorker
  <1>5. QED
    BY <1>1, <1>2, <1>3, <1>4 DEF Next

LEMMA TrackInvariant == SingleWorker => (Spec => []TrackInv)
  <1> SUFFICES ASSUME SingleWorker PROVE Spec => []TrackInv
    OBVIOUS
  <1>1. Init => TrackInv
    BY IdleTracks DEF Init, TrackInv
  <1>2. TypeInv /\ SafeInv /\ AimInv /\ TrackInv /\ [Next]_vars => TrackInv'
    BY TrackStep
  <1>3. Spec => []AimInv
    BY AimInvariant, SingleIsOneWriter
  <1>4. QED
    BY <1>1, <1>2, <1>3, TypeInvariant, SafeInvariant, PTL DEF Spec

-----------------------------------------------------------------------------
(* All or nothing *)

\* What is loaded has been tested: at a reload, the first or the one after
\* the rollback, the call excuses no invalid file.
LEMMA LoadIsValid ==
  ASSUME SingleWorker, SafeInv, NEW p \in Procs,
         ap[p].pc \in {"reload", "recover", "fail"}
  PROVE  Valid(live)
  BY OnlyCall DEF Excuses, Valid, Fine

LEMMA LoadEffect ==
  ASSUME Valid(live), NEW ok \in BOOLEAN, ReloadOrStart(ok) \/ Reload(ok)
  PROVE  /\ UNCHANGED nginx \/ (up' = TRUE /\ running' = live)
         /\ ok => up' = TRUE /\ running' = live
         /\ up /\ "reload" \notin Faults => up' = TRUE /\ running' = live
         /\ up /\ "reload" \notin Faults => ok
  BY DEF ReloadOrStart, Reload, LoadLive

LEMMA LoadedEffect ==
  ASSUME Valid(live), ReloadOrStart(TRUE)
  PROVE  up' = TRUE /\ running' = live
  BY DEF ReloadOrStart, LoadLive

\* The assumption that a call of applyOne is not interrupted by nginx going
\* down between its reload and its verdict.
KeepsNginx == SingleWorker /\ "stop" \notin Faults

\* applyOne writes its verdict after nginx has loaded what it changed.
LoadedInv ==
    \A p \in Procs :
        ap[p].mode = "one" /\ ap[p].pc = "record" =>
            ap[p].changed = {} \/ running = live

LEMMA LoadedOfOne ==
  ASSUME SingleWorker, NEW p \in Procs,
         ap'[p].mode = "one" /\ ap'[p].pc = "record" =>
            ap'[p].changed = {} \/ running' = live'
  PROVE  LoadedInv'
  BY DEF SingleWorker, LoadedInv

LEMMA LoadedApplyStep ==
  ASSUME SingleWorker, TypeInv, SafeInv, AimInv, TrackInv, LoadedInv,
         NEW p \in Procs, ApplyStep(p)
  PROVE  LoadedInv'
  <1> DEFINE Good1(r) == r.mode = "one" /\ r.pc = "record" =>
                            r.changed = {} \/ running' = live'
  <1>0. /\ Aims(ap[p], stage, live) /\ Tracks(ap[p], live, bak)
        /\ CurIsDomain(ap[p]) /\ ap[p].mode \in {"batch", "one"}
    BY CallType DEF AimInv, TrackInv
  <1>1. ASSUME NEW d \in Domains,
               stageDeleteLiveConf(p, d) \/ (Publish(p) /\ d = ap[p].cur)
        PROVE  LoadedInv'
    <2> DEFINE t == FileText(ap[p], d)
    <2>1. FileStep(ap[p], ap'[p], d, t) /\ ap[p].pc \in {"loop", "publish"}
      BY <1>0, <1>1, CallOfWrite
    <2>2. ap[p].mode = "one" => ap[p].changed = {}
      BY <1>0, <2>1 DEF Tracks
    <2>3. ap[p] \in ApplyCall /\ t \in ConfOrNone
      BY CallType DEF FileText, ConfOrNone
    <2> HIDE DEF t
    <2>4. CASE ap'[p] = NoCall
      BY <2>4, NoCallFields, LoadedOfOne
    <2>5. CASE ap'[p] = Matched(ap[p], d, t)
      BY <2>2, <2>3, <2>5, MatchedFields, LoadedOfOne DEF SameRequest
    <2>6. CASE ap'[p] = Swapped(ap[p], d, t)
      <3>1. /\ ap'[p].mode = ap[p].mode
            /\ ap'[p].pc = IF ap[p].mode = "one" THEN "test" ELSE "record"
        BY <2>3, <2>6, SwappedFields DEF SameRequest
      <3>2. QED
        BY <3>1, LoadedOfOne
    <2>7. CASE ap'[p] = Failed(ap[p], d, t)
      BY <2>2, <2>3, <2>7, FailedFields, LoadedOfOne DEF SameRequest
    <2>8. QED
      BY <2>1, <2>4, <2>5, <2>6, <2>7 DEF FileStep
  <1>2. ASSUME NEW d \in Domains, RenderSiteToStaging(p, d) PROVE LoadedInv'
    <2>1. /\ ap'[p].mode = ap[p].mode /\ ap'[p].changed = ap[p].changed
          /\ ap[p].pc = "loop"
      BY <1>2, CallOfRender DEF SameRequest
    <2>2. QED
      BY <1>0, <2>1, LoadedOfOne DEF Tracks
  <1>3. ASSUME NEW d \in Domains,
               SkipSite(p, d) \/ rollbackFromBackup(p, d) \/ RecordFail(p, d)
        PROVE  LoadedInv'
    <2>1. ap'[p].pc # "record"
      BY <1>3, CallOfSkip, CallOfRollback, CallOfFail, NoCallFields
    <2>2. QED
      BY <2>1, LoadedOfOne
  <1>4. CASE RecordVerdict(p) \/ EndLoop(p) \/ TestBeforeReload(p) \/ RecoverReload(p)
    <2>1. ap'[p].pc # "record"
      BY <1>4, CallOfRecord, CallOfEnd, CallOfTest, CallOfRecover, NoCallFields
    <2>2. QED
      BY <2>1, LoadedOfOne
  <1>5. CASE ReloadNginx(p)
    <2>1. Valid(live) /\ live' = live
      BY <1>5, CallOfReload, LoadIsValid DEF files
    <2>2. \/ ap'[p].pc \in {"idle", "rollback"}
          \/ running' = live
      BY <1>5, <2>1, CallOfReload, LoadedEffect, NoCallFields
    <2>3. QED
      BY <2>1, <2>2, LoadedOfOne
  <1>6. CASE Publish(p)
    BY <1>0, <1>1, <1>6 DEF Publish, CurIsDomain
  <1>7. QED
    BY <1>1, <1>2, <1>3, <1>4, <1>5, <1>6 DEF ApplyStep

LEMMA LoadedStep ==
  ASSUME KeepsNginx, TypeInv, SafeInv, AimInv, TrackInv, LoadedInv, [Next]_vars
  PROVE  LoadedInv'
  <1>0. SingleWorker
    BY DEF KeepsNginx
  <1>1. CASE RowOp \/ DeleteSiteByDomain \/ UNCHANGED vars
    <2>1. UNCHANGED <<ap, live, running>>
      BY <1>1 DEF RowOp, UpsertSite, UpsertProxyTarget, DisableSiteByDomain,
                  EnableSiteByDomain, DeleteSiteByDomain, vars, files, nginx
    <2>2. QED
      BY <2>1 DEF LoadedInv
  <1>2. CASE SiteDeleteReload
    <2>1. ap' = ap /\ live' = live /\ (running' = live \/ running' = running)
      BY <1>2 DEF SiteDeleteReload, Reload, LoadLive, files, nginx
    <2>2. QED
      BY <2>1 DEF LoadedInv
  <1>3. ASSUME NEW d \in Domains, SiteDelete(d) PROVE LoadedInv'
    <2>1. NoApply /\ ap' = ap
      BY <1>0, <1>3 DEF SingleWorker, SiteDelete, Accepts, Quiet
    <2>2. QED
      BY <2>1 DEF LoadedInv, NoApply
  <1>4. CASE NginxStop \/ NginxBoot
    BY <1>4 DEF KeepsNginx, NginxStop, NginxBoot
  <1>5. ASSUME NEW p \in Procs, StartApply(p) PROVE LoadedInv'
    BY <1>0, <1>5, CallOfStart, LoadedOfOne
  <1>6. ASSUME NEW p \in Procs, ApplyStep(p) PROVE LoadedInv'
    BY <1>0, <1>6, LoadedApplyStep
  <1>7. ASSUME NEW p \in Procs, Crash(p) PROVE LoadedInv'
    BY <1>0, <1>7 DEF Crash, SingleWorker
  <1>8. QED
    BY <1>1, <1>2, <1>3, <1>4, <1>5, <1>6, <1>7 DEF Next, DeleteStep

LEMMA LoadedInvariant == KeepsNginx => (Spec => []LoadedInv)
  <1> SUFFICES ASSUME KeepsNginx PROVE Spec => []LoadedInv
    OBVIOUS
  <1>1. Init => LoadedInv
    BY NoCallFields DEF Init, LoadedInv
  <1>2. TypeInv /\ SafeInv /\ AimInv /\ TrackInv /\ LoadedInv /\ [Next]_vars
        => LoadedInv'
    BY LoadedStep
  <1>3. Spec => [](SafeInv /\ AimInv /\ TrackInv)
    BY SafeInvariant, AimInvariant, TrackInvariant, SingleIsOneWriter, PTL
       DEF KeepsNginx
  <1>4. QED
    BY <1>1, <1>2, <1>3, TypeInvariant, PTL DEF Spec

\* The files that p changed are as they were before the call.
Undone(p) ==
    \A d \in ap[p].changed :
        \/ live'[d] = ap[p].before[d]
        \/ ap[p].before[d] = NoConf /\ live'[d] = bak'[d]

\* A call returns from the reload of a batch, from the verdict of applyOne, or
\* from the last verdict of a rollback.
LEMMA AtomicStep ==
  ASSUME KeepsNginx, TypeInv, SafeInv, AimInv, TrackInv, LoadedInv,
         [Next]_vars, NEW p \in Procs, Returns(p)
  PROVE  Installed(p) \/ Undone(p)
  <1>0. /\ SingleWorker /\ Tracks(ap[p], live, bak) /\ CurIsDomain(ap[p])
        /\ ap[p].pc # "idle" /\ ap'[p].pc = "idle" /\ ap[p].changed # {}
        /\ ap[p].changed \subseteq Domains
    BY CallType DEF KeepsNginx, TrackInv, Returns
  <1>1. ApplyStep(p)
    <2>1. CASE \/ RowOp \/ DeleteStep \/ NginxStop \/ NginxBoot \/ UNCHANGED vars
               \/ \E d \in Domains : SiteDelete(d)
      BY <1>0, <2>1, OutsideStep, SingleIsOneWriter
    <2>2. ASSUME NEW q \in Procs, StartApply(q) PROVE FALSE
      BY <1>0, <2>2, CallOfStart DEF SingleWorker
    <2>3. ASSUME NEW q \in Procs, Crash(q) PROVE FALSE
      BY <1>0, <2>3 DEF SingleWorker, Crash
    <2>4. QED
      BY <1>0, <2>1, <2>2, <2>3 DEF Next, SingleWorker
  <1>2. ASSUME NEW d \in Domains,
               stageDeleteLiveConf(p, d) \/ (Publish(p) /\ d = ap[p].cur)
        PROVE  FALSE
    <2> DEFINE t == FileText(ap[p], d)
    <2>1. FileStep(ap[p], ap'[p], d, t) /\ ap[p] \in ApplyCall /\ t \in ConfOrNone
      BY <1>2, CallOfWrite, CallType DEF AimInv, FileText, ConfOrNone
    <2> HIDE DEF t
    <2>2. ap'[p] # NoCall
      BY <1>0, <2>1, MatchedFields, SwappedFields, FailedFields
         DEF FileStep, Tracks
    <2>3. ap'[p].pc # "idle"
      BY <2>1, <2>2, MatchedFields, SwappedFields, FailedFields DEF FileStep
    <2>4. QED
      BY <1>0, <2>3
  <1>3. ASSUME NEW d \in Domains, RecordFail(p, d) PROVE Undone(p)
    <2>1. ap[p].pc = "fail" /\ live' = live /\ bak' = bak
      BY <1>3, CallOfFail DEF files
    <2>2. QED
      BY <1>0, <2>1 DEF Tracks, Back, Undone
  <1>4. CASE RecordVerdict(p)
    <2>1. /\ ap[p].pc = "record" /\ ap[p].mode = "one"
          /\ live' = live /\ running' = running
      BY <1>0, <1>4, CallOfRecord DEF files, nginx
    <2>2. running = live
      BY <1>0, <2>1 DEF LoadedInv
    <2>3. QED
      BY <1>0, <2>1, <2>2 DEF Tracks, Forward, Installed
  <1>5. CASE ReloadNginx(p)
    <2>1. ap[p].pc = "reload" /\ live' = live
      BY <1>5, CallOfReload DEF files
    <2>2. ReloadOrStart(TRUE)
      BY <1>0, <1>5, CallOfReload
    <2>3. running' = live
      BY <1>0, <2>1, <2>2, LoadIsValid, LoadedEffect
    <2>4. QED
      BY <1>0, <2>1, <2>3 DEF Tracks, Forward, Installed
  <1>6. ASSUME NEW d \in Domains,
               \/ SkipSite(p, d) \/ RenderSiteToStaging(p, d)
               \/ rollbackFromBackup(p, d)
        PROVE  FALSE
    BY <1>0, <1>6, CallOfSkip, CallOfRender, CallOfRollback
  <1>7. CASE EndLoop(p) \/ TestBeforeReload(p) \/ RecoverReload(p)
    BY <1>0, <1>7, CallOfEnd, CallOfTest, CallOfRecover
  <1>8. CASE Publish(p)
    BY <1>0, <1>2, <1>8 DEF Publish, CurIsDomain
  <1>9. QED
    BY <1>1, <1>2, <1>3, <1>4, <1>5, <1>6, <1>7, <1>8 DEF ApplyStep

\* An Apply that changed files installs all of them and has them loaded, or
\* puts all of them back, for any number of sites: in a batch and for a single
\* site, whichever write, test or reload fails on the way.
THEOREM ApplyAllOrNothing == KeepsNginx => (Spec => ApplyIsAtomic)
  <1> SUFFICES ASSUME KeepsNginx PROVE Spec => ApplyIsAtomic
    OBVIOUS
  <1> DEFINE Step == \A p \in Procs : Returns(p) => Installed(p) \/ Undone(p)
  <1>1. /\ TypeInv /\ SafeInv /\ AimInv /\ TrackInv /\ LoadedInv
        /\ [Next]_vars
        => [Step]_vars
    BY AtomicStep
  <1>2. Step <=> \A p \in Procs :
                    Returns(p) =>
                        \/ Installed(p)
                        \/ \A d \in ap[p].changed :
                              \/ live'[d] = ap[p].before[d]
                              \/ ap[p].before[d] = NoConf /\ live'[d] = bak'[d]
    BY DEF Undone
  <1>3. Spec => [](SafeInv /\ AimInv /\ TrackInv /\ LoadedInv)
    BY SafeInvariant, AimInvariant, TrackInvariant, LoadedInvariant,
       SingleIsOneWriter, PTL DEF KeepsNginx
  <1> HIDE DEF Step
  <1>4. QED
    BY <1>1, <1>2, <1>3, TypeInvariant, PTL DEF Spec, ApplyIsAtomic

-----------------------------------------------------------------------------
(* Verdicts against the disk *)

DeleteBusy == del.pc # "idle"

\* A SiteDelete that is under way concerns a domain it may be called for, and
\* no Apply runs; a row that is gone has no verdict; only NginxStop stops nginx.
StoreInv ==
    /\ DeleteBusy => NoApply /\ del.dom \in Deletable
    /\ \A d \in Domains : rows[d].site = "absent" => rows[d] = NoRow
    /\ "stop" \notin Faults => up

\* While a call runs, or begins, no SiteDelete does.
LEMMA NoDeleteInApply ==
  ASSUME SingleWorker, StoreInv, NEW p \in Procs, StartApply(p) \/ ap[p].pc # "idle"
  PROVE  ~DeleteBusy
  BY DEF SingleWorker, StoreInv, DeleteBusy, NoApply, StartApply, StartBatch,
         StartOne, Accepts, Quiet

LEMMA ApplyStepRuns ==
  ASSUME TypeInv, NEW p \in Procs, ApplyStep(p)
  PROVE  ap[p].pc # "idle" /\ del' = del
  BY DEF ApplyStep, SkipSite, stageDeleteLiveConf, RenderSiteToStaging,
         rollbackFromBackup, RecordFail, Publish, RecordVerdict, EndLoop,
         TestBeforeReload, ReloadNginx, RecoverReload, Taking

\* nginx is up or down as before, or comes up.
LEMMA UpStep ==
  ASSUME [Next]_vars, "stop" \notin Faults, up
  PROVE  up'
  <1>1. ASSUME NEW ok \in BOOLEAN, ReloadOrStart(ok) \/ Reload(ok) PROVE up'
    BY <1>1 DEF ReloadOrStart, Reload, LoadLive, nginx
  <1>2. ASSUME NEW p \in Procs, StartApply(p) \/ Crash(p) PROVE up'
    BY <1>2 DEF StartApply, StartBatch, StartOne, Crash, nginx
  <1>3. ASSUME NEW p \in Procs, ApplyStep(p) PROVE up'
    <2>1. ASSUME NEW d \in Domains,
                 \/ SkipSite(p, d) \/ stageDeleteLiveConf(p, d)
                 \/ RenderSiteToStaging(p, d) \/ rollbackFromBackup(p, d)
                 \/ RecordFail(p, d)
          PROVE  up'
      BY <2>1 DEF SkipSite, stageDeleteLiveConf, RenderSiteToStaging,
                  rollbackFromBackup, RecordFail, nginx
    <2>2. CASE Publish(p) \/ EndLoop(p) \/ TestBeforeReload(p) \/ RecordVerdict(p)
      BY <2>2 DEF Publish, EndLoop, TestBeforeReload, RecordVerdict, nginx
    <2>3. CASE ReloadNginx(p) \/ RecoverReload(p)
      BY <1>1, <2>3 DEF ReloadNginx, RecoverReload
    <2>4. QED
      BY <1>3, <2>1, <2>2, <2>3 DEF ApplyStep
  <1>4. CASE SiteDeleteReload
    BY <1>1, <1>4 DEF SiteDeleteReload
  <1>5. CASE RowOp \/ DeleteSiteByDomain \/ UNCHANGED vars
    BY <1>5 DEF RowOp, UpsertSite, UpsertProxyTarget, DisableSiteByDomain,
                EnableSiteByDomain, DeleteSiteByDomain, vars, nginx
  <1>6. ASSUME NEW d \in Domains, SiteDelete(d) PROVE up'
    BY <1>6 DEF SiteDelete, nginx
  <1>7. CASE NginxStop \/ NginxBoot
    BY <1>7 DEF NginxStop, NginxBoot
  <1>8. QED
    BY <1>2, <1>3, <1>4, <1>5, <1>6, <1>7 DEF Next, DeleteStep

\* No step leaves a row that is absent with a verdict: rows are created by
\* UpsertSite, emptied by DeleteSiteByDomain, and no verdict is written to a
\* row that is gone.
LEMMA AbsentStep ==
  ASSUME TypeInv, StoreInv, [Next]_vars, NEW d \in Domains,
         rows'[d].site = "absent"
  PROVE  rows'[d] = NoRow
  <1>0. rows \in [Domains -> Row]
    BY DEF TypeInv, TypeOK
  <1>1. CASE rows' = rows
    BY <1>1 DEF StoreInv
  <1>2. CASE RowOp
    <2>1. ASSUME NEW x \in Domains, NEW c \in Confs, NEW e \in BOOLEAN, UpsertSite(x, c, e)
          PROVE  rows'[d] = NoRow
      <3>1. rows'[x].site # "absent" /\ (d # x => rows'[d] = rows[d])
        BY <1>0, <2>1 DEF UpsertSite, Row
      <3>2. QED
        BY <3>1 DEF StoreInv
    <2>2. ASSUME NEW x \in Domains, NEW c \in Confs, UpsertProxyTarget(x, c)
          PROVE  rows'[d] = NoRow
      BY <2>2 DEF UpsertProxyTarget, StoreInv
    <2>3. ASSUME NEW x \in Domains, DisableSiteByDomain(x) \/ EnableSiteByDomain(x)
          PROVE  rows'[d] = NoRow
      <3>1. rows'[x].site # "absent" /\ (d # x => rows'[d] = rows[d])
        BY <1>0, <2>3 DEF DisableSiteByDomain, EnableSiteByDomain, Row
      <3>2. QED
        BY <3>1 DEF StoreInv
    <2>4. QED
      BY <1>2, <2>1, <2>2, <2>3 DEF RowOp
  <1>3. CASE DeleteSiteByDomain
    BY <1>0, <1>3 DEF DeleteSiteByDomain, StoreInv
  <1>4. ASSUME NEW x \in Domains, NEW s \in {"ok", "fail"}, NEW h \in ConfOrNone,
               UpdateApplyResult(x, s, h)
        PROVE  rows'[d] = NoRow
    BY <1>4, UpdateEffect DEF StoreInv
  <1>5. ASSUME NEW p \in Procs, RecordVerdict(p) PROVE rows'[d] = NoRow
    BY <1>4, <1>5, CallOfRecord, CallType
  <1>6. ASSUME NEW p \in Procs, NEW x \in Domains, RecordFail(p, x)
        PROVE  rows'[d] = NoRow
    BY <1>4, <1>6, CallOfFail, CallType
  <1>7. QED
    BY <1>1, <1>2, <1>3, <1>5, <1>6, RowsChange

LEMMA StoreStep ==
  ASSUME SingleWorker, TypeInv, StoreInv, [Next]_vars
  PROVE  StoreInv'
  <1>1. DeleteBusy' => NoApply' /\ del'.dom \in Deletable
    <2>1. CASE UNCHANGED <<ap, del>>
      BY <2>1 DEF StoreInv, DeleteBusy, NoApply
    <2>2. ASSUME NEW d \in Domains, SiteDelete(d)
          PROVE  DeleteBusy' => NoApply' /\ del'.dom \in Deletable
      <3>1. NoApply /\ ap' = ap /\ d \in Deletable
        BY <2>2 DEF SingleWorker, SiteDelete, Accepts, Quiet
      <3>2. del' = del \/ del' = [pc |-> "reload", dom |-> d]
        BY <2>2 DEF SiteDelete
      <3>3. QED
        BY <3>1, <3>2 DEF StoreInv, DeleteBusy, NoApply
    <2>3. CASE SiteDeleteReload \/ DeleteSiteByDomain
      <3>1. ap' = ap /\ (del' = NoDelete \/ del' = [del EXCEPT !.pc = "row"])
            /\ DeleteBusy
        BY <2>3 DEF SiteDeleteReload, DeleteSiteByDomain, DeleteBusy
      <3>2. del'.pc = "idle" \/ del'.dom = del.dom
        BY <3>1 DEF NoDelete, TypeInv, TypeOK
      <3>3. QED
        BY <3>1, <3>2 DEF StoreInv, DeleteBusy, NoApply
    <2>4. ASSUME NEW p \in Procs, StartApply(p) \/ ApplyStep(p)
          PROVE  ~DeleteBusy'
      BY <2>4, NoDeleteInApply, ApplyStepRuns, CallOfStart DEF DeleteBusy
    <2>5. ASSUME NEW p \in Procs, Crash(p) PROVE FALSE
      BY <2>5 DEF Crash, SingleWorker
    <2>6. CASE RowOp \/ NginxStop \/ NginxBoot \/ UNCHANGED vars
      BY <2>1, <2>6 DEF RowOp, UpsertSite, UpsertProxyTarget, NginxStop,
         DisableSiteByDomain, EnableSiteByDomain, NginxBoot, vars
    <2>7. QED
      BY <2>2, <2>3, <2>4, <2>5, <2>6 DEF Next, DeleteStep
  <1>2. \A d \in Domains : rows'[d].site = "absent" => rows'[d] = NoRow
    BY AbsentStep
  <1>3. "stop" \notin Faults => up'
    BY UpStep DEF StoreInv
  <1>4. QED
    BY <1>1, <1>2, <1>3 DEF StoreInv

LEMMA StoreInvariant == SingleWorker => (Spec => []StoreInv)
  <1> SUFFICES ASSUME SingleWorker PROVE Spec => []StoreInv
    OBVIOUS
  <1>1. Init => StoreInv
    BY DEF Init, StoreInv, DeleteBusy, NoDelete
  <1>2. TypeInv /\ StoreInv /\ [Next]_vars => StoreInv'
    BY StoreStep
  <1>3. QED
    BY <1>1, <1>2, TypeInvariant, PTL DEF Spec

\* No verdict is lost, and a SiteDelete that took the file away goes through:
\* where a site can be deleted, nginx is up and its reloads do not time out.
KeepsVerdicts ==
    /\ SingleWorker
    /\ "db" \notin Faults
    /\ Deletable = {} \/ ("reload" \notin Faults /\ "stop" \notin Faults)

\* The call c has still to write a verdict for d: the one of the site it is
\* at, or the fail of a change it is taking back.
Revises(c, d) ==
    \/ c.pc = "record" /\ d = c.cur
    \/ c.mode = "one" /\ c.pc \in {"test", "reload"} /\ d \in c.changed
    \/ c.pc \in {"rollback", "recover"} /\ d \in c.changed
    \/ c.pc = "fail" /\ d \in c.todo

\* A row that says ok has the hash of the live file, or is about to be
\* corrected, or is being deleted.
VerdictInv ==
    \A d \in Domains :
        rows[d].status = "ok" =>
            \/ rows[d].hash = live[d]
            \/ \E p \in Procs : Revises(ap[p], d)
            \/ DeleteBusy /\ d = del.dom

\* What VerdictInv says of the only call, while it runs.
LEMMA VerdictOfCall ==
  ASSUME SingleWorker, StoreInv, VerdictInv, NEW p \in Procs,
         StartApply(p) \/ ap[p].pc # "idle", NEW d \in Domains,
         rows[d].status = "ok"
  PROVE  rows[d].hash = live[d] \/ Revises(ap[p], d)
  BY NoDeleteInApply DEF SingleWorker, VerdictInv

LEMMA VerdictOfOne ==
  ASSUME NEW p \in Procs,
         \A d \in Domains : rows'[d].status = "ok" =>
            rows'[d].hash = live'[d] \/ Revises(ap'[p], d)
  PROVE  VerdictInv'
  BY DEF VerdictInv, Revises

LEMMA WriteVerdicts ==
  ASSUME SingleWorker, TypeInv, AimInv, StoreInv, VerdictInv,
         NEW p \in Procs, NEW d \in Domains,
         stageDeleteLiveConf(p, d) \/ (Publish(p) /\ d = ap[p].cur)
  PROVE  VerdictInv'
  <1> DEFINE t == FileText(ap[p], d)
  <1>1. /\ FileStep(ap[p], ap'[p], d, t) /\ ap[p] \in ApplyCall
        /\ ap[p].pc \in {"loop", "publish"} /\ rows' = rows
    BY CallOfWrite, CallType DEF AimInv, db
  <1>2. t \in ConfOrNone /\ live \in [Domains -> ConfOrNone]
    BY CallType DEF FileText, ConfOrNone, TypeInv, TypeOK
  <1>3. \A e \in Domains : rows[e].status = "ok" => rows[e].hash = live[e]
    BY <1>1, VerdictOfCall DEF Revises
  <1> HIDE DEF t
  <1>4. CASE live' = live
    BY <1>1, <1>3, <1>4, VerdictOfOne
  <1>5. CASE ap'[p] = Swapped(ap[p], d, t) /\ live' = [live EXCEPT ![d] = t]
    <2>1. \A e \in Domains : e # d => live'[e] = live[e]
      BY <1>2, <1>5
    <2>2. /\ ap'[p].cur = d /\ ap'[p].mode = ap[p].mode /\ d \in ap'[p].changed
          /\ ap'[p].pc = IF ap[p].mode = "one" THEN "test" ELSE "record"
      BY <1>1, <1>2, <1>5, SwappedFields DEF SameRequest
    <2>3. Revises(ap'[p], d)
      BY <2>2 DEF Revises
    <2>4. QED
      BY <1>1, <1>3, <2>1, <2>3, VerdictOfOne
  <1>6. QED
    BY <1>1, <1>4, <1>5 DEF FileStep

\* The steps of a call that write neither a file nor a row, after which it
\* revises what it had to revise.
LEMMA QuietVerdicts ==
  ASSUME SingleWorker, StoreInv, VerdictInv, NEW p \in Procs,
         StartApply(p) \/ ap[p].pc # "idle", rows' = rows, live' = live,
         \A d \in Domains : Revises(ap[p], d) => Revises(ap'[p], d)
  PROVE  VerdictInv'
  BY VerdictOfCall, VerdictOfOne

LEMMA RecordVerdicts ==
  ASSUME KeepsVerdicts, TypeInv, AimInv, StoreInv, VerdictInv, NEW p \in Procs,
         RecordVerdict(p)
  PROVE  VerdictInv'
  <1> DEFINE x == ap[p].cur
             v == ap[p].verdict
             h == ap[p].want[x]
  <1>1. /\ ap[p].pc = "record" /\ x \in Domains /\ UpdateApplyResult(x, v, h)
        /\ live' = live
    BY CallOfRecord DEF files
  <1>2. v \in {"ok", "fail"} /\ h \in ConfOrNone
    BY <1>1, CallType
  <1>3. v = "ok" => h = live[x]
    BY <1>1 DEF AimInv, Aims
  <1>4. \A e \in Domains \ {x} : rows[e].status = "ok" => rows[e].hash = live[e]
    BY <1>1, VerdictOfCall DEF Revises, KeepsVerdicts
  <1> HIDE DEF x, v, h
  <1>5. \A e \in Domains \ {x} : rows'[e] = rows[e]
    BY <1>1, <1>2, UpdateEffect
  <1>6. \/ rows'[x] = NoRow
        \/ rows'[x].status = v /\ rows'[x].hash = h
    BY <1>1, <1>2, UpdateEffect DEF KeepsVerdicts, StoreInv
  <1>7. \A e \in Domains : rows'[e].status = "ok" => rows'[e].hash = live'[e]
    BY <1>1, <1>3, <1>4, <1>5, <1>6 DEF NoRow
  <1>8. QED
    BY <1>7, VerdictOfOne

LEMMA FailVerdicts ==
  ASSUME KeepsVerdicts, TypeInv, StoreInv, VerdictInv, NEW p \in Procs,
         NEW x \in Domains, RecordFail(p, x)
  PROVE  VerdictInv'
  <1>1. /\ ap[p].pc = "fail" /\ x \in ap[p].todo
        /\ UpdateApplyResult(x, "fail", ap[p].want[x])
        /\ ap[p].want[x] \in ConfOrNone /\ live' = live
        /\ \/ ap[p].todo = {x} /\ ap'[p] = NoCall
           \/ ap'[p].pc = "fail" /\ ap'[p].todo = ap[p].todo \ {x}
    BY CallOfFail, CallType DEF files
  <1>2. \A e \in Domains \ {x} : rows'[e] = rows[e]
    BY <1>1, UpdateEffect
  <1>3. rows'[x].status # "ok"
    <2>1. rows'[x] = NoRow \/ rows'[x].status = "fail"
      BY <1>1, UpdateEffect DEF KeepsVerdicts, StoreInv
    <2>2. QED
      BY <2>1 DEF NoRow
  <1>4. ASSUME NEW e \in Domains, e # x, rows'[e].status = "ok"
        PROVE  rows'[e].hash = live'[e] \/ Revises(ap'[p], e)
    <2>1. rows[e].hash = live[e] \/ e \in ap[p].todo
      BY <1>1, <1>2, <1>4, VerdictOfCall DEF Revises, KeepsVerdicts
    <2>2. QED
      BY <1>1, <1>2, <1>4, <2>1 DEF Revises
  <1>5. QED
    BY <1>3, <1>4, VerdictOfOne

LEMMA ApplyStepVerdicts ==
  ASSUME KeepsVerdicts, TypeInv, AimInv, TrackInv, StoreInv, VerdictInv,
         NEW p \in Procs, ApplyStep(p)
  PROVE  VerdictInv'
  <1> USE DEF SameWork, SameRequest, files, db
  <1>0. /\ SingleWorker /\ Aims(ap[p], stage, live) /\ Tracks(ap[p], live, bak)
        /\ CurIsDomain(ap[p]) /\ ap[p].pc # "idle"
    BY CallType, ApplyStepRuns DEF KeepsVerdicts, AimInv, TrackInv
  <1>1. ASSUME NEW d \in Domains, SkipSite(p, d) \/ RenderSiteToStaging(p, d)
        PROVE  VerdictInv'
    <2>1. ap[p].pc = "loop" /\ rows' = rows /\ live' = live
      BY <1>1, CallOfSkip, CallOfRender
    <2>2. QED
      BY <1>0, <2>1, QuietVerdicts DEF Revises
  <1>2. ASSUME NEW d \in Domains, rollbackFromBackup(p, d) PROVE VerdictInv'
    <2>1. /\ ap[p].pc = "rollback" /\ d \in ap[p].todo /\ rows' = rows
          /\ ap'[p].pc \in {"rollback", "recover"}
          /\ ap'[p].changed = ap[p].changed
          /\ live' = [live EXCEPT ![d] = bak[d]]
      BY <1>0, <1>2, CallOfRollback DEF SingleWorker
    <2>2. Revises(ap'[p], d)
      BY <1>0, <2>1 DEF Revises, Tracks
    <2>3. \A e \in Domains : e # d => live'[e] = live[e]
      BY <2>1 DEF TypeInv, TypeOK
    <2>4. \A e \in Domains : Revises(ap[p], e) => Revises(ap'[p], e)
      BY <2>1 DEF Revises
    <2>5. QED
      BY <1>0, <2>1, <2>2, <2>3, <2>4, VerdictOfCall, VerdictOfOne
  <1>3. ASSUME NEW d \in Domains, RecordFail(p, d) PROVE VerdictInv'
    BY <1>3, FailVerdicts
  <1>4. CASE RecordVerdict(p)
    BY <1>4, RecordVerdicts
  <1>5. CASE EndLoop(p)
    <2>1. ap[p].pc = "loop" /\ rows' = rows /\ live' = live
      BY <1>5, CallOfEnd
    <2>2. QED
      BY <1>0, <2>1, QuietVerdicts DEF Revises
  <1>6. CASE TestBeforeReload(p)
    <2>1. /\ ap[p].pc = "test" /\ rows' = rows /\ live' = live
          /\ ap'[p].mode = ap[p].mode /\ ap'[p].changed = ap[p].changed
          /\ ap'[p].pc \in {"reload", "rollback"}
      BY <1>6, CallOfTest
    <2>2. QED
      BY <1>0, <2>1, QuietVerdicts DEF Revises
  <1>7. CASE ReloadNginx(p)
    <2>1. ap[p].pc = "reload" /\ rows' = rows /\ live' = live
      BY <1>7, CallOfReload
    <2>2. \/ ap[p].mode = "batch" /\ ap'[p] = NoCall
          \/ ap[p].mode = "one" /\ ap'[p].pc = "record" /\ ap'[p].cur = ap[p].cur
          \/ ap'[p].pc = "rollback" /\ ap'[p].changed = ap[p].changed
      BY <1>7, CallOfReload
    <2>3. \A d \in Domains : Revises(ap[p], d) => Revises(ap'[p], d)
      BY <1>0, <2>1, <2>2 DEF Revises, Tracks
    <2>4. QED
      BY <1>0, <2>1, <2>3, QuietVerdicts
  <1>8. CASE RecoverReload(p)
    <2>1. /\ ap[p].pc = "recover" /\ rows' = rows /\ live' = live
          /\ ap'[p].pc = "fail" /\ ap'[p].todo = ap[p].changed
      BY <1>8, CallOfRecover
    <2>2. QED
      BY <1>0, <2>1, QuietVerdicts DEF Revises
  <1>9. ASSUME NEW d \in Domains, stageDeleteLiveConf(p, d) PROVE VerdictInv'
    BY <1>0, <1>9, WriteVerdicts
  <1>10. CASE Publish(p)
    BY <1>0, <1>10, WriteVerdicts DEF Publish, CurIsDomain
  <1>11. QED
    BY <1>1, <1>2, <1>3, <1>4, <1>5, <1>6, <1>7, <1>8, <1>9, <1>10
       DEF ApplyStep

\* SiteDelete: the verdict of the row outlives its file until the row goes.
LEMMA DeleteVerdicts ==
  ASSUME KeepsVerdicts, TypeInv, SafeInv, StoreInv, VerdictInv,
         DeleteStep \/ \E d \in Domains : SiteDelete(d)
  PROVE  VerdictInv'
  <1>1. ASSUME NEW d \in Domains, SiteDelete(d) PROVE VerdictInv'
    <2>1. NoApply /\ ap' = ap /\ rows' = rows /\ ~DeleteBusy
      BY <1>1 DEF KeepsVerdicts, SingleWorker, SiteDelete, Accepts, Quiet, db,
                  DeleteBusy
    <2>2. \A e \in Domains : rows[e].status = "ok" => rows[e].hash = live[e]
      BY <2>1 DEF VerdictInv, NoApply, Revises
    <2>3. CASE live' = live
      BY <2>1, <2>2, <2>3 DEF VerdictInv
    <2>4. CASE live' = [live EXCEPT ![d] = NoConf] /\ del' = [pc |-> "reload", dom |-> d]
      <3>1. DeleteBusy' /\ del'.dom = d
        BY <2>4 DEF DeleteBusy
      <3>2. \A e \in Domains : e # d => live'[e] = live[e]
        BY <2>4 DEF TypeInv, TypeOK
      <3>3. QED
        BY <2>1, <2>2, <3>1, <3>2 DEF VerdictInv
    <2>5. QED
      BY <1>1, <2>3, <2>4 DEF SiteDelete, SwapLive
  <1>2. CASE SiteDeleteReload
    <2>1. DeleteBusy /\ rows' = rows /\ live' = live /\ ap' = ap
      BY <1>2 DEF SiteDeleteReload, DeleteBusy, db, files
    <2>2. up /\ "reload" \notin Faults /\ NoApply
      BY <2>1 DEF StoreInv, KeepsVerdicts
    <2>3. Valid(live)
      BY <2>2, RestIsFine DEF Valid, Fine
    <2>4. PICK ok \in BOOLEAN :
             Reload(ok) /\ del' = IF ok THEN [del EXCEPT !.pc = "row"] ELSE NoDelete
      BY <1>2 DEF SiteDeleteReload
    <2>5. ok
      BY <2>2, <2>3, <2>4, LoadEffect
    <2>6. DeleteBusy' /\ del'.dom = del.dom
      BY <2>4, <2>5 DEF DeleteBusy, TypeInv, TypeOK
    <2>7. QED
      BY <2>1, <2>6 DEF VerdictInv
  <1>3. CASE DeleteSiteByDomain
    <2>1. /\ DeleteBusy /\ ap' = ap /\ live' = live
          /\ rows' = [rows EXCEPT ![del.dom] = NoRow]
      BY <1>3 DEF DeleteSiteByDomain, DeleteBusy, files
    <2>2. NoApply /\ rows \in [Domains -> Row]
      BY <2>1 DEF StoreInv, TypeInv, TypeOK
    <2>3. ASSUME NEW e \in Domains, rows'[e].status = "ok"
          PROVE  rows'[e].hash = live'[e]
      <3>1. e # del.dom /\ rows'[e] = rows[e]
        BY <2>1, <2>2, <2>3 DEF NoRow
      <3>2. QED
        BY <2>1, <2>2, <2>3, <3>1 DEF VerdictInv, NoApply, Revises
    <2>4. QED
      BY <2>3 DEF VerdictInv
  <1>4. QED
    BY <1>1, <1>2, <1>3 DEF DeleteStep

LEMMA VerdictStep ==
  ASSUME KeepsVerdicts, TypeInv, SafeInv, AimInv, TrackInv, StoreInv, VerdictInv,
         [Next]_vars
  PROVE  VerdictInv'
  <1>0. SingleWorker
    BY DEF KeepsVerdicts
  <1>1. CASE RowOp
    <2>1. UNCHANGED <<live, ap, del>>
      BY <1>1 DEF RowOp, UpsertSite, UpsertProxyTarget, DisableSiteByDomain,
                  EnableSiteByDomain, files
    <2>2. \A d \in Domains : SameVerdict(rows'[d], rows[d])
      BY <1>1, RowOpEffect
    <2>3. QED
      BY <2>1, <2>2 DEF VerdictInv, SameVerdict, DeleteBusy
  <1>2. ASSUME NEW p \in Procs, StartApply(p) PROVE VerdictInv'
    <2>1. ap[p].pc = "idle" /\ rows' = rows /\ live' = live
      BY <1>2, CallOfStart DEF files, db
    <2>2. QED
      BY <1>0, <1>2, <2>1, QuietVerdicts DEF Revises
  <1>3. ASSUME NEW p \in Procs, ApplyStep(p) PROVE VerdictInv'
    BY <1>3, ApplyStepVerdicts
  <1>4. ASSUME NEW p \in Procs, Crash(p) PROVE VerdictInv'
    BY <1>0, <1>4 DEF Crash, SingleWorker
  <1>5. CASE DeleteStep \/ \E d \in Domains : SiteDelete(d)
    BY <1>5, DeleteVerdicts
  <1>6. CASE NginxStop \/ NginxBoot \/ UNCHANGED vars
    <2>1. UNCHANGED <<rows, live, ap, del>>
      BY <1>6 DEF NginxStop, NginxBoot, vars, db, files
    <2>2. QED
      BY <2>1 DEF VerdictInv, DeleteBusy
  <1>7. QED
    BY <1>1, <1>2, <1>3, <1>4, <1>5, <1>6 DEF Next

LEMMA VerdictInvariant == KeepsVerdicts => (Spec => []VerdictInv)
  <1> SUFFICES ASSUME KeepsVerdicts PROVE Spec => []VerdictInv
    OBVIOUS
  <1>1. Init => VerdictInv
    BY DEF Init, VerdictInv, NoRow
  <1>2. /\ TypeInv /\ SafeInv /\ AimInv /\ TrackInv /\ StoreInv
        /\ VerdictInv /\ [Next]_vars
        => VerdictInv'
    BY VerdictStep
  <1>3. Spec => [](SafeInv /\ AimInv /\ TrackInv /\ StoreInv)
    BY SafeInvariant, AimInvariant, TrackInvariant, StoreInvariant,
       SingleIsOneWriter, PTL DEF KeepsVerdicts
  <1>4. QED
    BY <1>1, <1>2, <1>3, TypeInvariant, PTL DEF Spec

\* Between requests a row that says ok carries the hash of its live file: no
\* path through the early and the late verdicts, the rollback or SiteDelete
\* leaves an ok behind for a file that is not there, for any number of sites.
THEOREM VerdictsMatch == KeepsVerdicts => (Spec => []VerdictMatchesDisk)
  <1> SUFFICES ASSUME KeepsVerdicts PROVE Spec => []VerdictMatchesDisk
    OBVIOUS
  <1>1. VerdictInv => VerdictMatchesDisk
    BY DEF VerdictInv, VerdictMatchesDisk, Quiet, NoApply, Revises, DeleteBusy
  <1>2. QED
    BY <1>1, VerdictInvariant, PTL

=============================================================================
