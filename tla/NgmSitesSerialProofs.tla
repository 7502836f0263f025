------------------------ MODULE NgmSitesSerialProofs ------------------------
(***************************************************************************)
(* NgmSites when one request is served at a time, whatever the requests    *)
(* are and whichever steps fail: what SiteAdd and SiteDelete promise when  *)
(* they report success, the tree of sites, and the agreement of rows, zone *)
(* files, the include file and named.                                      *)
(***************************************************************************)
EXTENDS NgmSitesProofs

\* One request is served at a time.
OneRequest == \A v, w \in Workers : v = w

\* The rows ss have a site d.
Has(ss, d) == ss[d].owner # NoUser

\* ValidParent, HasRoom and Dependents of the rows ss.
Parented(ss, u, d, parent) ==
    \/ parent = NoDomain
    \/ parent = Up[d] /\ ss[parent].owner = u /\ ss[parent].parent = NoDomain

Fitting(ss, u, parent) ==
    LET root == parent = NoDomain
    IN  LimitOf(u, root) # -1 => Cardinality(Owned(ss, u, root)) < LimitOf(u, root)

Below(ss, d) == {s \in Domains : Has(ss, s) /\ ss[s].parent = d}

LEMMA OfRows ==
  ASSUME NEW u, NEW d, NEW parent
  PROVE  /\ Exists(d) <=> Has(sites, d)
         /\ ValidParent(u, d, parent) <=> Parented(sites, u, d, parent)
         /\ HasRoom(u, parent) <=> Fitting(sites, u, parent)
         /\ Dependents(d) = Below(sites, d)
  <1>1. /\ parent = NoDomain => Owned(sites, u, parent = NoDomain) = RootsOf(u)
        /\ parent # NoDomain => Owned(sites, u, parent = NoDomain) = SubsOf(u)
    BY DEF Owned, RootsOf, SubsOf
  <1>2. HasRoom(u, parent) <=> Fitting(sites, u, parent)
    BY <1>1 DEF HasRoom, Fitting, Room, LimitOf
  <1>3. QED
    BY <1>2 DEF Exists, Has, ValidParent, Parented, Dependents, Below

-----------------------------------------------------------------------------
(* What each step makes of the record of its call *)

\* d is the request that c is, apart from how far it is.
SameCall(c, d) ==
    /\ d.phase = c.phase /\ d.user = c.user /\ d.dom = c.dom
    /\ d.parent = c.parent /\ d.old = c.old /\ d.set = c.set

LEMMA NoCallFields ==
  /\ NoCall.pc = "idle" /\ NoCall.phase = "add" /\ NoCall.dom = NoDomain
  /\ ~NoCall.created /\ ~NoCall.ok
  BY DEF NoCall

LEMMA CallOfGoto ==
  ASSUME CallsTyped, NEW w \in Workers, NEW s, Goto(w, s)
  PROVE  /\ SameCall(calls[w], calls'[w]) /\ calls'[w].pc = s
         /\ calls'[w].created = calls[w].created /\ calls'[w].ok = calls[w].ok
         /\ calls'[w].buf = calls[w].buf /\ calls'[w].list = calls[w].list
  BY DEF Goto, CallsTyped, Call, SameCall

LEMMA CallOfFinish ==
  ASSUME CallsTyped, NEW w \in Workers, NEW ok, Finish(w, ok)
  PROVE  SameCall(calls[w], calls'[w]) /\ calls'[w].pc = "done" /\ calls'[w].ok = ok
  BY DEF Finish, CallsTyped, Call, SameCall

\* A provider call that returned nil.
LEMMA CallOfReturns ==
  ASSUME CallsTyped, NEW w \in Workers, ProviderReturns(w)
  PROVE  /\ SameCall(calls[w], calls'[w])
         /\ calls[w].phase = "delete" => calls'[w].pc = "vhost"
         /\ calls[w].phase # "delete" =>
               calls'[w].pc = "done" /\ (calls'[w].ok => calls[w].phase = "add")
  BY CallOfGoto, CallOfFinish DEF ProviderReturns

\* A provider call that returned an error.
LEMMA CallOfErrs ==
  ASSUME CallsTyped, NEW w \in Workers, ProviderErrs(w)
  PROVE  /\ SameCall(calls[w], calls'[w])
         /\ calls[w].phase = "add" =>
               /\ calls'[w].pc = "compensate"
               /\ calls'[w].created = calls[w].created
         /\ calls[w].phase # "add" => calls'[w].pc = "done" /\ ~calls'[w].ok
  BY CallOfGoto, CallOfFinish DEF ProviderErrs

LEMMA CallOfRestore ==
  ASSUME CallsTyped, NEW w \in Workers, Restore(w)
  PROVE  \/ /\ DnsEnabled /\ calls'[w].pc = "zload" /\ calls'[w].phase = "restore"
            /\ calls'[w].dom = calls[w].dom /\ calls'[w].parent = calls[w].parent
         \/ /\ ~DnsEnabled /\ calls'[w].pc = "done" /\ ~calls'[w].ok
            /\ calls'[w].phase = calls[w].phase
  <1>1. CASE DnsEnabled
    <2>1. calls' = [calls EXCEPT ![w].pc = FirstStep(calls[w], "restore"),
                                 ![w].phase = "restore"]
      BY <1>1 DEF Restore
    <2>2. FirstStep(calls[w], "restore") = "zload"
      BY DEF FirstStep
    <2>3. QED
      BY <1>1, <2>1, <2>2 DEF CallsTyped, Call
  <1>2. CASE ~DnsEnabled
    BY <1>2, CallOfFinish DEF Restore, SameCall
  <1>3. QED
    BY <1>1, <1>2

LEMMA CallOfAdd ==
  ASSUME CallsTyped, NEW w \in Workers, SiteAdd(w)
  PROVE  /\ calls[w].pc = "idle"
         /\ \E r \in AddRequests :
               /\ calls'[w].phase = "add" /\ calls'[w].user = r.user
               /\ calls'[w].dom = r.dom /\ calls'[w].parent = r.parent
               /\ ~calls'[w].created /\ ~calls'[w].ok
               /\ calls'[w].pc = IF ValidParent(r.user, r.dom, r.parent)
                                 THEN "limit" ELSE "done"
  <1>1. PICK r \in AddRequests :
          LET c == [NoCall EXCEPT !.user = r.user, !.dom = r.dom,
                                  !.parent = r.parent]
          IN  calls' = [calls EXCEPT ![w] =
                  IF ValidParent(r.user, r.dom, r.parent)
                  THEN [c EXCEPT !.pc = "limit"]
                  ELSE [c EXCEPT !.pc = "done"]]
    BY DEF SiteAdd
  <1>2. QED
    BY <1>1 DEF SiteAdd, At, NoCall, CallsTyped

LEMMA CallOfEdit ==
  ASSUME CallsTyped, NEW w \in Workers, SiteEdit(w)
  PROVE  /\ calls[w].pc = "idle"
         /\ calls'[w].pc = "echeck" /\ calls'[w].phase = "edit"
         /\ calls'[w].dom \in Domains /\ Exists(calls'[w].dom)
         /\ calls'[w].old = sites[calls'[w].dom].parent
         /\ ~calls'[w].set => calls'[w].parent = calls'[w].old
  <1> DEFINE Read(r) ==
               [NoCall EXCEPT
                  !.pc = "echeck", !.phase = "edit", !.dom = r.dom, !.set = r.set,
                  !.user = IF r.user = NoUser THEN sites[r.dom].owner ELSE r.user,
                  !.old = sites[r.dom].parent,
                  !.parent = IF r.set THEN r.parent ELSE sites[r.dom].parent]
  <1>1. PICK r \in EditRequests : Exists(r.dom) /\ calls' = [calls EXCEPT ![w] = Read(r)]
    BY DEF SiteEdit
  <1> DEFINE c == Read(r)
  <1>2. /\ c.pc = "echeck" /\ c.phase = "edit" /\ c.dom = r.dom
        /\ c.old = sites[r.dom].parent /\ c.set = r.set
        /\ ~r.set => c.parent = c.old
    BY DEF NoCall
  <1>3. calls'[w] = c /\ r.dom \in Domains
    BY <1>1, SitesAssumption DEF CallsTyped
  <1> HIDE DEF c
  <1>4. QED
    BY <1>1, <1>2, <1>3 DEF SiteEdit, At

LEMMA CallOfDelete ==
  ASSUME CallsTyped, NEW w \in Workers, SiteDelete(w)
  PROVE  LET c == calls'[w]
         IN  /\ calls[w].pc = "idle"
             /\ c.phase = "delete" /\ c.dom \in Domains /\ Exists(c.dom)
             /\ c.parent = sites[c.dom].parent
             /\ c.pc = IF ~DnsEnabled THEN "vhost"
                       ELSE IF IsRoot(c) THEN "dependents" ELSE "zload"
  <1> DEFINE c(d) == [NoCall EXCEPT !.phase = "delete", !.dom = d,
                                    !.parent = sites[d].parent]
             Started(d) == [c(d) EXCEPT !.pc =
                    IF ~DnsEnabled THEN "vhost"
                    ELSE IF IsRoot(c(d)) THEN "dependents"
                    ELSE FirstStep(c(d), "delete")]
  <1>1. PICK d \in Deletable : Exists(d) /\ calls' = [calls EXCEPT ![w] = Started(d)]
    BY DEF SiteDelete
  <1>2. calls'[w] = Started(d) /\ d \in Domains
    BY <1>1, SitesAssumption DEF CallsTyped
  <1>3. /\ Started(d).phase = "delete" /\ Started(d).dom = d
        /\ Started(d).parent = sites[d].parent
        /\ Started(d).pc = IF ~DnsEnabled THEN "vhost"
                           ELSE IF sites[d].parent = NoDomain THEN "dependents"
                           ELSE "zload"
    BY DEF NoCall, IsRoot, FirstStep
  <1>4. QED
    <2> HIDE DEF Started
    <2>1. QED
      BY <1>1, <1>2, <1>3 DEF SiteDelete, At, IsRoot

LEMMA CallOfLookUp ==
  ASSUME CallsTyped, NEW w \in Workers, LookUp(w)
  PROVE  /\ SameCall(calls[w], calls'[w])
         /\ calls[w].pc = "lookup" /\ calls'[w].pc = "upsert"
         /\ calls'[w].created <=> ~Exists(calls[w].dom)
  BY DEF LookUp, At, CallsTyped, Call, SameCall

LEMMA CallOfLoad ==
  ASSUME CallsTyped, NEW w \in Workers, LoadZone(w)
  PROVE  LET c == calls[w] IN
         /\ c.pc = "zload"
         /\ \/ /\ zone[ZoneOf(c)] # {} \/ IsRoot(c)
               /\ SameCall(c, calls'[w]) /\ calls'[w].pc = "zwrite"
               /\ calls'[w].created = c.created
               /\ calls'[w].buf = zone[ZoneOf(c)]
            \/ /\ zone[ZoneOf(c)] = {} /\ ~IsRoot(c)
               /\ IF Ensures(c) THEN ProviderErrs(w) ELSE ProviderReturns(w)
  <1>1. CASE calls' = [calls EXCEPT ![w].pc = "zwrite",
                                    ![w].buf = zone[ZoneOf(calls[w])]]
    BY <1>1 DEF LoadZone, At, CallsTyped, Call, SameCall, ProviderErrs, ProviderReturns
  <1>2. QED
    BY <1>1 DEF LoadZone, At

LEMMA CallOfList ==
  ASSUME CallsTyped, NEW w \in Workers, ListZones(w)
  PROVE  /\ SameCall(calls[w], calls'[w])
         /\ calls[w].pc = "list" /\ calls'[w].pc = "include"
         /\ calls'[w].created = calls[w].created
         /\ calls'[w].list = {z \in Domains : zone[z] # {}}
  BY DEF ListZones, At, CallsTyped, Call, SameCall

-----------------------------------------------------------------------------
(* What a request knows of the rows *)

\* The steps of an add that has written its row.
Written == ProviderSteps \cup {"compensate"}

RootSteps == {"dependents", "zremove", "list", "include", "reconfig"}

\* Where a call can be, by what it does.
Fits(c) ==
    /\ c.pc \in {"limit", "lookup", "upsert", "compensate"} => c.phase = "add"
    /\ c.pc \in {"echeck", "esave"} => c.phase = "edit"
    /\ c.pc \in {"dependents", "zremove", "vhost", "row"} => c.phase = "delete"
    /\ c.pc \in ProviderSteps => c.phase # "edit"
    /\ c.pc \in RootSteps => IsRoot(c)
    /\ ~DnsEnabled => c.pc \notin Written \cup {"dependents"}

\* What the call c has found out holds of the rows ss while nobody else writes
\* them.
Knows(c, ss) ==
    /\ c.pc \in {"limit", "lookup", "upsert"} => Parented(ss, c.user, c.dom, c.parent)
    /\ c.pc \in {"lookup", "upsert"} => Fitting(ss, c.user, c.parent)
    /\ c.pc = "upsert" /\ c.created => ~Has(ss, c.dom)
    /\ c.phase = "add" /\ c.pc \in Written =>
           ss[c.dom] = [owner |-> c.user, parent |-> c.parent]
    /\ c.pc \in {"echeck", "esave"} =>
           /\ Has(ss, c.dom) /\ c.old = ss[c.dom].parent
           /\ ~c.set => c.parent = c.old
    /\ c.pc = "esave" =>
           /\ DnsEnabled /\ c.set => c.parent = c.old
           /\ c.set /\ (c.parent = NoDomain) # (c.old = NoDomain)
                 => Fitting(ss, c.user, c.parent)
    /\ c.phase = "delete" /\ c.pc \in Steps =>
           Has(ss, c.dom) /\ c.parent = ss[c.dom].parent

RowInv == \A w \in Workers : Fits(calls[w]) /\ Knows(calls[w], sites)

LEMMA RestIsKnown ==
  ASSUME NEW c, c.pc \in {"idle", "done"}, NEW ss
  PROVE  Fits(c) /\ Knows(c, ss)
  BY DEF Fits, Knows, Steps, ProviderSteps, Written, RootSteps

LEMMA RowsOfOne ==
  ASSUME OneRequest, NEW w \in Workers, Fits(calls'[w]), Knows(calls'[w], sites')
  PROVE  RowInv'
  <1>1. \A v \in Workers : v = w
    BY DEF OneRequest
  <1>2. QED
    BY <1>1 DEF RowInv

\* A provider call that ends leaves the rows alone.
LEMMA ProviderKnows ==
  ASSUME OneRequest, CallsTyped, RowInv, NEW w \in Workers,
         calls[w].pc \in ProviderSteps, UNCHANGED sites,
         ProviderReturns(w) \/ ProviderErrs(w)
  PROVE  RowInv'
  <1>1. Fits(calls[w]) /\ Knows(calls[w], sites)
    BY DEF RowInv
  <1>2. CASE calls'[w].pc = "done"
    BY <1>2, RestIsKnown, RowsOfOne
  <1>3. CASE /\ SameCall(calls[w], calls'[w]) /\ calls[w].phase = "delete"
             /\ calls'[w].pc = "vhost"
    <2>1. Fits(calls'[w]) /\ Knows(calls'[w], sites)
      BY <1>1, <1>3 DEF Fits, Knows, SameCall, Steps, ProviderSteps, Written, RootSteps
    <2>2. QED
      BY <2>1, RowsOfOne
  <1>4. CASE /\ SameCall(calls[w], calls'[w]) /\ calls[w].phase = "add"
             /\ calls'[w].pc = "compensate"
    <2>1. Fits(calls'[w]) /\ Knows(calls'[w], sites)
      BY <1>1, <1>4 DEF Fits, Knows, SameCall, Steps, ProviderSteps, Written, RootSteps
    <2>2. QED
      BY <2>1, RowsOfOne
  <1>5. QED
    BY <1>2, <1>3, <1>4, CallOfReturns, CallOfErrs

\* A provider step on the way to the next.
LEMMA WorkKnows ==
  ASSUME OneRequest, CallsTyped, RowInv, NEW w \in Workers,
         calls[w].pc \in ProviderSteps, UNCHANGED sites,
         SameCall(calls[w], calls'[w]), calls'[w].pc \in ProviderSteps,
         calls'[w].pc \in RootSteps => IsRoot(calls[w]),
         calls'[w].pc # "zremove"
  PROVE  RowInv'
  <1>1. Fits(calls[w]) /\ Knows(calls[w], sites)
    BY DEF RowInv
  <1>2. Fits(calls'[w]) /\ Knows(calls'[w], sites)
    BY <1>1 DEF Fits, Knows, SameCall, Steps, ProviderSteps, Written, RootSteps, IsRoot
  <1>3. QED
    BY <1>2, RowsOfOne

LEMMA RequestKnows ==
  ASSUME OneRequest, TypeInv, NEW w \in Workers, Request(w)
  PROVE  RowInv'
  <1> USE DEF TypeInv
  <1>1. UNCHANGED sites
    BY DEF Request, SiteAdd, SiteEdit, SiteDelete
  <1>2. CASE SiteAdd(w)
    <2>1. CASE calls'[w].pc = "done"
      BY <2>1, RestIsKnown, RowsOfOne
    <2>2. CASE calls'[w].pc = "limit"
      <3>1. /\ Parented(sites, calls'[w].user, calls'[w].dom, calls'[w].parent)
            /\ calls'[w].phase = "add"
        BY <1>2, <2>2, CallOfAdd, OfRows
      <3>2. Fits(calls'[w]) /\ Knows(calls'[w], sites)
        BY <2>2, <3>1 DEF Fits, Knows, Steps, ProviderSteps, Written, RootSteps
      <3>3. QED
        BY <1>1, <3>2, RowsOfOne
    <2>3. QED
      BY <1>2, <2>1, <2>2, CallOfAdd
  <1>3. CASE SiteEdit(w)
    <2>1. /\ calls'[w].pc = "echeck" /\ calls'[w].phase = "edit"
          /\ Has(sites, calls'[w].dom)
          /\ calls'[w].old = sites[calls'[w].dom].parent
          /\ ~calls'[w].set => calls'[w].parent = calls'[w].old
      BY <1>3, CallOfEdit, OfRows
    <2>2. Fits(calls'[w]) /\ Knows(calls'[w], sites)
      BY <2>1 DEF Fits, Knows, Steps, ProviderSteps, Written, RootSteps
    <2>3. QED
      BY <1>1, <2>2, RowsOfOne
  <1>4. CASE SiteDelete(w)
    <2>1. /\ calls'[w].phase = "delete" /\ Has(sites, calls'[w].dom)
          /\ calls'[w].parent = sites[calls'[w].dom].parent
          /\ calls'[w].pc = IF ~DnsEnabled THEN "vhost"
                            ELSE IF IsRoot(calls'[w]) THEN "dependents" ELSE "zload"
      BY <1>4, CallOfDelete, OfRows
    <2>2. Fits(calls'[w]) /\ Knows(calls'[w], sites)
      BY <2>1 DEF Fits, Knows, Steps, ProviderSteps, Written, RootSteps
    <2>3. QED
      BY <1>1, <2>2, RowsOfOne
  <1>5. QED
    BY <1>2, <1>3, <1>4 DEF Request

LEMMA ProviderStepKnows ==
  ASSUME OneRequest, TypeInv, RowInv, NEW w \in Workers, ProviderStep(w)
  PROVE  RowInv'
  <1> USE DEF TypeInv
  <1>1. UNCHANGED sites
    BY DEF ProviderStep, LoadZone, WriteZone, CheckZone, RemoveZone, ListZones,
           WriteInclude, Reconfig, Reload, dns
  <1>2. Fits(calls[w])
    BY DEF RowInv
  <1>3. calls[w].pc \in ProviderSteps
    BY DEF ProviderStep, LoadZone, WriteZone, CheckZone, RemoveZone, ListZones,
           WriteInclude, Reconfig, Reload, At, ProviderSteps
  <1>4. CASE ProviderReturns(w) \/ ProviderErrs(w)
    BY <1>1, <1>3, <1>4, ProviderKnows
  <1>5. CASE /\ SameCall(calls[w], calls'[w])
             /\ calls'[w].pc \in {"zwrite", "zcheck", "reload"}
    BY <1>1, <1>3, <1>5, WorkKnows DEF ProviderSteps, RootSteps
  <1>6. CASE /\ SameCall(calls[w], calls'[w]) /\ IsRoot(calls[w])
             /\ calls'[w].pc \in {"list", "include", "reconfig"}
    BY <1>1, <1>3, <1>6, WorkKnows DEF ProviderSteps, RootSteps
  <1>7. CASE LoadZone(w)
    BY <1>4, <1>5, <1>7, CallOfLoad
  <1>8. CASE WriteZone(w)
    BY <1>5, <1>8, CallOfGoto DEF WriteZone
  <1>9. CASE CheckZone(w)
    BY <1>4, <1>5, <1>6, <1>9, CallOfGoto DEF CheckZone
  <1>10. CASE RemoveZone(w) \/ WriteInclude(w)
    <2>1. IsRoot(calls[w])
      BY <1>2, <1>10 DEF RemoveZone, WriteInclude, At, Fits, RootSteps
    <2>2. QED
      BY <1>6, <1>10, <2>1, CallOfGoto DEF RemoveZone, WriteInclude
  <1>11. CASE ListZones(w)
    <2>1. IsRoot(calls[w])
      BY <1>2, <1>11 DEF ListZones, At, Fits, RootSteps
    <2>2. QED
      BY <1>6, <1>11, <2>1, CallOfList
  <1>12. CASE Reconfig(w)
    BY <1>4, <1>5, <1>12, CallOfGoto DEF Reconfig
  <1>13. CASE Reload(w)
    BY <1>4, <1>13 DEF Reload
  <1>14. QED
    BY <1>7, <1>8, <1>9, <1>10, <1>11, <1>12, <1>13 DEF ProviderStep

LEMMA StepKnows ==
  ASSUME OneRequest, TypeInv, RowInv, NEW w \in Workers, Step(w)
  PROVE  RowInv'
  <1> USE DEF TypeInv
  <1> DEFINE c == calls[w]
  <1>0. Fits(c) /\ Knows(c, sites)
    BY DEF RowInv
  <1>1. CASE calls'[w].pc \in {"idle", "done"}
    BY <1>1, RestIsKnown, RowsOfOne
  <1>2. CASE CheckLimit(w)
    <2>1. CASE Goto(w, "lookup") /\ HasRoom(c.user, c.parent)
      <3>1. c.pc = "limit" /\ Fitting(sites, c.user, c.parent) /\ sites' = sites
        BY <1>2, <2>1, OfRows DEF CheckLimit, At
      <3>2. SameCall(c, calls'[w]) /\ calls'[w].pc = "lookup"
        BY <2>1, CallOfGoto
      <3>3. Fits(calls'[w]) /\ Knows(calls'[w], sites)
        BY <1>0, <3>1, <3>2
           DEF Fits, Knows, SameCall, Steps, ProviderSteps, Written, RootSteps
      <3>4. QED
        BY <3>1, <3>3, RowsOfOne
    <2>2. QED
      BY <1>1, <1>2, <2>1, CallOfFinish DEF CheckLimit
  <1>3. CASE LookUp(w)
    <2>1. /\ c.pc = "lookup" /\ sites' = sites
          /\ SameCall(c, calls'[w]) /\ calls'[w].pc = "upsert"
          /\ calls'[w].created <=> ~Has(sites, c.dom)
      BY <1>3, CallOfLookUp, OfRows DEF LookUp
    <2>2. Fits(calls'[w]) /\ Knows(calls'[w], sites)
      BY <1>0, <2>1
         DEF Fits, Knows, SameCall, Steps, ProviderSteps, Written, RootSteps
    <2>3. QED
      BY <2>1, <2>2, RowsOfOne
  <1>4. CASE Upsert(w)
    <2>1. CASE DnsEnabled
      <3>1. FirstStep(c, "add") = "zload"
        BY DEF FirstStep
      <3>2. /\ c.pc = "upsert" /\ SameCall(c, calls'[w]) /\ calls'[w].pc = "zload"
        BY <1>4, <2>1, <3>1, CallOfGoto DEF Upsert, At
      <3>3. c.dom \in Domains
        BY <3>2 DEF CallsTyped, DomKnown, Steps
      <3>4. sites'[c.dom] = [owner |-> c.user, parent |-> c.parent]
        BY <1>4, <3>3 DEF Upsert, TypeOK
      <3>5. Fits(calls'[w]) /\ Knows(calls'[w], sites')
        BY <1>0, <2>1, <3>2, <3>4
           DEF Fits, Knows, SameCall, Steps, ProviderSteps, Written, RootSteps
      <3>6. QED
        BY <3>5, RowsOfOne
    <2>2. QED
      BY <1>1, <1>4, <2>1, CallOfFinish DEF Upsert
  <1>5. CASE CheckEdit(w)
    <2>1. CASE Goto(w, "esave") /\ MayEdit(c)
      <3>1. c.pc = "echeck" /\ sites' = sites
        BY <1>5 DEF CheckEdit, At
      <3>2. /\ DnsEnabled /\ c.set => c.parent = c.old
            /\ c.set /\ (c.parent = NoDomain) # (c.old = NoDomain)
                  => Fitting(sites, c.user, c.parent)
        BY <2>1, OfRows DEF MayEdit
      <3>3. SameCall(c, calls'[w]) /\ calls'[w].pc = "esave"
        BY <2>1, CallOfGoto
      <3>4. Fits(calls'[w]) /\ Knows(calls'[w], sites)
        BY <1>0, <3>1, <3>2, <3>3
           DEF Fits, Knows, SameCall, Steps, ProviderSteps, Written, RootSteps
      <3>5. QED
        BY <3>1, <3>4, RowsOfOne
    <2>2. QED
      BY <1>1, <1>5, <2>1, CallOfFinish DEF CheckEdit
  <1>6. CASE CheckDependents(w)
    <2>1. c.pc = "dependents" /\ sites' = sites /\ IsRoot(c)
      BY <1>0, <1>6 DEF CheckDependents, At, Fits, RootSteps
    <2>2. CASE Goto(w, FirstStep(c, "delete"))
      <3>1. FirstStep(c, "delete") = "zremove"
        BY <2>1 DEF FirstStep
      <3>2. SameCall(c, calls'[w]) /\ calls'[w].pc = "zremove"
        BY <2>2, <3>1, CallOfGoto
      <3>3. Fits(calls'[w]) /\ Knows(calls'[w], sites)
        BY <1>0, <2>1, <3>2
           DEF Fits, Knows, SameCall, Steps, ProviderSteps, Written, RootSteps, IsRoot
      <3>4. QED
        BY <2>1, <3>3, RowsOfOne
    <2>3. QED
      BY <1>1, <1>6, <2>2, CallOfFinish DEF CheckDependents
  <1>7. CASE RemoveVhost(w)
    <2>1. /\ c.pc = "vhost" /\ sites' = sites
          /\ SameCall(c, calls'[w]) /\ calls'[w].pc = "row"
      BY <1>7, CallOfGoto DEF RemoveVhost, At
    <2>2. Fits(calls'[w]) /\ Knows(calls'[w], sites)
      BY <1>0, <2>1
         DEF Fits, Knows, SameCall, Steps, ProviderSteps, Written, RootSteps
    <2>3. QED
      BY <2>1, <2>2, RowsOfOne
  <1>8. CASE DeleteRow(w)
    <2>1. CASE Finish(w, TRUE)
      BY <1>1, <2>1, CallOfFinish
    <2>2. CASE Restore(w)
      <3>1. (c.pc = "row" /\ ~Has(sites, c.dom)) \/ Finish(w, TRUE)
        BY <1>8, OfRows DEF DeleteRow, At
      <3>2. c.pc = "row" => Has(sites, c.dom)
        BY <1>0 DEF Fits, Knows, Steps
      <3>3. QED
        BY <2>1, <3>1, <3>2
    <2>3. QED
      BY <1>8, <2>1, <2>2 DEF DeleteRow
  <1>9. CASE Compensate(w) \/ SaveEdit(w)
    BY <1>1, <1>9, CallOfFinish DEF Compensate, SaveEdit
  <1>10. CASE ProviderStep(w)
    BY <1>10, ProviderStepKnows
  <1>11. CASE Return(w)
    BY <1>1, <1>11, NoCallFields DEF Return, CallsTyped
  <1>12. QED
    BY <1>2, <1>3, <1>4, <1>5, <1>6, <1>7, <1>8, <1>9, <1>10, <1>11 DEF Step

LEMMA FailureKnows ==
  ASSUME OneRequest, TypeInv, RowInv, NEW w \in Workers, Failure(w)
  PROVE  RowInv'
  <1> USE DEF TypeInv
  <1>0. UNCHANGED sites
    BY DEF Failure, ProviderFails, RndcTimesOut, VhostFails, DbFails, Crash
  <1>1. CASE calls'[w].pc \in {"idle", "done"}
    BY <1>1, RestIsKnown, RowsOfOne
  <1>2. CASE ProviderFails(w) \/ RndcTimesOut(w)
    BY <1>0, <1>2, ProviderKnows DEF ProviderFails, RndcTimesOut, At, ProviderSteps
  <1>3. CASE calls[w].pc = "row" /\ Restore(w)
    <2>1. CASE DnsEnabled /\ calls'[w].pc = "zload" /\ calls'[w].phase = "restore"
      <3>1. Fits(calls'[w]) /\ Knows(calls'[w], sites)
        BY <2>1 DEF Fits, Knows, Steps, ProviderSteps, Written, RootSteps
      <3>2. QED
        BY <1>0, <3>1, RowsOfOne
    <2>2. QED
      BY <1>1, <1>3, <2>1, CallOfRestore
  <1>4. CASE VhostFails(w) \/ DbFails(w)
    BY <1>1, <1>3, <1>4, CallOfFinish DEF VhostFails, DbFails, At
  <1>5. CASE Crash(w)
    BY <1>1, <1>5, NoCallFields DEF Crash, CallsTyped
  <1>6. QED
    BY <1>2, <1>4, <1>5 DEF Failure

LEMMA RowStep ==
  ASSUME OneRequest, TypeInv, RowInv, [Next]_vars
  PROVE  RowInv'
  <1>1. CASE NamedRestart \/ UNCHANGED vars
    BY <1>1 DEF NamedRestart, vars, RowInv
  <1>2. ASSUME NEW w \in Workers, Request(w) \/ Step(w) \/ Failure(w)
        PROVE  RowInv'
    BY <1>2, RequestKnows, StepKnows, FailureKnows
  <1>3. QED
    BY <1>1, <1>2 DEF Next

LEMMA RowInvariant == OneRequest => (Spec => []RowInv)
  <1> SUFFICES ASSUME OneRequest PROVE Spec => []RowInv
    OBVIOUS
  <1>1. Init => RowInv
    BY NoCallFields, RestIsKnown DEF Init, RowInv
  <1>2. TypeInv /\ RowInv /\ [Next]_vars => RowInv'
    BY RowStep
  <1>3. QED
    BY <1>1, <1>2, TypeInvariant, PTL DEF Spec

-----------------------------------------------------------------------------
(* Package limits *)

\* u has more sites of a kind than its package allows.
TooMany(ss, u) ==
    \E root \in BOOLEAN :
        LimitOf(u, root) # -1 /\ Cardinality(Owned(ss, u, root)) > LimitOf(u, root)

LEMMA OfOver ==
  ASSUME NEW u
  PROVE  (Over(u) <=> TooMany(sites, u)) /\ (Over(u)' <=> TooMany(sites', u))
  <1>1. /\ Owned(sites, u, TRUE) = RootsOf(u) /\ Owned(sites, u, FALSE) = SubsOf(u)
        /\ Owned(sites', u, TRUE) = RootsOf(u)' /\ Owned(sites', u, FALSE) = SubsOf(u)'
    BY DEF Owned, RootsOf, SubsOf
  <1>2. TooMany(sites, u)
          <=> \/ Past(LimitOf(u, TRUE), Cardinality(RootsOf(u)))
              \/ Past(LimitOf(u, FALSE), Cardinality(SubsOf(u)))
    BY <1>1 DEF TooMany, Past
  <1>3. TooMany(sites', u)
          <=> \/ Past(LimitOf(u, TRUE), Cardinality(RootsOf(u)'))
              \/ Past(LimitOf(u, FALSE), Cardinality(SubsOf(u)'))
    BY <1>1 DEF TooMany, Past
  <1>4. QED
    BY <1>2, <1>3 DEF Over, LimitOf

\* No more sites, no more over the limit.
LEMMA FewerIsFine ==
  ASSUME NEW u \in Users, NEW ss, NEW tt, ~TooMany(ss, u), TooMany(tt, u),
         \A root \in BOOLEAN : Owned(tt, u, root) \subseteq Owned(ss, u, root)
  PROVE  FALSE
  <1>1. PICK root \in BOOLEAN : /\ LimitOf(u, root) # -1
                                /\ Cardinality(Owned(tt, u, root)) > LimitOf(u, root)
    BY DEF TooMany
  <1>2. /\ IsFiniteSet(Owned(ss, u, root))
        /\ Cardinality(Owned(ss, u, root)) \in Nat
        /\ Cardinality(Owned(tt, u, root)) \in Nat
    BY HeldFinite
  <1>3. Cardinality(Owned(tt, u, root)) <= Cardinality(Owned(ss, u, root))
    BY <1>2, FS_Subset
  <1>4. LimitOf(u, root) \in Int
    BY SitesAssumption DEF LimitOf, Limits
  <1>5. Cardinality(Owned(ss, u, root)) > LimitOf(u, root)
    BY <1>1, <1>2, <1>3, <1>4
  <1>6. QED
    BY <1>1, <1>5 DEF TooMany

\* One more, where there was room, is not over it either.
LEMMA OneMoreFits ==
  ASSUME NEW u \in Users, NEW ss, NEW tt, NEW d, NEW parent,
         ~TooMany(ss, u), TooMany(tt, u), Fitting(ss, u, parent),
         \A root \in BOOLEAN :
             Owned(tt, u, root) \subseteq
                 IF root = (parent = NoDomain) THEN Owned(ss, u, root) \cup {d}
                                               ELSE Owned(ss, u, root)
  PROVE  FALSE
  <1>1. PICK root \in BOOLEAN : /\ LimitOf(u, root) # -1
                                /\ Cardinality(Owned(tt, u, root)) > LimitOf(u, root)
    BY DEF TooMany
  <1> DEFINE S == Owned(ss, u, root)
             T == Owned(tt, u, root)
  <1>2. IsFiniteSet(S) /\ Cardinality(S) \in Nat /\ Cardinality(T) \in Nat
    BY HeldFinite
  <1>3. LimitOf(u, root) \in Int
    BY SitesAssumption DEF LimitOf, Limits
  <1>4. Cardinality(S) <= LimitOf(u, root)
    BY <1>1, <1>2, <1>3 DEF TooMany
  <1>5. CASE root = (parent = NoDomain)
    <2>1. Cardinality(S) < LimitOf(u, root)
      BY <1>1, <1>5 DEF Fitting
    <2>2. T \subseteq S \cup {d}
      BY <1>5
    <2> HIDE DEF S, T
    <2>3. IsFiniteSet(S \cup {d}) /\ Cardinality(S \cup {d}) <= Cardinality(S) + 1
      <3>1. IsFiniteSet(S \cup {d})
        BY <1>2, FS_AddElement
      <3>2. Cardinality(S \cup {d}) = IF d \in S THEN Cardinality(S) ELSE Cardinality(S) + 1
        BY <1>2, FS_AddElement
      <3>3. QED
        BY <1>2, <3>1, <3>2
    <2>4. Cardinality(T) <= Cardinality(S \cup {d}) /\ Cardinality(S \cup {d}) \in Nat
      BY <2>2, <2>3, FS_Subset, FS_CardinalityType
    <2>5. QED
      BY <1>1, <1>2, <1>3, <2>1, <2>3, <2>4 DEF T
  <1>6. CASE root # (parent = NoDomain)
    <2>1. T \subseteq S
      BY <1>6
    <2> HIDE DEF S, T
    <2>2. Cardinality(T) <= Cardinality(S)
      BY <1>2, <2>1, FS_Subset
    <2>3. QED
      BY <1>1, <1>2, <1>3, <1>4, <2>2 DEF T
  <1>7. QED
    BY <1>5, <1>6

\* The rows change at four statements.
LEMMA RowsChange ==
  ASSUME TypeInv, [Next]_vars, sites' # sites
  PROVE  \E w \in Workers :
             LET c == calls[w]
             IN  /\ c.dom \in Domains
                 /\ \/ /\ Upsert(w) \/ SaveEdit(w)
                       /\ sites' = [sites EXCEPT ![c.dom] =
                                       [owner |-> c.user, parent |-> c.parent]]
                    \/ /\ (Compensate(w) /\ c.created) \/ DeleteRow(w)
                       /\ sites' = [sites EXCEPT ![c.dom] = NoSite]
  <1>1. sites' = sites \/ \E w \in Workers : Upsert(w) \/ SaveEdit(w)
                                            \/ Compensate(w) \/ DeleteRow(w)
    BY DEF Next, Request, Step, ProviderStep, Failure, NamedRestart, SiteAdd, SiteEdit,
           SiteDelete, CheckLimit, LookUp, CheckEdit, CheckDependents, RemoveVhost,
           LoadZone, WriteZone, CheckZone, RemoveZone, ListZones, WriteInclude,
           Reconfig, Reload, Return, ProviderFails, RndcTimesOut, VhostFails, DbFails,
           Crash, vars
  <1>2. PICK w \in Workers : Upsert(w) \/ SaveEdit(w) \/ Compensate(w) \/ DeleteRow(w)
    BY <1>1
  <1>3. calls[w].dom \in Domains
    BY <1>2 DEF Upsert, SaveEdit, Compensate, DeleteRow, At, TypeInv, CallsTyped,
                DomKnown, Steps
  <1>4. QED
    BY <1>2, <1>3 DEF Upsert, SaveEdit, Compensate, DeleteRow

LEMMA OwnedAfterWrite ==
  ASSUME TypeOK, NEW d \in Domains, NEW v, NEW p,
         sites' = [sites EXCEPT ![d] = [owner |-> v, parent |-> p]],
         NEW u, NEW root \in BOOLEAN
  PROVE  Owned(sites', u, root) \subseteq
             IF u = v /\ root = (p = NoDomain) THEN Owned(sites, u, root) \cup {d}
                                               ELSE Owned(sites, u, root)
  <1>1. /\ sites'[d].owner = v /\ sites'[d].parent = p
        /\ \A e \in Domains : e # d => sites'[e] = sites[e]
    BY DEF TypeOK
  <1>2. QED
    BY <1>1 DEF Owned

\* One request at a time, only an edit that hands a site over takes an owner past
\* a limit of its package: counting and inserting are two statements, and nothing
\* comes between them, whatever failed in earlier requests and whether or not
\* there is DNS.
THEOREM PastOnlyByMove == OneRequest => (Spec => PastLimitOnlyByMove)
  <1> SUFFICES ASSUME OneRequest PROVE Spec => PastLimitOnlyByMove
    OBVIOUS
  <1>1. ASSUME TypeInv, RowInv, [Next]_vars, NEW u \in Users, ~Over(u), Over(u)'
        PROVE  Moves(u) /\ \E w \in Workers : At(w, "esave")
    <2>1. ~TooMany(sites, u) /\ TooMany(sites', u)
      BY <1>1, OfOver
    <2>2. sites' # sites
      BY <2>1
    <2>3. PICK w \in Workers :
             LET c == calls[w]
             IN  /\ c.dom \in Domains
                 /\ \/ /\ Upsert(w) \/ SaveEdit(w)
                       /\ sites' = [sites EXCEPT ![c.dom] =
                                       [owner |-> c.user, parent |-> c.parent]]
                    \/ /\ (Compensate(w) /\ c.created) \/ DeleteRow(w)
                       /\ sites' = [sites EXCEPT ![c.dom] = NoSite]
      BY <1>1, <2>2, RowsChange
    <2> DEFINE c == calls[w]
    <2>4. Knows(c, sites) /\ TypeOK /\ c \in Call
      BY <1>1 DEF RowInv, TypeInv, CallsTyped
    <2>5. CASE sites' = [sites EXCEPT ![c.dom] = NoSite]
      <3>1. NoSite.owner # u
        BY SitesAssumption DEF NoSite
      <3>2. \A root \in BOOLEAN : Owned(sites', u, root) \subseteq Owned(sites, u, root)
        <4>1. /\ sites'[c.dom].owner # u
              /\ \A e \in Domains : e # c.dom => sites'[e] = sites[e]
          BY <2>3, <2>4, <2>5, <3>1 DEF TypeOK
        <4>2. QED
          BY <4>1 DEF Owned
      <3>3. QED
        BY <2>1, <3>2, FewerIsFine
    <2>6. CASE sites' = [sites EXCEPT ![c.dom] =
                            [owner |-> c.user, parent |-> c.parent]]
      <3>1. \A root \in BOOLEAN :
               Owned(sites', u, root) \subseteq
                 IF u = c.user /\ root = (c.parent = NoDomain)
                 THEN Owned(sites, u, root) \cup {c.dom} ELSE Owned(sites, u, root)
        BY <2>3, <2>4, <2>6, OwnedAfterWrite
      <3>2. u = c.user
        BY <2>1, <3>1, FewerIsFine
      <3>3. ~Fitting(sites, u, c.parent)
        <4>1. \A root \in BOOLEAN :
                 Owned(sites', u, root) \subseteq
                   IF root = (c.parent = NoDomain)
                   THEN Owned(sites, u, root) \cup {c.dom} ELSE Owned(sites, u, root)
          BY <3>1, <3>2
        <4> HIDE DEF c
        <4>2. QED
          BY <2>1, <4>1, OneMoreFits
      <3>4. CASE Upsert(w)
        BY <2>4, <3>2, <3>3, <3>4 DEF Upsert, At, Knows
      <3>5. CASE SaveEdit(w)
        <4>1. c.pc = "esave" /\ Has(sites, c.dom)
          BY <2>4, <3>5 DEF SaveEdit, At, Knows
        <4>2. CASE sites[c.dom].owner # u
          BY <2>3, <2>4, <2>6, <3>2, <4>1, <4>2 DEF Moves, Exists, Has, TypeOK, At
        <4>3. CASE sites[c.dom].owner = u
          <5>1. (c.parent = NoDomain) <=> (sites[c.dom].parent = NoDomain)
            BY <2>4, <3>2, <3>3, <4>1 DEF Knows
          <5>2. c.dom \in Owned(sites, u, c.parent = NoDomain)
            BY <2>3, <4>3, <5>1 DEF Owned
          <5>3. \A root \in BOOLEAN :
                   Owned(sites', u, root) \subseteq Owned(sites, u, root)
            BY <3>1, <5>2
          <5>4. QED
            BY <2>1, <5>3, FewerIsFine
        <4>4. QED
          BY <4>2, <4>3
      <3>6. CASE (Compensate(w) /\ c.created) \/ DeleteRow(w)
        <4>1. sites' = [sites EXCEPT ![c.dom] = NoSite]
          BY <2>2, <3>6 DEF Compensate, DeleteRow
        <4>2. QED
          BY <2>5, <4>1
      <3>7. QED
        BY <2>3, <3>4, <3>5, <3>6
    <2>7. QED
      BY <2>3, <2>5, <2>6
  <1>2. TypeInv /\ RowInv /\ [Next]_vars
        => [\A u \in Users : ~Over(u) /\ Over(u)' =>
               Moves(u) /\ \E w \in Workers : At(w, "esave")]_vars
    BY <1>1
  <1>3. QED
    BY <1>2, RowInvariant, TypeInvariant, PTL DEF Spec, PastLimitOnlyByMove

-----------------------------------------------------------------------------
(* What a successful SiteAdd or SiteDelete leaves, whatever failed before it *)

\* What an add has made sure of, of the zone files zn and the include file inc.
Adding(c, zn, inc) ==
    LET z == ZoneOf(c)
    IN  /\ c.pc \in {"zcheck", "list", "include", "reconfig", "reload"} => c.dom \in zn[z]
        /\ c.pc \in {"list", "include", "reconfig", "reload"} => Valid(zn[z])
        /\ IsRoot(c) /\ c.pc = "include" => z \in c.list
        /\ IsRoot(c) /\ c.pc \in {"reconfig", "reload"} => z \in inc

\* What a delete has: of a root, and of a subdomain.  sv is what named answers.
Removing(c, zn, inc, sv) ==
    /\ IsRoot(c) => c.pc \notin {"zload", "zwrite", "zcheck", "reload"}
    /\ c.pc \in {"list", "include", "reconfig"} => zn[c.dom] = {}
    /\ c.pc = "include" => c.dom \notin c.list
    /\ c.pc = "reconfig" => c.dom \notin inc
    /\ IsRoot(c) /\ c.pc \in {"vhost", "row"} =>
           zn[c.dom] = {} /\ c.dom \notin inc /\ sv[c.dom] = {}
    /\ ~IsRoot(c) /\ c.pc \in {"zcheck", "reload"} => c.dom \notin zn[c.parent]
    /\ ~IsRoot(c) /\ c.pc \in {"vhost", "row"} =>
           /\ c.dom \notin zn[c.parent]
           /\ zn[c.parent] # {} => c.dom \notin sv[c.parent]

Works(c, zn, inc, sv) ==
    /\ c.phase = "add" => Adding(c, zn, inc)
    /\ c.phase = "delete" => Removing(c, zn, inc, sv)

WorkInv ==
    DnsEnabled => \A w \in Workers : Works(calls[w], zone, include, served)

LEMMA WorksOfOne ==
  ASSUME OneRequest, NEW w \in Workers,
         DnsEnabled => Works(calls'[w], zone', include', served')
  PROVE  WorkInv'
  <1>1. \A v \in Workers : v = w
    BY DEF OneRequest
  <1>2. QED
    BY <1>1 DEF WorkInv

\* Steps before and after the provider's work.
LEMMA NothingDone ==
  ASSUME NEW c, NEW zn, NEW inc, NEW sv,
         \/ c.pc \in {"idle", "done", "limit", "lookup", "upsert", "compensate",
                      "echeck", "esave", "dependents", "zremove"}
         \/ c.pc \in {"zload", "zwrite"} /\ (c.phase = "delete" => ~IsRoot(c))
         \/ c.phase \notin {"add", "delete"}
  PROVE  Works(c, zn, inc, sv)
  BY DEF Works, Adding, Removing

\* The steps that write no zone, no include file and tell named nothing.
LEMMA RequestWorks ==
  ASSUME OneRequest, TypeInv, RowInv, NEW w \in Workers,
         Request(w) \/ (Step(w) /\ ~ProviderStep(w) /\ ~RemoveVhost(w)) \/ Failure(w)
  PROVE  WorkInv'
  <1> DEFINE e == calls'[w]
  <1> USE DEF TypeInv
  <1>1. SUFFICES ASSUME DnsEnabled PROVE Works(e, zone', include', served')
    BY WorksOfOne
  <1>2. CASE Request(w)
    <2>1. \/ e.pc \in {"limit", "done", "echeck", "dependents"}
          \/ e.pc = "zload" /\ ~IsRoot(e)
      BY <1>1, <1>2, CallOfAdd, CallOfEdit, CallOfDelete DEF Request
    <2>2. QED
      BY <2>1, NothingDone
  <1>3. ASSUME ProviderErrs(w) PROVE e.pc \in {"compensate", "done"}
    BY <1>3, CallOfErrs
  <1>4. ASSUME Restore(w) PROVE e.phase = "restore"
    BY <1>1, <1>4, CallOfRestore
  <1>5. CASE Failure(w)
    <2>1. e.pc \in {"compensate", "done", "idle"} \/ e.phase = "restore"
      BY <1>3, <1>4, <1>5, CallOfFinish, NoCallFields
         DEF Failure, ProviderFails, RndcTimesOut, VhostFails, DbFails, Crash, CallsTyped
    <2>2. QED
      BY <2>1, NothingDone
  <1>6. CASE Step(w) /\ ~ProviderStep(w) /\ ~RemoveVhost(w)
    <2> DEFINE Fine(x) == \/ x.pc \in {"idle", "done", "lookup", "upsert", "esave",
                                       "zremove"}
                          \/ x.pc = "zload" /\ x.phase = "add"
                          \/ x.phase = "restore"
    <2> SUFFICES Fine(e)
      BY NothingDone
    <2>1. CASE CheckLimit(w) \/ CheckEdit(w) \/ LookUp(w)
      BY <2>1, CallOfGoto, CallOfFinish, CallOfLookUp DEF CheckLimit, CheckEdit
    <2>2. CASE Upsert(w)
      <3>1. calls[w].phase = "add" /\ FirstStep(calls[w], "add") = "zload"
        BY <2>2 DEF Upsert, At, RowInv, Fits, FirstStep
      <3>2. QED
        BY <1>1, <2>2, <3>1, CallOfGoto DEF Upsert, SameCall
    <2>3. CASE Compensate(w) \/ SaveEdit(w)
      BY <2>3, CallOfFinish DEF Compensate, SaveEdit
    <2>4. CASE CheckDependents(w)
      <3>1. FirstStep(calls[w], "delete") = "zremove"
        BY <2>4 DEF CheckDependents, At, RowInv, Fits, RootSteps, FirstStep
      <3>2. QED
        BY <2>4, <3>1, CallOfGoto, CallOfFinish DEF CheckDependents
    <2>5. CASE DeleteRow(w)
      BY <1>4, <2>5, CallOfFinish DEF DeleteRow
    <2>6. CASE Return(w)
      BY <2>6, NoCallFields DEF Return, CallsTyped
    <2>7. QED
      BY <1>6, <2>1, <2>2, <2>3, <2>4, <2>5, <2>6 DEF Step
  <1>7. QED
    BY <1>2, <1>5, <1>6

LEMMA ProviderWorks ==
  ASSUME OneRequest, TypeInv, RowInv, WorkInv, NEW w \in Workers,
         ProviderStep(w) \/ RemoveVhost(w)
  PROVE  WorkInv'
  <1> DEFINE c == calls[w]
             e == calls'[w]
             z == ZoneOf(c)
  <1> USE DEF TypeInv
  <1>1. SUFFICES ASSUME DnsEnabled PROVE Works(e, zone', include', served')
    BY WorksOfOne
  <1>2. Works(c, zone, include, served) /\ Fits(c)
    BY <1>1 DEF WorkInv, RowInv
  <1>3. c.pc \in Steps /\ c.dom \in Domains /\ z \in Domains /\ c \in Call
    <2>1. c.pc \in Steps
      BY DEF ProviderStep, LoadZone, WriteZone, CheckZone, RemoveZone, ListZones,
             WriteInclude, Reconfig, Reload, RemoveVhost, At, Steps, ProviderSteps
    <2>2. QED
      BY <2>1, ZoneOfType DEF CallsTyped, DomKnown
  <1>4. ZoneOf(c) = IF IsRoot(c) THEN c.dom ELSE c.parent
    BY DEF ZoneOf
  <1>5. ASSUME SameCall(c, e) PROVE (IsRoot(e) <=> IsRoot(c)) /\ ZoneOf(e) = z
    BY <1>5 DEF SameCall, IsRoot, ZoneOf
  <1>6. ASSUME ProviderErrs(w) PROVE Works(e, zone', include', served')
    BY <1>6, CallOfErrs, NothingDone
  <1>7. ASSUME ProviderReturns(w), c.phase # "delete"
        PROVE  Works(e, zone', include', served')
    BY <1>7, CallOfReturns, NothingDone
  <1>8. CASE LoadZone(w)
    <2>1. c.pc = "zload" /\ zone' = zone /\ served' = served
      BY <1>8 DEF LoadZone, At, dns
    <2>2. c.phase = "delete" => ~IsRoot(c)
      BY <1>2, <2>1 DEF Works, Removing
    <2>3. CASE SameCall(c, e) /\ e.pc = "zwrite"
      BY <1>5, <2>2, <2>3, NothingDone DEF SameCall
    <2>4. CASE zone[z] = {} /\ ~IsRoot(c) /\ ProviderReturns(w) /\ c.phase = "delete"
      <3>1. SameCall(c, e) /\ e.pc = "vhost"
        BY <2>4, CallOfReturns
      <3>2. QED
        BY <1>4, <1>5, <2>1, <2>4, <3>1 DEF Works, Removing, SameCall
    <2>5. QED
      BY <1>6, <1>7, <1>8, <2>3, <2>4, CallOfLoad
  <1>9. CASE WriteZone(w)
    <2>1. c.pc = "zwrite" /\ SameCall(c, e) /\ e.pc = "zcheck"
      BY <1>9, CallOfGoto DEF WriteZone, At
    <2>2. zone'[z] = Records(c)
      BY <1>3, <1>9 DEF WriteZone, TypeOK
    <2>3. c.phase = "add" => c.dom \in zone'[z]
      BY <2>2 DEF Records, Ensures
    <2>4. c.phase = "delete" => c.dom \notin zone'[z] /\ ~IsRoot(c)
      BY <1>2, <2>1, <2>2 DEF Records, Ensures, Works, Removing
    <2> HIDE DEF z
    <2>5. QED
      BY <1>4, <1>5, <2>1, <2>3, <2>4 DEF Works, Adding, Removing, SameCall, z
  <1>10. CASE CheckZone(w)
    <2>1. c.pc = "zcheck" /\ zone' = zone
      BY <1>10 DEF CheckZone, At, dns
    <2>2. CASE Valid(zone[z]) /\ Goto(w, IF IsRoot(c) THEN "list" ELSE "reload")
      <3>1. SameCall(c, e) /\ e.pc = IF IsRoot(c) THEN "list" ELSE "reload"
        BY <2>2, CallOfGoto
      <3>2. c.phase = "delete" => ~IsRoot(c)
        BY <1>2, <2>1 DEF Works, Removing
      <3> HIDE DEF z
      <3>3. QED
        BY <1>2, <1>4, <1>5, <2>1, <2>2, <3>1, <3>2
           DEF Works, Adding, Removing, SameCall, z
    <2>3. QED
      BY <1>6, <1>10, <2>2 DEF CheckZone
  <1>11. CASE RemoveZone(w)
    <2>1. c.phase = "delete" /\ IsRoot(c)
      BY <1>2, <1>11 DEF RemoveZone, At, Fits, RootSteps
    <2>2. SameCall(c, e) /\ e.pc = "list" /\ zone'[c.dom] = {}
      BY <1>3, <1>11, CallOfGoto DEF RemoveZone, TypeOK
    <2>3. QED
      BY <1>5, <2>1, <2>2 DEF Works, Removing, SameCall
  <1>12. CASE ListZones(w)
    <2>1. /\ c.pc = "list" /\ zone' = zone /\ SameCall(c, e) /\ e.pc = "include"
          /\ e.list = {y \in Domains : zone[y] # {}}
      BY <1>12, CallOfList DEF ListZones, dns
    <2>2. IsRoot(c)
      BY <1>2, <2>1 DEF Fits, RootSteps
    <2>3. c.phase = "add" => z \in e.list
      BY <1>2, <1>3, <2>1 DEF Works, Adding
    <2>4. c.phase = "delete" => c.dom \notin e.list /\ zone[c.dom] = {}
      BY <1>2, <2>1 DEF Works, Removing
    <2> HIDE DEF z
    <2>5. QED
      BY <1>2, <1>4, <1>5, <2>1, <2>2, <2>3, <2>4 DEF Works, Adding, Removing, SameCall, z
  <1>13. CASE WriteInclude(w)
    <2>1. /\ c.pc = "include" /\ zone' = zone /\ SameCall(c, e) /\ e.pc = "reconfig"
          /\ include' = c.list
      BY <1>13, CallOfGoto DEF WriteInclude, At
    <2>2. IsRoot(c)
      BY <1>2, <2>1 DEF Fits, RootSteps
    <2> HIDE DEF z
    <2>3. QED
      BY <1>2, <1>4, <1>5, <2>1, <2>2 DEF Works, Adding, Removing, SameCall, z
  <1>14. CASE Reconfig(w)
    <2>1. c.pc = "reconfig" /\ zone' = zone /\ include' = include /\ IsRoot(c)
      BY <1>2, <1>14 DEF Reconfig, At, Fits, RootSteps
    <2>2. CASE Ensures(c) /\ Goto(w, "reload")
      <3>1. SameCall(c, e) /\ e.pc = "reload" /\ c.phase # "delete"
        BY <2>2, CallOfGoto DEF Ensures
      <3> HIDE DEF z
      <3>2. QED
        BY <1>2, <1>4, <1>5, <2>1, <3>1 DEF Works, Adding, SameCall, z
    <2>3. CASE c.phase = "delete" /\ ProviderReturns(w)
      <3>1. SameCall(c, e) /\ e.pc = "vhost"
        BY <2>3, CallOfReturns
      <3>2. zone[c.dom] = {} /\ c.dom \notin include
        BY <1>2, <2>1, <2>3 DEF Works, Removing
      <3>3. served'[c.dom] = {}
        BY <1>3, <1>14, <3>2 DEF Reconfig, NamedReconfig
      <3>4. QED
        BY <1>5, <2>1, <2>3, <3>1, <3>2, <3>3 DEF Works, Removing, SameCall
    <2>4. QED
      BY <1>7, <1>14, <2>2, <2>3 DEF Reconfig
  <1>15. CASE Reload(w)
    <2>1. c.pc = "reload" /\ zone' = zone /\ include' = include
      BY <1>15 DEF Reload, At
    <2>2. CASE c.phase = "delete" /\ ProviderReturns(w)
               /\ served' = [served EXCEPT ![z] = zone[z]]
      <3>1. SameCall(c, e) /\ e.pc = "vhost"
        BY <2>2, CallOfReturns
      <3>2. ~IsRoot(c) /\ c.dom \notin zone[z]
        BY <1>2, <1>4, <2>1, <2>2 DEF Works, Removing
      <3>3. served'[z] = zone[z]
        BY <1>3, <2>2 DEF TypeOK
      <3> HIDE DEF z
      <3>4. QED
        BY <1>4, <1>5, <2>1, <2>2, <3>1, <3>2, <3>3 DEF Works, Removing, SameCall, z
    <2>3. QED
      BY <1>6, <1>7, <1>15, <2>2 DEF Reload
  <1>16. CASE RemoveVhost(w)
    <2>1. /\ c.pc = "vhost" /\ UNCHANGED dns
          /\ SameCall(c, e) /\ e.pc = "row"
      BY <1>16, CallOfGoto DEF RemoveVhost, At
    <2>2. c.phase = "delete"
      BY <1>2, <2>1 DEF Fits
    <2>3. QED
      BY <1>2, <1>5, <2>1, <2>2 DEF Works, Removing, SameCall, dns
  <1>17. QED
    BY <1>8, <1>9, <1>10, <1>11, <1>12, <1>13, <1>14, <1>15, <1>16 DEF ProviderStep

\* named starts afresh with the files as they are.
LEMMA RestartWorks ==
  ASSUME TypeInv, RowInv, WorkInv, NamedRestart
  PROVE  WorkInv'
  <1> USE DEF TypeInv
  <1> SUFFICES ASSUME DnsEnabled, NEW w \in Workers
               PROVE  Works(calls[w], zone, include, served')
    BY DEF WorkInv, NamedRestart
  <1> DEFINE c == calls[w]
  <1>1. Works(c, zone, include, served) /\ Fits(c)
    BY DEF WorkInv, RowInv
  <1>2. CASE c.phase = "delete" /\ c.pc \in {"vhost", "row"}
    <2>1. c.dom \in Domains /\ ZoneOf(c) \in Domains
      BY <1>2, ZoneOfType DEF CallsTyped, DomKnown, Steps
    <2>2. /\ served'[ZoneOf(c)] \in {{}, zone[ZoneOf(c)]}
          /\ ZoneOf(c) \notin include => served'[ZoneOf(c)] = {}
      BY <2>1 DEF NamedRestart
    <2>3. ZoneOf(c) = IF IsRoot(c) THEN c.dom ELSE c.parent
      BY DEF ZoneOf
    <2>4. QED
      BY <1>1, <1>2, <2>2, <2>3 DEF Works, Removing
  <1>3. CASE ~(c.phase = "delete" /\ c.pc \in {"vhost", "row"})
    BY <1>1, <1>3 DEF Works, Removing
  <1>4. QED
    BY <1>2, <1>3

LEMMA WorkStep ==
  ASSUME OneRequest, TypeInv, RowInv, WorkInv, [Next]_vars
  PROVE  WorkInv'
  <1>1. CASE UNCHANGED vars
    BY <1>1 DEF vars, dns, WorkInv
  <1>2. CASE NamedRestart
    BY <1>2, RestartWorks
  <1>3. ASSUME NEW w \in Workers, Request(w) \/ Step(w) \/ Failure(w)
        PROVE  WorkInv'
    BY <1>3, RequestWorks, ProviderWorks
  <1>4. QED
    BY <1>1, <1>2, <1>3 DEF Next

LEMMA WorkInvariant == OneRequest => (Spec => []WorkInv)
  <1> SUFFICES ASSUME OneRequest PROVE Spec => []WorkInv
    OBVIOUS
  <1>1. Init => WorkInv
    BY NoCallFields, NothingDone DEF Init, WorkInv
  <1>2. TypeInv /\ RowInv /\ WorkInv /\ [Next]_vars => WorkInv'
    BY WorkStep
  <1>3. QED
    BY <1>1, <1>2, TypeInvariant, RowInvariant, PTL DEF Spec

\* With DNS, a SiteAdd that succeeds ends with the reload of its zone, and a
\* SiteDelete with the delete of its row.
LEMMA WhoSucceeds ==
  ASSUME OneRequest, DnsEnabled, TypeInv, RowInv, [Next]_vars, NEW w \in Workers,
         ~At(w, "done"), calls'[w].pc = "done", calls'[w].ok
  PROVE  /\ SameCall(calls[w], calls'[w])
         /\ \/ /\ calls[w].phase = "add" /\ calls[w].pc = "reload"
               /\ Reload(w)
               /\ served' = [served EXCEPT ![ZoneOf(calls[w])] = zone[ZoneOf(calls[w])]]
            \/ calls[w].phase = "delete" /\ DeleteRow(w) /\ Exists(calls[w].dom)
            \/ calls[w].phase = "edit"
  <1> DEFINE c == calls[w]
             e == calls'[w]
  <1> USE DEF TypeInv
  <1>1. Request(w) \/ Step(w) \/ Failure(w)
    <2>1. calls' # calls
      BY DEF At
    <2>2. \A v \in Workers : v = w
      BY DEF OneRequest
    <2>3. QED
      BY <2>1, <2>2 DEF Next, NamedRestart, vars
  <1>2. ~ProviderErrs(w) /\ ~Restore(w) /\ ~Finish(w, FALSE)
    BY CallOfErrs, CallOfRestore, CallOfFinish
  <1>3. ASSUME NEW s, Goto(w, s) PROVE s = "done"
    BY <1>3, CallOfGoto
  <1>4. ASSUME ProviderReturns(w) PROVE c.phase = "add" /\ SameCall(c, e)
    BY <1>4, CallOfReturns
  <1>5. ASSUME Finish(w, TRUE) PROVE SameCall(c, e)
    BY <1>5, CallOfFinish
  <1>6. Fits(c)
    BY DEF RowInv
  <1>7. ~Request(w)
    BY CallOfAdd, CallOfEdit, CallOfDelete DEF Request
  <1>8. ~Failure(w)
    BY <1>2, NoCallFields
       DEF Failure, ProviderFails, RndcTimesOut, VhostFails, DbFails, Crash, CallsTyped
  <1>9. CASE ProviderStep(w)
    <2>1. ~(WriteZone(w) \/ CheckZone(w) \/ RemoveZone(w) \/ WriteInclude(w))
      BY <1>2, <1>3 DEF WriteZone, CheckZone, RemoveZone, WriteInclude
    <2>2. ~LoadZone(w)
      BY <1>2, <1>4, CallOfLoad DEF Ensures
    <2>3. ~ListZones(w)
      BY CallOfList
    <2>4. ~Reconfig(w)
      BY <1>3, <1>4 DEF Reconfig, Ensures
    <2>5. Reload(w)
      BY <1>9, <2>1, <2>2, <2>3, <2>4 DEF ProviderStep
    <2>6. QED
      BY <1>2, <1>4, <2>5 DEF Reload, At
  <1>10. CASE Step(w) /\ ~ProviderStep(w)
    <2>1. ~(CheckLimit(w) \/ CheckEdit(w) \/ CheckDependents(w) \/ RemoveVhost(w))
      <3>1. FirstStep(c, "delete") # "done"
        BY DEF FirstStep
      <3>2. QED
        BY <1>2, <1>3, <3>1 DEF CheckLimit, CheckEdit, CheckDependents, RemoveVhost
    <2>2. ~(Compensate(w) \/ Return(w) \/ LookUp(w))
      BY <1>2, NoCallFields, CallOfLookUp DEF Compensate, Return, At
    <2>3. ~Upsert(w)
      <3>1. FirstStep(c, "add") # "done"
        BY DEF FirstStep
      <3>2. QED
        BY <1>3, <3>1 DEF Upsert
    <2>4. CASE SaveEdit(w)
      BY <1>5, <1>6, <2>4 DEF SaveEdit, At, Fits
    <2>5. CASE DeleteRow(w)
      BY <1>2, <1>5, <1>6, <2>5 DEF DeleteRow, At, Fits
    <2>6. QED
      BY <1>10, <2>1, <2>2, <2>3, <2>4, <2>5 DEF Step
  <1>11. QED
    BY <1>1, <1>7, <1>8, <1>9, <1>10

\* A SiteAdd that reports success has its row, and its record on disk and in named,
\* whatever earlier requests left half done: the address record is checked on disk
\* and loaded by the same call.
THEOREM AddsAreServed == OneRequest => (Spec => OkAddIsServed)
  <1> SUFFICES ASSUME OneRequest PROVE Spec => OkAddIsServed
    OBVIOUS
  <1>1. ASSUME TypeInv, RowInv, WorkInv, [Next]_vars, NEW w \in Workers,
               DnsEnabled, Succeeds(w, "add")
        PROVE  AddIsServed(calls[w])'
    <2> DEFINE c == calls[w]
               e == calls'[w]
               z == ZoneOf(c)
    <2>1. ~At(w, "done") /\ e.pc = "done" /\ e.ok /\ e.phase = "add"
      BY <1>1 DEF Succeeds, At
    <2>2. /\ SameCall(c, e) /\ c.phase = "add" /\ c.pc = "reload" /\ Reload(w)
          /\ served' = [served EXCEPT ![z] = zone[z]]
      BY <1>1, <2>1, WhoSucceeds DEF SameCall
    <2>3. /\ c.dom \in zone[z]
          /\ IsRoot(c) => z \in include
      BY <1>1, <2>2 DEF WorkInv, Works, Adding
    <2>4. sites[c.dom] = [owner |-> c.user, parent |-> c.parent]
      BY <1>1, <2>2 DEF RowInv, Knows, Written, ProviderSteps
    <2>5. z \in Domains
      BY <1>1, <2>2, ZoneOfType DEF TypeInv, Steps, ProviderSteps
    <2>6. /\ zone' = zone /\ include' = include /\ sites' = sites
          /\ served'[z] = zone[z]
      BY <1>1, <2>2, <2>5 DEF Reload, TypeInv, TypeOK
    <2>7. /\ e.dom = c.dom /\ e.user = c.user /\ e.parent = c.parent
          /\ ZoneOf(c) = IF c.parent = NoDomain THEN c.dom ELSE c.parent
          /\ (IsRoot(c) <=> c.parent = NoDomain)
      BY <2>2 DEF SameCall, ZoneOf, IsRoot
    <2> HIDE DEF c, z
    <2>8. QED
      BY <2>3, <2>4, <2>6, <2>7 DEF AddIsServed, ZoneOf, IsRoot, c, z
  <1>2. TypeInv /\ RowInv /\ WorkInv /\ [Next]_vars
        => [\A w \in Workers :
               DnsEnabled /\ Succeeds(w, "add") => AddIsServed(calls[w])']_vars
    BY <1>1
  <1>3. QED
    BY <1>2, TypeInvariant, RowInvariant, WorkInvariant, PTL DEF Spec, OkAddIsServed

\* A SiteDelete that reports success leaves no row and no name behind, on disk or in
\* named, whatever earlier requests left half done; only a subdomain whose zone file
\* is gone may still be answered for.
THEOREM DeletesLeaveNothing == OneRequest => (Spec => OkDeleteLeavesNothing)
  <1> SUFFICES ASSUME OneRequest PROVE Spec => OkDeleteLeavesNothing
    OBVIOUS
  <1>1. ASSUME TypeInv, RowInv, WorkInv, [Next]_vars, NEW w \in Workers,
               DnsEnabled, Succeeds(w, "delete")
        PROVE  NothingLeft(calls[w])'
    <2> DEFINE c == calls[w]
               e == calls'[w]
    <2>1. ~At(w, "done") /\ e.pc = "done" /\ e.ok /\ e.phase = "delete"
      BY <1>1 DEF Succeeds, At
    <2>2. SameCall(c, e) /\ c.phase = "delete" /\ DeleteRow(w) /\ Exists(c.dom)
      BY <1>1, <2>1, WhoSucceeds DEF SameCall
    <2>3. c.pc = "row" /\ UNCHANGED dns /\ sites' = [sites EXCEPT ![c.dom] = NoSite]
      BY <2>2 DEF DeleteRow, At
    <2>4. Removing(c, zone, include, served)
      BY <1>1, <2>2 DEF WorkInv, Works
    <2>5. sites'[c.dom].owner = NoUser
      <3>1. c.dom \in Domains
        BY <1>1, <2>3 DEF TypeInv, CallsTyped, DomKnown, Steps
      <3>2. QED
        BY <1>1, <2>3, <3>1 DEF TypeInv, TypeOK, NoSite
    <2>6. /\ e.dom = c.dom /\ e.parent = c.parent
          /\ (IsRoot(c) <=> c.parent = NoDomain)
      BY <2>2 DEF SameCall, IsRoot
    <2> HIDE DEF c
    <2>7. QED
      BY <2>3, <2>4, <2>5, <2>6 DEF NothingLeft, Removing, ZoneOf, IsRoot, Exists, dns, c
  <1>2. TypeInv /\ RowInv /\ WorkInv /\ [Next]_vars
        => [\A w \in Workers :
               DnsEnabled /\ Succeeds(w, "delete") => NothingLeft(calls[w])']_vars
    BY <1>1
  <1>3. QED
    BY <1>2, TypeInvariant, RowInvariant, WorkInvariant, PTL
       DEF Spec, OkDeleteLeavesNothing

-----------------------------------------------------------------------------
(* The tree of sites *)

\* A name that is asked for as a root is never asked for as a subdomain.
NamesKeepKind ==
    \A q, r \in AddRequests :
        q.dom = r.dom => (q.parent = NoDomain <=> r.parent = NoDomain)

\* parent is where d was asked for.
Placed(d, parent) ==
    /\ parent # NoDomain => parent = Up[d]
    /\ \E r \in AddRequests : r.dom = d /\ (r.parent = NoDomain <=> parent = NoDomain)

\* Each site is where it was asked for, and a subdomain's parent is a root.
Rooted(ss) ==
    \A d \in Domains : Has(ss, d) =>
        /\ Placed(d, ss[d].parent)
        /\ ss[d].parent # NoDomain =>
              Has(ss, ss[d].parent) /\ ss[ss[d].parent].parent = NoDomain

\* What the call c is about to remove has nothing below it; what it adds has its
\* place and an owner.
Leaves(c, ss) ==
    /\ c.phase = "add" /\ c.created /\ c.pc \in Written => Below(ss, c.dom) = {}
    /\ c.phase = "delete" /\ c.pc \in Steps \ {"dependents"} => Below(ss, c.dom) = {}
    /\ c.phase = "add" /\ c.pc \in Steps => Placed(c.dom, c.parent)
    /\ c.pc \in {"echeck", "esave"} \/ (c.phase = "add" /\ c.pc \in Steps)
          => c.user \in Users

TreeInv == Rooted(sites) /\ \A w \in Workers : Leaves(calls[w], sites)

LEMMA TreeOfOne ==
  ASSUME OneRequest, NEW w \in Workers, Rooted(sites'), Leaves(calls'[w], sites')
  PROVE  TreeInv'
  <1>1. \A v \in Workers : v = w
    BY DEF OneRequest
  <1>2. QED
    BY <1>1 DEF TreeInv

\* Where nothing is to be removed and nothing to be written.
LEMMA NothingToLeave ==
  ASSUME NEW c, NEW ss,
         c.pc \in {"idle", "done"} \/ (c.phase = "restore" /\ c.pc = "zload")
  PROVE  Leaves(c, ss)
  BY DEF Leaves, Steps, ProviderSteps, Written

\* A name has one place.
LEMMA OnePlace ==
  ASSUME NamesKeepKind, NEW d, NEW p, NEW q, Placed(d, p), Placed(d, q)
  PROVE  p = q
  BY DEF NamesKeepKind, Placed

\* Nothing is below a subdomain or a name that is no site.
LEMMA NothingBelow ==
  ASSUME Rooted(sites), NEW d \in Domains,
         ~Has(sites, d) \/ sites[d].parent # NoDomain
  PROVE  Below(sites, d) = {}
  <1>1. d # NoDomain
    BY SitesAssumption
  <1>2. QED
    BY <1>1 DEF Rooted, Below

LEMMA RemovedRooted ==
  ASSUME TypeOK, Rooted(sites), NEW d \in Domains, Below(sites, d) = {},
         sites' = [sites EXCEPT ![d] = NoSite]
  PROVE  Rooted(sites')
  <1>1. /\ ~Has(sites', d)
        /\ \A e \in Domains : e # d => sites'[e] = sites[e]
    BY DEF TypeOK, NoSite, Has
  <1>2. \A e \in Domains : Has(sites, e) => sites[e].parent # d
    BY DEF Below
  <1>3. \A e \in Domains : sites[e].parent \in Domains \cup {NoDomain}
    BY DEF TypeOK, Site
  <1>4. QED
    BY <1>1, <1>2, <1>3 DEF Rooted, Has

\* A row that is written in its place; a row that was there keeps it.
LEMMA WrittenRooted ==
  ASSUME NamesKeepKind, TypeOK, Rooted(sites), NEW d \in Domains, NEW u \in Users,
         NEW p \in Domains \cup {NoDomain}, Placed(d, p),
         p # NoDomain => Has(sites, p) /\ sites[p].parent = NoDomain,
         sites' = [sites EXCEPT ![d] = [owner |-> u, parent |-> p]]
  PROVE  /\ Rooted(sites')
         /\ ~Has(sites, d) => Below(sites', d) = {}
  <1>1. /\ sites'[d].owner = u /\ sites'[d].parent = p
        /\ \A e \in Domains : e # d => sites'[e] = sites[e]
    BY DEF TypeOK
  <1>2. u # NoUser /\ d # NoDomain /\ p # d
    BY SitesAssumption DEF Placed
  <1>3. Has(sites, d) => sites[d].parent = p
    BY OnePlace DEF Rooted
  <1>4. \A e \in Domains : sites[e].parent \in Domains \cup {NoDomain}
    BY DEF TypeOK, Site
  <1>5. ASSUME NEW e \in Domains, Has(sites', e)
        PROVE  /\ Placed(e, sites'[e].parent)
               /\ sites'[e].parent # NoDomain =>
                     /\ Has(sites', sites'[e].parent)
                     /\ sites'[sites'[e].parent].parent = NoDomain
    <2>1. CASE e = d
      BY <1>1, <1>2, <2>1 DEF Has
    <2>2. CASE e # d
      <3>1. sites'[e] = sites[e] /\ Has(sites, e)
        BY <1>1, <1>5, <2>2 DEF Has
      <3>2. CASE sites[e].parent = d
        BY <1>1, <1>2, <1>3, <3>1, <3>2 DEF Rooted, Has
      <3>3. CASE sites[e].parent # d
        BY <1>1, <1>4, <3>1, <3>3 DEF Rooted, Has
      <3>4. QED
        BY <3>2, <3>3
    <2>3. QED
      BY <2>1, <2>2
  <1>6. ASSUME ~Has(sites, d) PROVE Below(sites', d) = {}
    <2>1. Below(sites, d) = {}
      BY <1>6, NothingBelow
    <2>2. QED
      BY <1>1, <1>2, <2>1 DEF Below, Has
  <1>7. QED
    BY <1>5, <1>6 DEF Rooted

LEMMA EditUser ==
  ASSUME TypeInv, NEW w \in Workers, SiteEdit(w)
  PROVE  calls'[w].user \in Users
  <1> DEFINE Read(r) ==
               [NoCall EXCEPT
                  !.pc = "echeck", !.phase = "edit", !.dom = r.dom, !.set = r.set,
                  !.user = IF r.user = NoUser THEN sites[r.dom].owner ELSE r.user,
                  !.old = sites[r.dom].parent,
                  !.parent = IF r.set THEN r.parent ELSE sites[r.dom].parent]
  <1>1. PICK r \in EditRequests : Exists(r.dom) /\ calls' = [calls EXCEPT ![w] = Read(r)]
    BY DEF SiteEdit
  <1>2. r.dom \in Domains /\ r.user \in Users \cup {NoUser}
    BY SitesAssumption
  <1>3. sites[r.dom].owner \in Users
    BY <1>1, <1>2 DEF TypeInv, TypeOK, Site, Exists
  <1>4. Read(r).user = IF r.user = NoUser THEN sites[r.dom].owner ELSE r.user
    BY DEF NoCall
  <1> HIDE DEF Read
  <1>5. QED
    BY <1>1, <1>2, <1>3, <1>4 DEF TypeInv, CallsTyped

LEMMA RequestTree ==
  ASSUME OneRequest, DnsEnabled, TypeInv, TreeInv, NEW w \in Workers, Request(w)
  PROVE  TreeInv'
  <1> DEFINE e == calls'[w]
  <1> USE DEF TypeInv
  <1>1. sites' = sites /\ Rooted(sites)
    BY DEF Request, SiteAdd, SiteEdit, SiteDelete, TreeInv
  <1>2. SUFFICES Leaves(e, sites)
    BY <1>1, TreeOfOne
  <1>3. CASE SiteAdd(w)
    <2>1. CASE e.pc = "limit"
      <3>1. PICK r \in AddRequests :
               /\ e.phase = "add" /\ e.user = r.user /\ e.dom = r.dom
               /\ e.parent = r.parent /\ ~e.created
               /\ e.pc = IF ValidParent(r.user, r.dom, r.parent)
                         THEN "limit" ELSE "done"
        BY <1>3, CallOfAdd
      <3>2. ValidParent(r.user, r.dom, r.parent) /\ r.user \in Users
        BY <2>1, <3>1, SitesAssumption
      <3>3. Placed(e.dom, e.parent)
        BY <3>1, <3>2 DEF Placed, ValidParent
      <3>4. QED
        BY <2>1, <3>1, <3>2, <3>3 DEF Leaves, Written, ProviderSteps
    <2>2. QED
      BY <1>3, <2>1, CallOfAdd, NothingToLeave
  <1>4. CASE SiteEdit(w)
    BY <1>4, CallOfEdit, EditUser DEF Leaves, Written, ProviderSteps
  <1>5. CASE SiteDelete(w)
    <2>1. /\ e.phase = "delete" /\ e.dom \in Domains
          /\ e.parent = sites[e.dom].parent
          /\ e.pc = IF IsRoot(e) THEN "dependents" ELSE "zload"
      BY <1>5, CallOfDelete
    <2>2. e.pc # "dependents" => Below(sites, e.dom) = {}
      BY <1>1, <2>1, NothingBelow DEF IsRoot
    <2>3. QED
      BY <2>1, <2>2 DEF Leaves
  <1>6. QED
    BY <1>3, <1>4, <1>5 DEF Request

\* What a step of the provider, or its end, makes of the call.
LEMMA ProviderGoesOn ==
  ASSUME CallsTyped, NEW w \in Workers,
         ProviderStep(w) \/ ProviderFails(w) \/ RndcTimesOut(w)
  PROVE  /\ calls[w].pc \in ProviderSteps /\ sites' = sites
         /\ SameCall(calls[w], calls'[w])
         /\ \/ calls'[w].pc = "done"
            \/ calls'[w].pc = "vhost" /\ calls[w].phase = "delete"
            \/ calls'[w].pc \in Written /\ calls'[w].created = calls[w].created
  <1> DEFINE c == calls[w]
             e == calls'[w]
  <1>1. c.pc \in ProviderSteps /\ sites' = sites
    BY DEF ProviderStep, LoadZone, WriteZone, CheckZone, RemoveZone, ListZones,
           WriteInclude, Reconfig, Reload, ProviderFails, RndcTimesOut, At,
           ProviderSteps, dns
  <1>2. ASSUME ProviderErrs(w) \/ ProviderReturns(w)
        PROVE  /\ SameCall(c, e)
               /\ \/ e.pc = "done"
                  \/ e.pc = "vhost" /\ c.phase = "delete"
                  \/ e.pc \in Written /\ e.created = c.created
    BY <1>2, CallOfErrs, CallOfReturns DEF Written
  <1>3. ASSUME NEW s \in ProviderSteps, Goto(w, s)
        PROVE  SameCall(c, e) /\ e.pc \in Written /\ e.created = c.created
    BY <1>3, CallOfGoto DEF Written
  <1>4. CASE LoadZone(w)
    BY <1>1, <1>2, <1>4, CallOfLoad DEF Written, ProviderSteps
  <1>5. CASE ListZones(w)
    BY <1>1, <1>5, CallOfList DEF Written, ProviderSteps
  <1>6. CASE \/ WriteZone(w) \/ CheckZone(w) \/ RemoveZone(w) \/ WriteInclude(w)
             \/ Reconfig(w) \/ Reload(w) \/ ProviderFails(w) \/ RndcTimesOut(w)
    BY <1>1, <1>2, <1>3, <1>6
       DEF WriteZone, CheckZone, RemoveZone, WriteInclude, Reconfig, Reload,
           ProviderFails, RndcTimesOut, ProviderSteps
  <1>7. QED
    BY <1>4, <1>5, <1>6 DEF ProviderStep

LEMMA ProviderTree ==
  ASSUME OneRequest, TypeInv, TreeInv, NEW w \in Workers,
         ProviderStep(w) \/ ProviderFails(w) \/ RndcTimesOut(w)
  PROVE  TreeInv'
  <1>1. /\ calls[w].pc \in ProviderSteps /\ sites' = sites
        /\ SameCall(calls[w], calls'[w])
        /\ \/ calls'[w].pc = "done"
           \/ calls'[w].pc = "vhost" /\ calls[w].phase = "delete"
           \/ calls'[w].pc \in Written /\ calls'[w].created = calls[w].created
    BY ProviderGoesOn DEF TypeInv
  <1>2. Leaves(calls'[w], sites)
    BY <1>1 DEF TreeInv, Leaves, SameCall, Steps, ProviderSteps, Written
  <1>3. QED
    BY <1>1, <1>2, TreeOfOne DEF TreeInv

LEMMA StepTree ==
  ASSUME OneRequest, DnsEnabled, NamesKeepKind, TypeInv, RowInv, TreeInv,
         NEW w \in Workers, Step(w)
  PROVE  TreeInv'
  <1> DEFINE c == calls[w]
             e == calls'[w]
  <1> USE DEF TypeInv
  <1>0. /\ Rooted(sites) /\ Leaves(c, sites) /\ Fits(c) /\ Knows(c, sites)
        /\ c \in Call
    BY DEF TreeInv, RowInv, CallsTyped
  <1>1. ASSUME e.pc \in {"idle", "done"}, Rooted(sites') PROVE TreeInv'
    BY <1>1, NothingToLeave, TreeOfOne
  <1>2. CASE \/ CheckLimit(w) \/ CheckEdit(w) \/ LookUp(w) \/ RemoveVhost(w)
             \/ CheckDependents(w)
    <2>1. sites' = sites
      BY <1>2 DEF CheckLimit, CheckEdit, LookUp, RemoveVhost, CheckDependents
    <2>2. CASE e.pc = "done"
      BY <1>0, <1>1, <2>1, <2>2
    <2>3. CASE CheckLimit(w) /\ e.pc # "done"
      <3>1. c.pc = "limit" /\ SameCall(c, e) /\ e.pc = "lookup"
        BY <2>3, CallOfGoto, CallOfFinish DEF CheckLimit, At
      <3>2. Leaves(e, sites)
        BY <1>0, <3>1 DEF Leaves, SameCall, Steps, ProviderSteps, Written
      <3>3. QED
        BY <1>0, <2>1, <3>2, TreeOfOne
    <2>4. CASE CheckEdit(w) /\ e.pc # "done"
      <3>1. c.pc = "echeck" /\ SameCall(c, e) /\ e.pc = "esave"
        BY <2>4, CallOfGoto, CallOfFinish DEF CheckEdit, At
      <3>2. c.phase = "edit"
        BY <1>0, <3>1 DEF Fits
      <3>3. Leaves(e, sites)
        BY <1>0, <3>1, <3>2 DEF Leaves, SameCall, Steps, ProviderSteps, Written
      <3>4. QED
        BY <1>0, <2>1, <3>3, TreeOfOne
    <2>5. CASE LookUp(w)
      <3>1. c.pc = "lookup" /\ SameCall(c, e) /\ e.pc = "upsert"
        BY <2>5, CallOfLookUp
      <3>2. Leaves(e, sites)
        BY <1>0, <3>1 DEF Leaves, SameCall, Steps, ProviderSteps, Written
      <3>3. QED
        BY <1>0, <2>1, <3>2, TreeOfOne
    <2>6. CASE RemoveVhost(w)
      <3>1. c.pc = "vhost" /\ SameCall(c, e) /\ e.pc = "row"
        BY <2>6, CallOfGoto DEF RemoveVhost, At
      <3>2. Leaves(e, sites)
        BY <1>0, <3>1 DEF Leaves, SameCall, Steps, ProviderSteps, Written
      <3>3. QED
        BY <1>0, <2>1, <3>2, TreeOfOne
    <2>7. CASE CheckDependents(w) /\ e.pc # "done"
      <3>1. /\ c.pc = "dependents" /\ SameCall(c, e) /\ Dependents(c.dom) = {}
            /\ e.pc = FirstStep(c, "delete")
        BY <2>7, CallOfGoto, CallOfFinish DEF CheckDependents, At
      <3>2. Below(sites, c.dom) = {} /\ e.pc \in {"zremove", "zload"}
        BY <3>1, OfRows DEF FirstStep
      <3>3. c.phase = "delete"
        BY <1>0, <3>1 DEF Fits
      <3>4. Leaves(e, sites)
        BY <3>1, <3>2, <3>3 DEF Leaves, SameCall
      <3>5. QED
        BY <1>0, <2>1, <3>4, TreeOfOne
    <2>8. QED
      BY <1>2, <2>2, <2>3, <2>4, <2>5, <2>6, <2>7
  <1>3. CASE Upsert(w)
    <2>1. /\ c.pc = "upsert" /\ SameCall(c, e) /\ e.pc = "zload"
          /\ e.created = c.created
          /\ sites' = [sites EXCEPT ![c.dom] = [owner |-> c.user, parent |-> c.parent]]
      <3>1. FirstStep(c, "add") = "zload"
        BY DEF FirstStep
      <3>2. QED
        BY <1>3, <3>1, CallOfGoto DEF Upsert, At
    <2>2. /\ c.phase = "add" /\ c.dom \in Domains /\ c.user \in Users
          /\ c.parent \in Domains \cup {NoDomain} /\ Placed(c.dom, c.parent)
      BY <1>0, <2>1 DEF Fits, Leaves, CallsTyped, DomKnown, Steps, Call
    <2>3. c.parent # NoDomain => Has(sites, c.parent) /\ sites[c.parent].parent = NoDomain
      BY <1>0, <2>1, <2>2, SitesAssumption DEF Knows, Parented, Has
    <2>4. c.created => ~Has(sites, c.dom)
      BY <1>0, <2>1 DEF Knows
    <2> HIDE DEF c, e
    <2>5. Rooted(sites') /\ (c.created => Below(sites', c.dom) = {})
      BY <1>0, <2>1, <2>2, <2>3, <2>4, WrittenRooted
    <2>6. Leaves(e, sites')
      BY <2>1, <2>2, <2>5 DEF Leaves, SameCall, Steps, ProviderSteps, Written
    <2>7. QED
      BY <2>5, <2>6, TreeOfOne DEF e
  <1>4. CASE Compensate(w)
    <2>1. c.pc = "compensate" /\ e.pc = "done"
      BY <1>4, CallOfFinish DEF Compensate, At
    <2>2. c.dom \in Domains /\ (c.created => Below(sites, c.dom) = {})
      BY <1>0, <2>1 DEF Fits, Leaves, Written, CallsTyped, DomKnown, Steps
    <2>3. Rooted(sites')
      BY <1>0, <1>4, <2>2, RemovedRooted DEF Compensate
    <2>4. QED
      BY <1>1, <2>1, <2>3
  <1>5. CASE SaveEdit(w)
    <2>1. /\ c.pc = "esave" /\ e.pc = "done"
          /\ sites' = [sites EXCEPT ![c.dom] = [owner |-> c.user, parent |-> c.parent]]
      BY <1>5, CallOfFinish DEF SaveEdit, At
    <2>2. c.dom \in Domains /\ c.user \in Users /\ c.parent \in Domains \cup {NoDomain}
      BY <1>0, <2>1 DEF Leaves, CallsTyped, DomKnown, Steps, Call
    <2>3. Has(sites, c.dom) /\ c.parent = sites[c.dom].parent
      BY <1>0, <2>1 DEF Knows
    <2>4. /\ Placed(c.dom, c.parent)
          /\ c.parent # NoDomain => Has(sites, c.parent) /\ sites[c.parent].parent = NoDomain
      BY <1>0, <2>2, <2>3 DEF Rooted
    <2> HIDE DEF c
    <2>5. Rooted(sites')
      BY <1>0, <2>1, <2>2, <2>4, WrittenRooted
    <2>6. QED
      BY <1>1, <2>1, <2>5
  <1>6. CASE DeleteRow(w)
    <2>1. c.pc = "row" /\ c.phase = "delete" /\ c.dom \in Domains
      BY <1>0, <1>6 DEF DeleteRow, At, Fits, CallsTyped, DomKnown, Steps
    <2>2. Exists(c.dom)
      BY <1>0, <2>1, OfRows DEF Knows, Steps
    <2>3. sites' = [sites EXCEPT ![c.dom] = NoSite] /\ e.pc = "done"
      BY <1>6, <2>2, CallOfFinish DEF DeleteRow
    <2>4. Below(sites, c.dom) = {}
      BY <1>0, <2>1 DEF Leaves, Steps
    <2>5. Rooted(sites')
      BY <1>0, <2>1, <2>3, <2>4, RemovedRooted
    <2>6. QED
      BY <1>1, <2>3, <2>5
  <1>7. CASE Return(w)
    <2>1. sites' = sites /\ e.pc = "idle"
      BY <1>7, NoCallFields DEF Return, CallsTyped
    <2>2. QED
      BY <1>0, <1>1, <2>1
  <1>8. QED
    BY <1>2, <1>3, <1>4, <1>5, <1>6, <1>7, ProviderTree DEF Step

LEMMA TreeStep ==
  ASSUME OneRequest, DnsEnabled, NamesKeepKind, TypeInv, RowInv, TreeInv, [Next]_vars
  PROVE  TreeInv'
  <1>1. CASE NamedRestart \/ UNCHANGED vars
    BY <1>1 DEF NamedRestart, vars, TreeInv
  <1>2. ASSUME NEW w \in Workers, VhostFails(w) \/ DbFails(w) \/ Crash(w)
        PROVE  TreeInv'
    <2>1. /\ sites' = sites
          /\ \/ calls'[w].pc \in {"idle", "done"}
             \/ calls'[w].phase = "restore" /\ calls'[w].pc = "zload"
      BY <1>2, CallOfFinish, CallOfRestore, NoCallFields
         DEF VhostFails, DbFails, Crash, TypeInv, CallsTyped
    <2>2. QED
      BY <2>1, NothingToLeave, TreeOfOne DEF TreeInv
  <1>3. ASSUME NEW w \in Workers, Request(w) \/ Step(w) \/ Failure(w)
        PROVE  TreeInv'
    BY <1>2, <1>3, RequestTree, StepTree, ProviderTree DEF Failure
  <1>4. QED
    BY <1>1, <1>3 DEF Next

\* One request at a time; DNS, without which SiteDelete does not look for what is
\* below a root; and no name that is asked for both as a root and as a subdomain:
\* SiteAdd writes over the row of a site it finds, without a look at its kind.
OrderlyNames == OneRequest /\ DnsEnabled /\ NamesKeepKind

LEMMA TreeInvariant == OrderlyNames => (Spec => []TreeInv)
  <1> SUFFICES ASSUME OrderlyNames PROVE Spec => []TreeInv
    OBVIOUS
  <1>1. Init => TreeInv
    BY NoCallFields, NothingToLeave DEF Init, TreeInv, Rooted, Has, NoSite
  <1>2. TypeInv /\ RowInv /\ TreeInv /\ [Next]_vars => TreeInv'
    BY TreeStep DEF OrderlyNames
  <1>3. Spec => []RowInv
    BY RowInvariant DEF OrderlyNames
  <1>4. QED
    BY <1>1, <1>2, <1>3, TypeInvariant, PTL DEF Spec

\* A subdomain site's parent exists and is a root site, however requests follow one
\* another and whichever steps fail: SiteAdd checks the parent, no edit moves a site,
\* and a root is deleted, or taken back by a failed SiteAdd, with nothing below it.
THEOREM ParentsStayRoots == OrderlyNames => (Spec => []ParentsAreRoots)
  <1> SUFFICES ASSUME OrderlyNames PROVE Spec => []ParentsAreRoots
    OBVIOUS
  <1>1. TreeInv => ParentsAreRoots
    BY DEF TreeInv, Rooted, ParentsAreRoots, Exists, Has
  <1>2. QED
    BY <1>1, TreeInvariant, PTL

-----------------------------------------------------------------------------
(* Rows, zone files, the include file and named, as long as nothing failed *)

\* The record of n is to be in the zone z.
Belongs(ss, n, z) ==
    Has(ss, n) /\ z = IF ss[n].parent = NoDomain THEN n ELSE ss[n].parent

\* An add that has its row and not yet its record, and a delete the other way round.
Early(c) == c.phase = "add" /\ c.pc \in {"zload", "zwrite"}

Late(c) ==
    c.phase = "delete" /\ c.pc \in {"zcheck", "list", "include", "reconfig", "reload",
                                    "vhost", "row"}

\* The zones zn have the records of the rows ss, but for that of the call c.
InZones(c, ss, zn) ==
    /\ \A z, n \in Domains :
          /\ n # c.dom \/ ~(Early(c) \/ Late(c)) => (n \in zn[z] <=> Belongs(ss, n, z))
          /\ Early(c) /\ n = c.dom /\ n \in zn[z] => Belongs(ss, n, z)
          /\ Late(c) => c.dom \notin zn[z]
    /\ c.pc = "zwrite" => c.buf = zn[ZoneOf(c)]
    /\ \A z \in Domains :
          zn[z] # {} => Valid(zn[z]) \/ (c.pc = "zcheck" /\ z = ZoneOf(c))

\* The include file lists the zones there are, but for that of c.
Listed(c, zn, inc) ==
    /\ \A z \in Domains :
          \/ IsRoot(c) /\ c.pc \in {"zcheck", "list", "include"} /\ z = ZoneOf(c)
          \/ z \in inc <=> zn[z] # {}
    /\ c.pc = "include" => c.list = {z \in Domains : zn[z] # {}}

\* named knows and answers what is on disk, but for the zone of c.
Loaded(c, zn, inc, ld, sv) ==
    \A z \in Domains :
        /\ (c.pc = "reconfig" /\ z = ZoneOf(c)) \/ (z \in ld <=> z \in inc)
        /\ \/ /\ c.pc \in {"zcheck", "list", "include", "reconfig", "reload"}
              /\ z = ZoneOf(c)
           \/ sv[z] = zn[z]

Agrees(c, ss, zn, inc, ld, sv) ==
    /\ c.pc # "compensate" /\ c.phase # "restore"
    /\ InZones(c, ss, zn)
    /\ Listed(c, zn, inc)
    /\ Loaded(c, zn, inc, ld, sv)

AgreeInv ==
    ~faulted => \A w \in Workers :
                    Agrees(calls[w], sites, zone, include, loaded, served)

LEMMA AgreeOfOne ==
  ASSUME OneRequest, NEW w \in Workers,
         ~faulted' => Agrees(calls'[w], sites', zone', include', loaded', served')
  PROVE  AgreeInv'
  <1>1. \A v \in Workers : v = w
    BY DEF OneRequest
  <1>2. QED
    BY <1>1 DEF AgreeInv

\* Before and after a request's work on DNS nothing is left open.
Quiet(c) == c.pc \in {"idle", "done", "limit", "lookup", "upsert", "echeck", "esave",
                      "dependents", "zremove"}

Settled(ss, zn, inc, ld, sv) ==
    \A z \in Domains :
        /\ \A n \in Domains : n \in zn[z] <=> Belongs(ss, n, z)
        /\ zn[z] # {} => Valid(zn[z])
        /\ z \in inc <=> zn[z] # {}
        /\ z \in ld <=> z \in inc
        /\ sv[z] = zn[z]

LEMMA QuietAgrees ==
  ASSUME NEW c, Quiet(c), NEW ss, NEW zn, NEW inc, NEW ld, NEW sv
  PROVE  Agrees(c, ss, zn, inc, ld, sv)
           <=> c.phase # "restore" /\ Settled(ss, zn, inc, ld, sv)
  <1>1. InZones(c, ss, zn)
          <=> \A z \in Domains : /\ \A n \in Domains : n \in zn[z] <=> Belongs(ss, n, z)
                                 /\ zn[z] # {} => Valid(zn[z])
    BY DEF Quiet, InZones, Early, Late
  <1>2. Listed(c, zn, inc) <=> \A z \in Domains : z \in inc <=> zn[z] # {}
    BY DEF Quiet, Listed
  <1>3. Loaded(c, zn, inc, ld, sv)
          <=> \A z \in Domains : (z \in ld <=> z \in inc) /\ sv[z] = zn[z]
    BY DEF Quiet, Loaded
  <1>4. QED
    BY <1>1, <1>2, <1>3 DEF Agrees, Settled, Quiet

\* A delete of a subdomain starts its work with nothing left open.
LEMMA DeleteStartsAgreed ==
  ASSUME NEW c, c.phase = "delete", c.pc = "zload",
         NEW ss, NEW zn, NEW inc, NEW ld, NEW sv, Settled(ss, zn, inc, ld, sv)
  PROVE  Agrees(c, ss, zn, inc, ld, sv)
  BY DEF Agrees, Settled, InZones, Listed, Loaded, Early, Late

LEMMA RequestAgrees ==
  ASSUME OneRequest, DnsEnabled, TypeInv, AgreeInv, NEW w \in Workers, Request(w)
  PROVE  AgreeInv'
  <1> DEFINE c == calls[w]
             e == calls'[w]
  <1> USE DEF TypeInv
  <1>1. /\ UNCHANGED <<sites, dns, faulted>>
        /\ c.pc = "idle"
        /\ e.phase \in {"add", "edit", "delete"}
        /\ \/ e.pc \in {"limit", "done", "echeck", "dependents"}
           \/ e.pc = "zload" /\ e.phase = "delete"
    BY CallOfAdd, CallOfEdit, CallOfDelete DEF Request, SiteAdd, SiteEdit, SiteDelete
  <1>2. SUFFICES ASSUME ~faulted
                 PROVE  Agrees(e, sites, zone, include, loaded, served)
    BY <1>1, AgreeOfOne DEF dns
  <1>3. Settled(sites, zone, include, loaded, served)
    BY <1>1, <1>2, QuietAgrees DEF AgreeInv, Quiet
  <1>4. QED
    BY <1>1, <1>3, QuietAgrees, DeleteStartsAgreed DEF Quiet

\* A site's record is to be in one zone.
LEMMA OneZone ==
  ASSUME NEW c, Has(sites, c.dom), c.parent = sites[c.dom].parent, NEW z
  PROVE  Belongs(sites, c.dom, z) <=> z = ZoneOf(c)
  BY DEF Belongs, ZoneOf, IsRoot

\* The zone of a subdomain has its parent's record while the subdomain is worked on.
LEMMA ParentsZone ==
  ASSUME Rooted(sites), NEW c, c.dom \in Domains, Has(sites, c.dom),
         c.parent = sites[c.dom].parent, ~IsRoot(c),
         NEW zn, InZones(c, sites, zn), c.parent \in Domains
  PROVE  c.parent \in zn[ZoneOf(c)] /\ c.parent # c.dom
  <1>1. /\ Placed(c.dom, c.parent) /\ c.parent # NoDomain
        /\ Has(sites, c.parent) /\ sites[c.parent].parent = NoDomain
        /\ ZoneOf(c) = c.parent
    BY DEF Rooted, IsRoot, ZoneOf
  <1>2. c.parent # c.dom
    BY <1>1, SitesAssumption DEF Placed
  <1>3. Belongs(sites, c.parent, c.parent)
    BY <1>1 DEF Belongs
  <1>4. QED
    BY <1>1, <1>2, <1>3 DEF InZones

\* What the call of a provider step knows.
LEMMA ProviderContext ==
  ASSUME TypeInv, RowInv, TreeInv, AgreeInv, ~faulted, NEW w \in Workers,
         calls[w].pc \in ProviderSteps
  PROVE  LET c == calls[w] IN
         /\ c.phase \in {"add", "delete"}
         /\ c.dom \in Domains /\ ZoneOf(c) \in Domains
         /\ Has(sites, c.dom) /\ c.parent = sites[c.dom].parent
         /\ Agrees(c, sites, zone, include, loaded, served)
         /\ ~IsRoot(c) => /\ c.parent \in Domains /\ c.parent # c.dom
                          /\ c.parent \in zone[ZoneOf(c)]
  <1> DEFINE c == calls[w]
  <1>1. Agrees(c, sites, zone, include, loaded, served)
    BY DEF AgreeInv
  <1>2. c.pc \in Steps /\ c \in Call /\ c.dom \in Domains /\ ZoneOf(c) \in Domains
    BY ZoneOfType DEF TypeInv, CallsTyped, DomKnown, Steps
  <1>3. c.phase \in {"add", "delete"}
    BY <1>1, <1>2 DEF RowInv, Fits, Agrees, Call
  <1>4. Has(sites, c.dom) /\ c.parent = sites[c.dom].parent
    <2>1. CASE c.phase = "add"
      <3>1. sites[c.dom] = [owner |-> c.user, parent |-> c.parent]
        BY <2>1 DEF RowInv, Knows, Written
      <3>2. c.user \in Users
        BY <1>2, <2>1 DEF TreeInv, Leaves
      <3> HIDE DEF c
      <3>3. QED
        BY <3>1, <3>2, SitesAssumption DEF Has
    <2>2. QED
      BY <1>2, <1>3, <2>1 DEF RowInv, Knows
  <1>5. ~IsRoot(c) => c.parent \in Domains
    BY <1>2 DEF IsRoot, Call
  <1> HIDE DEF c
  <1>6. ~IsRoot(c) => c.parent # c.dom /\ c.parent \in zone[ZoneOf(c)]
    BY <1>1, <1>2, <1>4, <1>5, ParentsZone DEF TreeInv, Agrees
  <1>7. QED
    BY <1>1, <1>2, <1>3, <1>4, <1>5, <1>6 DEF c

AllInv == TypeInv /\ RowInv /\ WorkInv /\ TreeInv /\ AgreeInv

LEMMA ZoneOfSame ==
  ASSUME NEW c, NEW d, SameCall(c, d)
  PROVE  ZoneOf(d) = ZoneOf(c) /\ (IsRoot(d) <=> IsRoot(c))
  BY DEF SameCall, ZoneOf, IsRoot

LEMMA LoadAgrees ==
  ASSUME OneRequest, AllInv, NEW w \in Workers, LoadZone(w)
  PROVE  AgreeInv'
  <1> DEFINE c == calls[w]
             e == calls'[w]
  <1>1. SUFFICES ASSUME ~faulted'
                 PROVE  Agrees(e, sites', zone', include', loaded', served')
    BY AgreeOfOne
  <1>2. c.pc = "zload" /\ UNCHANGED <<sites, zone, include, loaded, served, faulted>>
    BY DEF LoadZone, At, dns
  <1>3. /\ Agrees(c, sites, zone, include, loaded, served)
        /\ c.phase \in {"add", "delete"}
        /\ ~IsRoot(c) => zone[ZoneOf(c)] # {}
    BY <1>1, <1>2, ProviderContext DEF AllInv, ProviderSteps
  <1>4. SameCall(c, e) /\ e.pc = "zwrite" /\ e.buf = zone[ZoneOf(c)]
    BY <1>3, CallOfLoad DEF AllInv, TypeInv
  <1>5. ZoneOf(e) = ZoneOf(c) /\ e.dom = c.dom /\ e.phase = c.phase
    BY <1>4, ZoneOfSame DEF SameCall
  <1> HIDE DEF c, e
  <1>6. InZones(e, sites, zone)
    BY <1>2, <1>3, <1>4, <1>5 DEF Agrees, InZones, Early, Late
  <1>7. Listed(e, zone, include) /\ Loaded(e, zone, include, loaded, served)
    BY <1>2, <1>3, <1>4, <1>5 DEF Agrees, Listed, Loaded
  <1>8. QED
    BY <1>2, <1>3, <1>4, <1>5, <1>6, <1>7 DEF Agrees

LEMMA WriteAgrees ==
  ASSUME OneRequest, DnsEnabled, AllInv, NEW w \in Workers, WriteZone(w)
  PROVE  AgreeInv'
  <1> DEFINE c == calls[w]
             e == calls'[w]
             z == ZoneOf(c)
  <1>1. SUFFICES ASSUME ~faulted'
                 PROVE  Agrees(e, sites', zone', include', loaded', served')
    BY AgreeOfOne
  <1>2. /\ c.pc = "zwrite" /\ UNCHANGED <<sites, include, loaded, served, faulted>>
        /\ zone' = [zone EXCEPT ![z] = Records(c)]
        /\ SameCall(c, e) /\ e.pc = "zcheck"
    BY CallOfGoto DEF WriteZone, At, AllInv, TypeInv
  <1>3. /\ c.phase \in {"add", "delete"}
        /\ c.dom \in Domains /\ z \in Domains
        /\ Has(sites, c.dom) /\ c.parent = sites[c.dom].parent
        /\ Agrees(c, sites, zone, include, loaded, served)
        /\ ~IsRoot(c) => c.parent # c.dom /\ c.parent \in zone[z]
    BY <1>1, <1>2, ProviderContext DEF AllInv, ProviderSteps
  <1>4. \A y : Belongs(sites, c.dom, y) <=> y = z
    BY <1>3, OneZone
  <1>5. c.phase = "delete" => ~IsRoot(c)
    BY <1>2 DEF AllInv, WorkInv, Works, Removing
  <1>6. /\ ZoneOf(e) = z /\ (IsRoot(e) <=> IsRoot(c)) /\ e.dom = c.dom
        /\ e.phase = c.phase
    BY <1>2, ZoneOfSame DEF SameCall
  <1>7. /\ zone'[z] = IF c.phase = "add" THEN zone[z] \cup {c.dom} ELSE zone[z] \ {c.dom}
        /\ \A y \in Domains : y # z => zone'[y] = zone[y]
    <2>1. Records(c) = IF c.phase = "add" THEN zone[z] \cup {c.dom} ELSE zone[z] \ {c.dom}
      BY <1>2, <1>3 DEF Records, Ensures, Agrees, InZones
    <2>2. QED
      BY <1>2, <1>3, <2>1 DEF AllInv, TypeInv, TypeOK
  <1> HIDE DEF c, e, z
  <1>8. InZones(e, sites, zone')
    <2>1. ASSUME NEW y \in Domains, NEW n \in Domains, n # c.dom
          PROVE  n \in zone'[y] <=> Belongs(sites, n, y)
      <3>1. n \in zone[y] <=> Belongs(sites, n, y)
        BY <1>3, <2>1 DEF Agrees, InZones
      <3>2. QED
        BY <1>7, <2>1, <3>1
    <2>2. ASSUME NEW y \in Domains, c.phase = "add"
          PROVE  c.dom \in zone'[y] <=> Belongs(sites, c.dom, y)
      <3>1. c.dom \in zone[y] => Belongs(sites, c.dom, y)
        BY <1>2, <1>3, <2>2 DEF Agrees, InZones, Early
      <3>2. QED
        BY <1>4, <1>7, <2>2, <3>1
    <2>3. ASSUME NEW y \in Domains, c.phase = "delete"
          PROVE  c.dom \notin zone'[y]
      <3>1. c.dom \in zone[y] <=> Belongs(sites, c.dom, y)
        BY <1>2, <1>3, <2>3 DEF Agrees, InZones, Early, Late
      <3>2. QED
        BY <1>4, <1>7, <2>3, <3>1
    <2>4. \A y \in Domains : y # z /\ zone'[y] # {} => Valid(zone'[y])
      BY <1>2, <1>3, <1>7 DEF Agrees, InZones
    <2>5. QED
      BY <1>2, <1>3, <1>6, <2>1, <2>2, <2>3, <2>4 DEF InZones, Early, Late
  <1>9. Listed(e, zone', include)
    <2>1. \A y \in Domains : y \in include <=> zone[y] # {}
      BY <1>2, <1>3 DEF Agrees, Listed
    <2>2. ~IsRoot(c) => zone[z] # {} /\ zone'[z] # {}
      BY <1>3, <1>7
    <2>3. QED
      BY <1>2, <1>6, <1>7, <2>1, <2>2 DEF Listed
  <1>10. Loaded(e, zone', include, loaded, served)
    BY <1>2, <1>3, <1>6, <1>7 DEF Agrees, Loaded
  <1>11. QED
    BY <1>2, <1>3, <1>6, <1>8, <1>9, <1>10 DEF Agrees

LEMMA CheckAgrees ==
  ASSUME OneRequest, AllInv, NEW w \in Workers, CheckZone(w)
  PROVE  AgreeInv'
  <1> DEFINE c == calls[w]
             e == calls'[w]
             z == ZoneOf(c)
  <1>1. SUFFICES ASSUME ~faulted'
                 PROVE  Agrees(e, sites', zone', include', loaded', served')
    BY AgreeOfOne
  <1>2. /\ c.pc = "zcheck" /\ UNCHANGED <<sites, zone, include, loaded, served, faulted>>
        /\ Valid(zone[z])
        /\ SameCall(c, e) /\ e.pc = IF IsRoot(c) THEN "list" ELSE "reload"
    BY <1>1, CallOfGoto DEF CheckZone, At, AllInv, TypeInv, dns
  <1>3. /\ Agrees(c, sites, zone, include, loaded, served)
        /\ c.phase \in {"add", "delete"}
    BY <1>1, <1>2, ProviderContext DEF AllInv, ProviderSteps
  <1>4. /\ ZoneOf(e) = z /\ (IsRoot(e) <=> IsRoot(c)) /\ e.dom = c.dom
        /\ e.phase = c.phase
    BY <1>2, ZoneOfSame DEF SameCall
  <1> HIDE DEF c, e, z
  <1>5. InZones(e, sites, zone)
    BY <1>2, <1>3, <1>4 DEF Agrees, InZones, Early, Late, z
  <1>6. Listed(e, zone, include)
    BY <1>2, <1>3, <1>4 DEF Agrees, Listed, z
  <1>7. Loaded(e, zone, include, loaded, served)
    BY <1>2, <1>3, <1>4 DEF Agrees, Loaded, z
  <1>8. QED
    BY <1>2, <1>3, <1>4, <1>5, <1>6, <1>7 DEF Agrees

LEMMA RemoveAgrees ==
  ASSUME OneRequest, AllInv, NEW w \in Workers, RemoveZone(w)
  PROVE  AgreeInv'
  <1> DEFINE c == calls[w]
             e == calls'[w]
  <1>1. SUFFICES ASSUME ~faulted'
                 PROVE  Agrees(e, sites', zone', include', loaded', served')
    BY AgreeOfOne
  <1>2. /\ c.pc = "zremove" /\ UNCHANGED <<sites, include, loaded, served, faulted>>
        /\ zone' = [zone EXCEPT ![c.dom] = {}]
        /\ SameCall(c, e) /\ e.pc = "list"
    BY CallOfGoto DEF RemoveZone, At, AllInv, TypeInv
  <1>3. /\ c.dom \in Domains /\ Has(sites, c.dom) /\ c.parent = sites[c.dom].parent
        /\ Agrees(c, sites, zone, include, loaded, served)
    BY <1>1, <1>2, ProviderContext DEF AllInv, ProviderSteps
  <1>4. c.phase = "delete" /\ IsRoot(c)
    BY <1>2 DEF AllInv, RowInv, Fits, RootSteps
  <1>5. Below(sites, c.dom) = {}
    BY <1>2, <1>4 DEF AllInv, TreeInv, Leaves, Steps, ProviderSteps
  <1>6. \A y : Belongs(sites, c.dom, y) <=> y = c.dom
    BY <1>3, <1>4, OneZone DEF ZoneOf
  <1>7. /\ ZoneOf(e) = c.dom /\ IsRoot(e) /\ e.dom = c.dom /\ e.phase = "delete"
    BY <1>2, <1>4, ZoneOfSame DEF SameCall, ZoneOf
  <1>8. zone'[c.dom] = {} /\ \A y \in Domains : y # c.dom => zone'[y] = zone[y]
    BY <1>2, <1>3 DEF AllInv, TypeInv, TypeOK
  <1> HIDE DEF c, e
  <1>9. InZones(e, sites, zone')
    <2>1. \A y, n \in Domains : n \in zone[y] <=> Belongs(sites, n, y)
      BY <1>2, <1>3, <1>4 DEF Agrees, InZones, Early, Late
    <2>2. ASSUME NEW n \in Domains, n # c.dom PROVE ~Belongs(sites, n, c.dom)
      BY <1>5, <2>2 DEF Belongs, Below
    <2>3. \A y \in Domains : c.dom \notin zone'[y]
      BY <1>3, <1>6, <1>8, <2>1
    <2>4. \A y \in Domains : zone'[y] # {} => Valid(zone'[y])
      BY <1>2, <1>3, <1>8 DEF Agrees, InZones
    <2>5. QED
      BY <1>2, <1>7, <1>8, <2>1, <2>2, <2>3, <2>4 DEF InZones, Early, Late
  <1>10. Listed(e, zone', include)
    BY <1>2, <1>3, <1>7, <1>8 DEF Agrees, Listed
  <1>11. Loaded(e, zone', include, loaded, served)
    BY <1>2, <1>3, <1>7, <1>8 DEF Agrees, Loaded
  <1>12. QED
    BY <1>2, <1>7, <1>9, <1>10, <1>11 DEF Agrees

LEMMA ListAgrees ==
  ASSUME OneRequest, AllInv, NEW w \in Workers, ListZones(w)
  PROVE  AgreeInv'
  <1> DEFINE c == calls[w]
             e == calls'[w]
  <1>1. SUFFICES ASSUME ~faulted'
                 PROVE  Agrees(e, sites', zone', include', loaded', served')
    BY AgreeOfOne
  <1>2. /\ c.pc = "list" /\ UNCHANGED <<sites, zone, include, loaded, served, faulted>>
        /\ SameCall(c, e) /\ e.pc = "include"
        /\ e.list = {z \in Domains : zone[z] # {}}
    BY CallOfList DEF ListZones, AllInv, TypeInv, dns
  <1>3. Agrees(c, sites, zone, include, loaded, served)
    BY <1>1, <1>2 DEF AllInv, AgreeInv
  <1>4. /\ ZoneOf(e) = ZoneOf(c) /\ (IsRoot(e) <=> IsRoot(c)) /\ e.dom = c.dom
        /\ e.phase = c.phase
    BY <1>2, ZoneOfSame DEF SameCall
  <1> HIDE DEF c, e
  <1>5. InZones(e, sites, zone)
    BY <1>2, <1>3, <1>4 DEF Agrees, InZones, Early, Late
  <1>6. Listed(e, zone, include)
    BY <1>2, <1>3, <1>4 DEF Agrees, Listed
  <1>7. Loaded(e, zone, include, loaded, served)
    BY <1>2, <1>3, <1>4 DEF Agrees, Loaded
  <1>8. QED
    BY <1>2, <1>3, <1>4, <1>5, <1>6, <1>7 DEF Agrees

LEMMA IncludeAgrees ==
  ASSUME OneRequest, AllInv, NEW w \in Workers, WriteInclude(w)
  PROVE  AgreeInv'
  <1> DEFINE c == calls[w]
             e == calls'[w]
  <1>1. SUFFICES ASSUME ~faulted'
                 PROVE  Agrees(e, sites', zone', include', loaded', served')
    BY AgreeOfOne
  <1>2. /\ c.pc = "include" /\ UNCHANGED <<sites, zone, loaded, served, faulted>>
        /\ include' = c.list
        /\ SameCall(c, e) /\ e.pc = "reconfig"
    BY CallOfGoto DEF WriteInclude, At, AllInv, TypeInv
  <1>3. Agrees(c, sites, zone, include, loaded, served)
    BY <1>1, <1>2 DEF AllInv, AgreeInv
  <1>4. /\ ZoneOf(e) = ZoneOf(c) /\ (IsRoot(e) <=> IsRoot(c)) /\ e.dom = c.dom
        /\ e.phase = c.phase
    BY <1>2, ZoneOfSame DEF SameCall
  <1>5. include' = {z \in Domains : zone[z] # {}}
    BY <1>2, <1>3 DEF Agrees, Listed
  <1> HIDE DEF c, e
  <1>6. InZones(e, sites, zone)
    BY <1>2, <1>3, <1>4 DEF Agrees, InZones, Early, Late
  <1>7. Listed(e, zone, include')
    BY <1>2, <1>5 DEF Listed
  <1>8. Loaded(e, zone, include', loaded, served)
    <2>1. \A y \in Domains : y # ZoneOf(c) => (y \in include <=> zone[y] # {})
      BY <1>3 DEF Agrees, Listed
    <2>2. \A y \in Domains :
             /\ y \in loaded <=> y \in include
             /\ y # ZoneOf(c) => served[y] = zone[y]
      BY <1>2, <1>3 DEF Agrees, Loaded
    <2>3. QED
      BY <1>2, <1>4, <1>5, <2>1, <2>2 DEF Loaded
  <1>9. QED
    BY <1>2, <1>3, <1>4, <1>6, <1>7, <1>8 DEF Agrees

LEMMA ReconfigAgrees ==
  ASSUME OneRequest, DnsEnabled, AllInv, NEW w \in Workers, Reconfig(w)
  PROVE  AgreeInv'
  <1> DEFINE c == calls[w]
             e == calls'[w]
             z == ZoneOf(c)
  <1>1. SUFFICES ASSUME ~faulted'
                 PROVE  Agrees(e, sites', zone', include', loaded', served')
    BY AgreeOfOne
  <1>2. /\ c.pc = "reconfig" /\ UNCHANGED <<sites, zone, include, faulted>>
        /\ NamedReconfig
    BY DEF Reconfig, At
  <1>3. /\ Agrees(c, sites, zone, include, loaded, served)
        /\ c.phase \in {"add", "delete"} /\ c.dom \in Domains
    BY <1>1, <1>2, ProviderContext DEF AllInv, ProviderSteps
  <1>4. /\ SameCall(c, e)
        /\ \/ c.phase = "add" /\ e.pc = "reload"
           \/ c.phase = "delete" /\ e.pc = "vhost"
    BY <1>3, CallOfGoto, CallOfReturns DEF Reconfig, Ensures, AllInv, TypeInv
  <1>5. /\ ZoneOf(e) = z /\ (IsRoot(e) <=> IsRoot(c)) /\ e.dom = c.dom
        /\ e.phase = c.phase
    BY <1>4, ZoneOfSame DEF SameCall
  <1>6. /\ loaded' = include
        /\ \A y \in Domains : y # z => served'[y] = zone[y]
    <2>1. ASSUME NEW y \in Domains, y # z PROVE served'[y] = zone[y]
      <3>1. /\ y \in include <=> zone[y] # {}
            /\ y \in loaded <=> y \in include
            /\ served[y] = zone[y]
        BY <1>2, <1>3, <2>1 DEF Agrees, Listed, Loaded
      <3> HIDE DEF z, c
      <3>2. QED
        BY <1>2, <3>1 DEF NamedReconfig
    <2>2. QED
      BY <1>2, <2>1 DEF NamedReconfig
  <1>7. c.phase = "delete" => served'[z] = zone[z]
    <2>1. ASSUME c.phase = "delete"
          PROVE  z = c.dom /\ zone[c.dom] = {} /\ c.dom \notin include
      BY <1>2, <2>1 DEF AllInv, WorkInv, Works, Removing, RowInv, Fits, RootSteps, ZoneOf
    <2>2. QED
      BY <1>2, <1>3, <2>1 DEF NamedReconfig
  <1> HIDE DEF c, e, z
  <1>8. InZones(e, sites, zone)
    BY <1>2, <1>3, <1>4, <1>5 DEF Agrees, InZones, Early, Late
  <1>9. Listed(e, zone, include)
    BY <1>2, <1>3, <1>4 DEF Agrees, Listed
  <1>10. Loaded(e, zone, include, loaded', served')
    BY <1>3, <1>4, <1>5, <1>6, <1>7 DEF Loaded
  <1>11. QED
    BY <1>2, <1>3, <1>4, <1>5, <1>8, <1>9, <1>10 DEF Agrees

LEMMA ReloadAgrees ==
  ASSUME OneRequest, DnsEnabled, AllInv, NEW w \in Workers, Reload(w)
  PROVE  AgreeInv'
  <1> DEFINE c == calls[w]
             e == calls'[w]
             z == ZoneOf(c)
  <1>1. SUFFICES ASSUME ~faulted'
                 PROVE  Agrees(e, sites', zone', include', loaded', served')
    BY AgreeOfOne
  <1>2. c.pc = "reload" /\ UNCHANGED <<sites, zone, include, loaded, faulted>>
    BY DEF Reload, At
  <1>3. /\ Agrees(c, sites, zone, include, loaded, served)
        /\ c.phase \in {"add", "delete"} /\ c.dom \in Domains /\ z \in Domains
        /\ ~IsRoot(c) => zone[z] # {}
    BY <1>1, <1>2, ProviderContext DEF AllInv, ProviderSteps
  <1>4. zone[z] # {}
    <2>1. CASE c.phase = "add"
      BY <1>2, <2>1 DEF AllInv, WorkInv, Works, Adding
    <2>2. CASE c.phase = "delete"
      BY <1>2, <1>3, <2>2 DEF AllInv, WorkInv, Works, Removing
    <2>3. QED
      BY <1>3, <2>1, <2>2
  <1>5. z \in loaded /\ Valid(zone[z])
    BY <1>2, <1>3, <1>4 DEF Agrees, InZones, Listed, Loaded
  <1>6. served' = [served EXCEPT ![z] = zone[z]] /\ ProviderReturns(w)
    BY <1>5 DEF Reload
  <1>7. /\ SameCall(c, e)
        /\ c.phase = "add" => e.pc = "done"
        /\ c.phase = "delete" => e.pc = "vhost"
    BY <1>6, CallOfReturns DEF AllInv, TypeInv
  <1>8. e.dom = c.dom /\ e.phase = c.phase
    BY <1>7 DEF SameCall
  <1>9. served'[z] = zone[z] /\ \A y \in Domains : y # z => served'[y] = served[y]
    BY <1>3, <1>6 DEF AllInv, TypeInv, TypeOK
  <1> HIDE DEF c, e, z
  <1>10. InZones(e, sites, zone)
    BY <1>2, <1>3, <1>7, <1>8 DEF Agrees, InZones, Early, Late
  <1>11. Listed(e, zone, include)
    BY <1>2, <1>3, <1>7 DEF Agrees, Listed
  <1>12. Loaded(e, zone, include, loaded, served')
    <2>1. \A y \in Domains : /\ y \in loaded <=> y \in include
                             /\ y # z => served[y] = zone[y]
      BY <1>2, <1>3 DEF Agrees, Loaded, z
    <2>2. QED
      BY <1>9, <2>1 DEF Loaded
  <1>13. QED
    BY <1>2, <1>3, <1>7, <1>8, <1>10, <1>11, <1>12 DEF Agrees

\* The steps that touch the rows, and those between them.
LEMMA RowStepAgrees ==
  ASSUME OneRequest, DnsEnabled, NamesKeepKind, AllInv, NEW w \in Workers,
         Step(w), ~ProviderStep(w)
  PROVE  AgreeInv'
  <1> DEFINE c == calls[w]
             e == calls'[w]
  <1> USE DEF AllInv, TypeInv
  <1>1. SUFFICES ASSUME ~faulted'
                 PROVE  Agrees(e, sites', zone', include', loaded', served')
    BY AgreeOfOne
  <1>2. UNCHANGED <<zone, include, loaded, served, faulted>>
    BY DEF Step, CheckLimit, LookUp, Upsert, Compensate, CheckEdit, SaveEdit,
           CheckDependents, RemoveVhost, DeleteRow, Return, dns
  <1>3. /\ Agrees(c, sites, zone, include, loaded, served)
        /\ Fits(c) /\ Knows(c, sites) /\ Leaves(c, sites) /\ Rooted(sites)
        /\ c \in Call
    BY <1>1, <1>2 DEF AgreeInv, RowInv, TreeInv, CallsTyped
  <1>4. CASE \/ CheckLimit(w) \/ CheckEdit(w) \/ LookUp(w) \/ CheckDependents(w)
             \/ Return(w)
    <2>1. sites' = sites
      BY <1>4 DEF CheckLimit, CheckEdit, LookUp, CheckDependents, Return
    <2>2. /\ Quiet(c) /\ Quiet(e) /\ e.phase # "restore"
      <3>1. CASE CheckLimit(w) \/ CheckEdit(w) \/ LookUp(w)
        BY <1>3, <3>1, CallOfGoto, CallOfFinish, CallOfLookUp
           DEF CheckLimit, CheckEdit, LookUp, At, Quiet, SameCall, Agrees
      <3>2. CASE CheckDependents(w)
        <4>1. c.pc = "dependents" /\ FirstStep(c, "delete") = "zremove"
          BY <1>3, <3>2 DEF CheckDependents, At, Fits, RootSteps, FirstStep
        <4>2. QED
          BY <1>3, <3>2, <4>1, CallOfGoto, CallOfFinish
             DEF CheckDependents, Quiet, SameCall, Agrees
      <3>3. CASE Return(w)
        BY <3>3, NoCallFields DEF Return, At, Quiet, CallsTyped
      <3>4. QED
        BY <1>4, <3>1, <3>2, <3>3
    <2>3. QED
      BY <1>2, <1>3, <2>1, <2>2, QuietAgrees
  <1>5. CASE Upsert(w)
    <2>1. FirstStep(c, "add") = "zload"
      BY DEF FirstStep
    <2>2. /\ c.pc = "upsert" /\ SameCall(c, e) /\ e.pc = "zload"
          /\ sites' = [sites EXCEPT ![c.dom] = [owner |-> c.user, parent |-> c.parent]]
      BY <1>5, <2>1, CallOfGoto DEF Upsert, At
    <2>3. /\ c.phase = "add" /\ e.phase = "add" /\ e.dom = c.dom
          /\ c.dom \in Domains /\ c.user \in Users /\ Placed(c.dom, c.parent)
      BY <1>3, <2>2 DEF Fits, Leaves, CallsTyped, DomKnown, Steps, SameCall
    <2>4. Settled(sites, zone, include, loaded, served)
      BY <1>3, <2>2, QuietAgrees DEF Quiet
    <2>5. Has(sites, c.dom) => sites[c.dom].parent = c.parent
      BY <1>3, <2>3, OnePlace DEF Rooted
    <2> HIDE DEF c, e
    <2>6. /\ sites'[c.dom].parent = c.parent /\ Has(sites', c.dom)
          /\ \A n \in Domains : n # c.dom => sites'[n] = sites[n]
      BY <2>2, <2>3, SitesAssumption DEF TypeOK, Has
    <2>7. InZones(e, sites', zone)
      <3>1. \A y, n \in Domains : n # c.dom => (n \in zone[y] <=> Belongs(sites', n, y))
        BY <2>4, <2>6 DEF Settled, Belongs, Has
      <3>2. \A y \in Domains : c.dom \in zone[y] => Belongs(sites', c.dom, y)
        BY <2>3, <2>4, <2>5, <2>6 DEF Settled, Belongs
      <3>3. QED
        BY <2>2, <2>3, <2>4, <3>1, <3>2 DEF InZones, Settled, Early, Late
    <2>8. Listed(e, zone, include) /\ Loaded(e, zone, include, loaded, served)
      BY <2>2, <2>4 DEF Listed, Loaded, Settled
    <2>9. QED
      BY <1>2, <2>2, <2>3, <2>7, <2>8 DEF Agrees, e
  <1>6. CASE SaveEdit(w)
    <2>1. /\ c.pc = "esave" /\ SameCall(c, e) /\ e.pc = "done"
          /\ sites' = [sites EXCEPT ![c.dom] = [owner |-> c.user, parent |-> c.parent]]
      BY <1>6, CallOfFinish DEF SaveEdit, At
    <2>2. /\ c.phase = "edit" /\ e.phase = "edit" /\ c.dom \in Domains
          /\ c.user \in Users /\ Has(sites, c.dom) /\ c.parent = sites[c.dom].parent
      BY <1>3, <2>1 DEF Fits, Leaves, Knows, CallsTyped, DomKnown, Steps, SameCall
    <2>3. Settled(sites, zone, include, loaded, served)
      BY <1>3, <2>1, QuietAgrees DEF Quiet
    <2> HIDE DEF c
    <2>4. \A n \in Domains : (Has(sites', n) <=> Has(sites, n))
                             /\ sites'[n].parent = sites[n].parent
      BY <2>1, <2>2, SitesAssumption DEF TypeOK, Has
    <2>5. Settled(sites', zone, include, loaded, served)
      BY <2>3, <2>4 DEF Settled, Belongs
    <2>6. QED
      BY <1>2, <2>1, <2>2, <2>5, QuietAgrees DEF Quiet
  <1>7. CASE Compensate(w)
    BY <1>3, <1>7 DEF Compensate, At, Agrees
  <1>8. CASE RemoveVhost(w)
    <2>1. c.pc = "vhost" /\ SameCall(c, e) /\ e.pc = "row" /\ sites' = sites
      BY <1>8, CallOfGoto DEF RemoveVhost, At
    <2>2. e.phase = c.phase /\ e.dom = c.dom /\ c.phase = "delete"
      BY <1>3, <2>1 DEF Fits, SameCall
    <2> HIDE DEF c, e
    <2>3. InZones(e, sites, zone)
      BY <1>3, <2>1, <2>2 DEF Agrees, InZones, Early, Late
    <2>4. Listed(e, zone, include) /\ Loaded(e, zone, include, loaded, served)
      BY <1>3, <2>1 DEF Agrees, Listed, Loaded
    <2>5. QED
      BY <1>2, <2>1, <2>2, <2>3, <2>4 DEF Agrees, e
  <1>9. CASE DeleteRow(w)
    <2>1. c.pc = "row" /\ c.phase = "delete" /\ c.dom \in Domains
      BY <1>3, <1>9 DEF DeleteRow, At, Fits, CallsTyped, DomKnown, Steps
    <2>2. Exists(c.dom)
      BY <1>3, <2>1, OfRows DEF Knows, Steps
    <2>3. /\ sites' = [sites EXCEPT ![c.dom] = NoSite]
          /\ SameCall(c, e) /\ e.pc = "done"
      BY <1>9, <2>2, CallOfFinish DEF DeleteRow
    <2>4. e.phase = "delete"
      BY <2>1, <2>3 DEF SameCall
    <2> HIDE DEF c
    <2>5. /\ ~Has(sites', c.dom)
          /\ \A n \in Domains : n # c.dom => sites'[n] = sites[n]
      BY <2>1, <2>3 DEF TypeOK, NoSite, Has
    <2>6. \A y, n \in Domains : n \in zone[y] <=> Belongs(sites', n, y)
      <3>1. \A y, n \in Domains : n # c.dom => (n \in zone[y] <=> Belongs(sites, n, y))
        BY <1>3 DEF Agrees, InZones
      <3>2. \A y \in Domains : c.dom \notin zone[y]
        BY <1>3, <2>1 DEF Agrees, InZones, Late
      <3>3. QED
        BY <2>5, <3>1, <3>2 DEF Belongs, Has
    <2>7. Settled(sites', zone, include, loaded, served)
      BY <1>3, <2>1, <2>6 DEF Agrees, InZones, Listed, Loaded, Settled
    <2>8. QED
      BY <1>2, <2>3, <2>4, <2>7, QuietAgrees DEF Quiet
  <1>10. QED
    BY <1>4, <1>5, <1>6, <1>7, <1>8, <1>9 DEF Step

\* named starts afresh with the files as they are.
LEMMA RestartAgrees ==
  ASSUME AgreeInv, NamedRestart
  PROVE  AgreeInv'
  <1>1. /\ UNCHANGED <<sites, zone, include, calls, faulted>>
        /\ loaded' = include
        /\ \A z \in Domains :
              served'[z] = IF z \in include /\ Valid(zone[z]) THEN zone[z] ELSE {}
    BY DEF NamedRestart
  <1>2. SUFFICES ASSUME ~faulted, NEW w \in Workers
                 PROVE  Agrees(calls[w], sites, zone, include, loaded', served')
    BY <1>1 DEF AgreeInv
  <1> DEFINE c == calls[w]
  <1>3. Agrees(c, sites, zone, include, loaded, served)
    BY <1>2 DEF AgreeInv
  <1> HIDE DEF c
  <1>4. ASSUME NEW z \in Domains,
               ~(c.pc \in {"zcheck", "list", "include"} /\ z = ZoneOf(c))
        PROVE  served'[z] = zone[z]
    <2>1. /\ z \in include <=> zone[z] # {}
          /\ zone[z] # {} => Valid(zone[z])
      BY <1>3, <1>4 DEF Agrees, InZones, Listed
    <2>2. QED
      BY <1>1, <2>1
  <1>5. Loaded(c, zone, include, loaded', served')
    BY <1>1, <1>4 DEF Loaded
  <1>6. QED
    BY <1>3, <1>5 DEF Agrees, c

LEMMA AgreeStep ==
  ASSUME OneRequest, DnsEnabled, NamesKeepKind, AllInv, [Next]_vars
  PROVE  AgreeInv'
  <1>1. CASE UNCHANGED vars
    BY <1>1 DEF vars, AllInv, AgreeInv
  <1>2. CASE NamedRestart
    BY <1>2, RestartAgrees DEF AllInv
  <1>3. ASSUME NEW w \in Workers, Failure(w) PROVE AgreeInv'
    BY <1>3 DEF Failure, ProviderFails, RndcTimesOut, VhostFails, DbFails, Crash, AgreeInv
  <1>4. ASSUME NEW w \in Workers, ProviderStep(w) PROVE AgreeInv'
    BY <1>4, LoadAgrees, WriteAgrees, CheckAgrees, RemoveAgrees, ListAgrees,
       IncludeAgrees, ReconfigAgrees, ReloadAgrees DEF ProviderStep
  <1>5. ASSUME NEW w \in Workers, Request(w) \/ Step(w) PROVE AgreeInv'
    BY <1>4, <1>5, RequestAgrees, RowStepAgrees DEF AllInv
  <1>6. QED
    BY <1>1, <1>2, <1>3, <1>5 DEF Next

LEMMA AgreeInvariant == OrderlyNames => (Spec => []AgreeInv)
  <1> SUFFICES ASSUME OrderlyNames PROVE Spec => []AgreeInv
    OBVIOUS
  <1>1. Init => AgreeInv
    <2> SUFFICES ASSUME Init, NEW w \in Workers
                 PROVE  Agrees(NoCall, sites, zone, include, loaded, served)
      BY DEF Init, AgreeInv
    <2>1. Settled(sites, zone, include, loaded, served)
      BY DEF Init, Settled, Belongs, Has, NoSite
    <2>2. QED
      BY <2>1, NoCallFields, QuietAgrees DEF Quiet
  <1>2. AllInv /\ [Next]_vars => AgreeInv'
    BY AgreeStep DEF OrderlyNames
  <1>3. Spec => []RowInv /\ []WorkInv
    BY RowInvariant, WorkInvariant DEF OrderlyNames
  <1>4. QED
    BY <1>1, <1>2, <1>3, TypeInvariant, TreeInvariant, PTL DEF Spec, AllInv

\* As long as nothing failed, rows, zone files, the include file and named agree
\* between requests: no request ever reads what another left half done, the zone of
\* a root outlives the work on its subdomains, and a restart of named, at any moment,
\* reads nothing it should not.
THEOREM DnsMatches == OneRequest /\ NamesKeepKind => (Spec => []DnsMatchesSites)
  <1> SUFFICES ASSUME OneRequest, NamesKeepKind PROVE Spec => []DnsMatchesSites
    OBVIOUS
  <1>1. CASE ~DnsEnabled
    <2>1. TypeOK => DnsMatchesSites
      BY <1>1 DEF DnsMatchesSites
    <2>2. TypeInv => TypeOK
      BY DEF TypeInv
    <2>3. QED
      BY <2>1, <2>2, TypeInvariant, PTL
  <1>2. CASE DnsEnabled
    <2>1. ASSUME TypeInv, TreeInv, AgreeInv PROVE DnsMatchesSites
      <3> SUFFICES ASSUME AtRest, ~faulted
                   PROVE  LET wanted == [z \in Domains |->
                                 IF Exists(z) /\ sites[z].parent = NoDomain
                                 THEN {z} \cup Dependents(z) ELSE {}]
                          IN  /\ zone = wanted
                              /\ served = wanted
                              /\ include = {z \in Domains : wanted[z] # {}}
        BY DEF DnsMatchesSites
      <3> DEFINE wanted == [z \in Domains |->
                                 IF Exists(z) /\ sites[z].parent = NoDomain
                                 THEN {z} \cup Dependents(z) ELSE {}]
      <3>1. Settled(sites, zone, include, loaded, served)
        <4>1. PICK w \in Workers : TRUE
          BY SitesAssumption
        <4>2. Quiet(calls[w]) /\ Agrees(calls[w], sites, zone, include, loaded, served)
          BY <2>1 DEF AtRest, Quiet, AgreeInv
        <4>3. QED
          BY <4>2, QuietAgrees
      <3>2. ASSUME NEW z \in Domains PROVE zone[z] = wanted[z]
        <4>1. zone[z] \subseteq Domains /\ wanted[z] \subseteq Domains
          BY <2>1 DEF TypeInv, TypeOK, Dependents
        <4>2. ASSUME NEW n \in Domains PROVE n \in zone[z] <=> n \in wanted[z]
          <5>1. n \in zone[z] <=> Belongs(sites, n, z)
            BY <3>1 DEF Settled
          <5>2. z # NoDomain
            BY SitesAssumption
          <5>3. Rooted(sites)
            BY <2>1 DEF TreeInv
          <5>4. CASE Has(sites, z) /\ sites[z].parent = NoDomain
            BY <5>1, <5>2, <5>4 DEF Belongs, Exists, Has, Dependents
          <5>5. CASE ~(Has(sites, z) /\ sites[z].parent = NoDomain)
            BY <5>1, <5>2, <5>3, <5>5 DEF Belongs, Exists, Has, Rooted
          <5>6. QED
            BY <5>4, <5>5
        <4> HIDE DEF wanted
        <4>3. QED
          BY <4>1, <4>2
      <3>3. \A z \in Domains : /\ served[z] = wanted[z]
                               /\ z \in include <=> wanted[z] # {}
        BY <3>1, <3>2 DEF Settled
      <3>4. zone = wanted /\ served = wanted
        BY <2>1, <3>2, <3>3 DEF TypeInv, TypeOK
      <3> HIDE DEF wanted
      <3>5. include = {z \in Domains : wanted[z] # {}}
        BY <2>1, <3>3 DEF TypeInv, TypeOK
      <3>6. QED
        BY <3>4, <3>5 DEF wanted
    <2>2. Spec => []TreeInv /\ []AgreeInv
      BY <1>2, TreeInvariant, AgreeInvariant DEF OrderlyNames
    <2>3. QED
      BY <2>1, <2>2, TypeInvariant, PTL
  <1>3. QED
    BY <1>1, <1>2

=============================================================================
