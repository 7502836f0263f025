--------------------------- MODULE NgmSitesProofs ---------------------------
(***************************************************************************)
(* NgmSites for every set of sites, owners, limits and concurrent          *)
(* requests: type correctness, and how far concurrent requests may pass a  *)
(* package limit.                                                          *)
(***************************************************************************)
EXTENDS NgmSites, FiniteSetTheorems, TLAPS

-----------------------------------------------------------------------------
(* Type correctness *)

\* TypeOK is not inductive: a step that writes a row or a record needs that the
\* operation it belongs to has a domain.
DomKnown(c) == c.pc \in Steps => c.dom \in Domains

CallsTyped ==
    /\ calls \in [Workers -> Call]
    /\ \A w \in Workers : DomKnown(calls[w])

TypeInv == TypeOK /\ CallsTyped

LEMMA NoCallType == NoCall \in Call /\ DomKnown(NoCall)
  BY DEF NoCall, Call, DomKnown, Steps, ProviderSteps

LEMMA CallChange ==
  ASSUME CallsTyped, NEW w \in Workers, NEW c \in Call, DomKnown(c),
         calls' = [calls EXCEPT ![w] = c]
  PROVE  CallsTyped'
  BY DEF CallsTyped

LEMMA GotoType ==
  ASSUME CallsTyped, NEW w \in Workers, calls[w].pc \in Steps,
         NEW step \in Steps, Goto(w, step)
  PROVE  CallsTyped'
  <1> DEFINE c == [calls[w] EXCEPT !.pc = step]
  <1>1. calls' = [calls EXCEPT ![w] = c]
    BY DEF Goto
  <1>2. c \in Call /\ DomKnown(c)
    BY DEF CallsTyped, Call, DomKnown
  <1>3. QED
    BY <1>1, <1>2, CallChange

LEMMA FinishType ==
  ASSUME CallsTyped, NEW w \in Workers, NEW ok \in BOOLEAN, Finish(w, ok)
  PROVE  CallsTyped'
  <1> DEFINE c == [calls[w] EXCEPT !.pc = "done", !.ok = ok]
  <1>1. calls' = [calls EXCEPT ![w] = c]
    BY DEF Finish
  <1>2. calls[w] \in Call
    BY DEF CallsTyped
  <1>3. c \in Call
    BY <1>2 DEF Call
  <1>4. c.pc \notin Steps
    BY <1>2 DEF Call, Steps, ProviderSteps
  <1>5. QED
    BY <1>1, <1>3, <1>4, CallChange DEF DomKnown

LEMMA ProviderReturnsType ==
  ASSUME CallsTyped, NEW w \in Workers, calls[w].pc \in Steps, ProviderReturns(w)
  PROVE  CallsTyped'
  BY GotoType, FinishType DEF ProviderReturns, Steps

LEMMA ProviderErrsType ==
  ASSUME CallsTyped, NEW w \in Workers, calls[w].pc \in Steps, ProviderErrs(w)
  PROVE  CallsTyped'
  BY GotoType, FinishType DEF ProviderErrs, Steps

LEMMA RestoreType ==
  ASSUME CallsTyped, NEW w \in Workers, calls[w].pc \in Steps, Restore(w)
  PROVE  CallsTyped'
  <1> DEFINE c == [calls[w] EXCEPT !.pc = FirstStep(calls[w], "restore"),
                                   !.phase = "restore"]
  <1>1. CASE DnsEnabled
    <2>1. calls' = [calls EXCEPT ![w] = c]
      BY <1>1 DEF Restore
    <2>2. calls[w] \in Call /\ calls[w].dom \in Domains
      BY DEF CallsTyped, DomKnown
    <2>3. FirstStep(calls[w], "restore") \in Steps
      BY DEF FirstStep, Steps, ProviderSteps
    <2>4. c \in Call
      BY <2>2, <2>3 DEF Call
    <2>5. c.dom \in Domains
      BY <2>2 DEF Call
    <2>6. QED
      BY <2>1, <2>4, <2>5, CallChange DEF DomKnown
  <1>2. CASE ~DnsEnabled
    BY <1>2, FinishType DEF Restore
  <1>3. QED
    BY <1>1, <1>2

LEMMA ZoneOfType ==
  ASSUME CallsTyped, NEW w \in Workers, calls[w].pc \in Steps
  PROVE  ZoneOf(calls[w]) \in Domains
  BY DEF CallsTyped, DomKnown, Call, ZoneOf, IsRoot

LEMMA SiteAddType ==
  ASSUME TypeInv, NEW w \in Workers, SiteAdd(w)
  PROVE  CallsTyped'
  <1>1. PICK r \in AddRequests :
          LET c == [NoCall EXCEPT !.user = r.user, !.dom = r.dom,
                                  !.parent = r.parent]
          IN  calls' = [calls EXCEPT ![w] =
                  IF ValidParent(r.user, r.dom, r.parent)
                  THEN [c EXCEPT !.pc = "limit"]
                  ELSE [c EXCEPT !.pc = "done"]]
    BY DEF SiteAdd
  <1> DEFINE c == [NoCall EXCEPT !.user = r.user, !.dom = r.dom,
                                 !.parent = r.parent]
             d == IF ValidParent(r.user, r.dom, r.parent)
                  THEN [c EXCEPT !.pc = "limit"] ELSE [c EXCEPT !.pc = "done"]
  <1>2. r.user \in Users /\ r.dom \in Domains /\ r.parent \in Domains \cup {NoDomain}
    BY SitesAssumption
  <1>3. d \in Call /\ DomKnown(d)
    BY <1>2 DEF NoCall, Call, DomKnown, Steps, ProviderSteps
  <1>4. QED
    BY <1>1, <1>3, CallChange DEF TypeInv

LEMMA SiteEditType ==
  ASSUME TypeInv, NEW w \in Workers, SiteEdit(w)
  PROVE  CallsTyped'
  <1> DEFINE Read(r) ==
               [NoCall EXCEPT
                  !.pc = "echeck", !.phase = "edit", !.dom = r.dom, !.set = r.set,
                  !.user = IF r.user = NoUser THEN sites[r.dom].owner ELSE r.user,
                  !.old = sites[r.dom].parent,
                  !.parent = IF r.set THEN r.parent ELSE sites[r.dom].parent]
  <1>1. PICK r \in EditRequests : calls' = [calls EXCEPT ![w] = Read(r)]
    BY DEF SiteEdit
  <1>2. /\ r.user \in Users \cup {NoUser} /\ r.dom \in Domains
        /\ r.parent \in Domains \cup {NoDomain} /\ r.set \in BOOLEAN
    BY SitesAssumption
  <1>3. sites[r.dom] \in Site
    BY <1>2 DEF TypeInv, TypeOK
  <1>4. /\ (IF r.user = NoUser THEN sites[r.dom].owner ELSE r.user)
               \in Users \cup {NoUser}
        /\ sites[r.dom].parent \in Domains \cup {NoDomain}
        /\ (IF r.set THEN r.parent ELSE sites[r.dom].parent)
               \in Domains \cup {NoDomain}
    BY <1>2, <1>3 DEF Site
  <1>5. Read(r) \in Call
    BY <1>2, <1>4 DEF NoCall, Call, Steps
  <1>6. Read(r).dom \in Domains
    BY <1>2 DEF NoCall
  <1>7. QED
    BY <1>1, <1>5, <1>6, CallChange DEF TypeInv, DomKnown

LEMMA SiteDeleteType ==
  ASSUME TypeInv, NEW w \in Workers, SiteDelete(w)
  PROVE  CallsTyped'
  <1> DEFINE c(d) == [NoCall EXCEPT !.phase = "delete", !.dom = d,
                                    !.parent = sites[d].parent]
             Started(d) == [c(d) EXCEPT !.pc =
                    IF ~DnsEnabled THEN "vhost"
                    ELSE IF IsRoot(c(d)) THEN "dependents"
                    ELSE FirstStep(c(d), "delete")]
  <1>1. PICK d \in Deletable : calls' = [calls EXCEPT ![w] = Started(d)]
    BY DEF SiteDelete
  <1>2. d \in Domains /\ sites[d] \in Site
    BY SitesAssumption DEF TypeInv, TypeOK
  <1>3. Started(d) \in Call /\ DomKnown(Started(d))
    BY <1>2 DEF NoCall, Call, DomKnown, Site, FirstStep, Steps, ProviderSteps
  <1>4. QED
    BY <1>1, <1>3, CallChange DEF TypeInv

\* Every step keeps the calls of the workers in their types.
LEMMA CallsStep ==
  ASSUME TypeInv, [Next]_vars
  PROVE  CallsTyped'
  <1> USE DEF At, TypeInv
  <1>1. CASE UNCHANGED vars
    BY <1>1 DEF vars, dns, CallsTyped
  <1>2. CASE NamedRestart
    BY <1>2 DEF NamedRestart, CallsTyped
  <1>3. ASSUME NEW w \in Workers, Request(w)
        PROVE  CallsTyped'
    BY <1>3, SiteAddType, SiteEditType, SiteDeleteType DEF Request
  <1>4. ASSUME NEW w \in Workers, Step(w)
        PROVE  CallsTyped'
    <2>1. CASE CheckLimit(w)
      BY <2>1, GotoType, FinishType DEF CheckLimit, Steps
    <2>2. CASE LookUp(w)
      <3> DEFINE c == [calls[w] EXCEPT !.pc = "upsert",
                                       !.created = ~Exists(calls[w].dom)]
      <3>1. calls[w] \in Call /\ calls[w].dom \in Domains
        BY <2>2 DEF LookUp, CallsTyped, DomKnown, Steps
      <3>2. c \in Call /\ DomKnown(c)
        BY <3>1 DEF Call, DomKnown, Steps, Exists
      <3>3. calls' = [calls EXCEPT ![w] = c]
        BY <2>2 DEF LookUp
      <3>4. QED
        BY <3>2, <3>3, CallChange
    <2>3. CASE Upsert(w)
      <3>1. FirstStep(calls[w], "add") \in Steps
        BY DEF FirstStep, Steps, ProviderSteps
      <3>2. QED
        BY <2>3, <3>1, GotoType, FinishType DEF Upsert, Steps
    <2>4. CASE Compensate(w)
      BY <2>4, FinishType DEF Compensate
    <2>5. CASE CheckEdit(w)
      BY <2>5, GotoType, FinishType DEF CheckEdit, Steps
    <2>6. CASE SaveEdit(w)
      BY <2>6, FinishType DEF SaveEdit
    <2>7. CASE CheckDependents(w)
      <3>1. FirstStep(calls[w], "delete") \in Steps
        BY DEF FirstStep, Steps, ProviderSteps
      <3>2. QED
        BY <2>7, <3>1, GotoType, FinishType DEF CheckDependents, Steps
    <2>8. CASE RemoveVhost(w)
      BY <2>8, GotoType DEF RemoveVhost, Steps
    <2>9. CASE DeleteRow(w)
      BY <2>9, FinishType, RestoreType DEF DeleteRow, Steps
    <2>10. CASE ProviderStep(w)
      <3> USE DEF Steps, ProviderSteps
      <3>1. CASE LoadZone(w)
        <4> DEFINE c == [calls[w] EXCEPT !.pc = "zwrite",
                                         !.buf = zone[ZoneOf(calls[w])]]
        <4>1. CASE calls' = [calls EXCEPT ![w] = c]
          <5>1. calls[w] \in Call /\ calls[w].dom \in Domains
            BY <3>1 DEF LoadZone, CallsTyped, DomKnown
          <5>2. zone[ZoneOf(calls[w])] \in SUBSET Domains
            BY <3>1, ZoneOfType DEF LoadZone, TypeOK
          <5>3. c \in Call /\ DomKnown(c)
            BY <5>1, <5>2 DEF Call, DomKnown
          <5>4. QED
            BY <4>1, <5>3, CallChange
        <4>2. CASE ProviderErrs(w) \/ ProviderReturns(w)
          BY <3>1, <4>2, ProviderErrsType, ProviderReturnsType DEF LoadZone
        <4>3. QED
          BY <3>1, <4>1, <4>2 DEF LoadZone
      <3>2. CASE WriteZone(w)
        BY <3>2, GotoType DEF WriteZone
      <3>3. CASE CheckZone(w)
        BY <3>3, GotoType, ProviderErrsType DEF CheckZone
      <3>4. CASE RemoveZone(w)
        BY <3>4, GotoType DEF RemoveZone
      <3>5. CASE ListZones(w)
        <4> DEFINE zs == {z \in Domains : zone[z] # {}}
                   c == [calls[w] EXCEPT !.pc = "include", !.list = zs]
        <4>1. calls[w] \in Call /\ calls[w].dom \in Domains
          BY <3>5 DEF ListZones, CallsTyped, DomKnown
        <4>2. zs \in SUBSET Domains
          OBVIOUS
        <4>3. c \in Call /\ DomKnown(c)
          <5> HIDE DEF zs
          <5>1. QED
            BY <4>1, <4>2 DEF Call, DomKnown
        <4>4. calls' = [calls EXCEPT ![w] = c]
          BY <3>5 DEF ListZones
        <4>5. QED
          BY <4>3, <4>4, CallChange
      <3>6. CASE WriteInclude(w)
        BY <3>6, GotoType DEF WriteInclude
      <3>7. CASE Reconfig(w)
        BY <3>7, GotoType, ProviderReturnsType DEF Reconfig
      <3>8. CASE Reload(w)
        BY <3>8, ProviderReturnsType, ProviderErrsType DEF Reload
      <3>9. QED
        BY <2>10, <3>1, <3>2, <3>3, <3>4, <3>5, <3>6, <3>7, <3>8 DEF ProviderStep
    <2>11. CASE Return(w)
      BY <2>11, NoCallType, CallChange DEF Return
    <2>12. QED
      BY <1>4, <2>1, <2>2, <2>3, <2>4, <2>5, <2>6, <2>7, <2>8, <2>9, <2>10, <2>11
         DEF Step
  <1>5. ASSUME NEW w \in Workers, Failure(w)
        PROVE  CallsTyped'
    <2> USE DEF Steps, ProviderSteps
    <2>1. CASE ProviderFails(w)
      BY <2>1, ProviderErrsType DEF ProviderFails
    <2>2. CASE RndcTimesOut(w)
      BY <2>2, ProviderErrsType DEF RndcTimesOut
    <2>3. CASE VhostFails(w)
      BY <2>3, FinishType DEF VhostFails
    <2>4. CASE DbFails(w)
      BY <2>4, FinishType, RestoreType DEF DbFails
    <2>5. CASE Crash(w)
      BY <2>5, NoCallType, CallChange DEF Crash
    <2>6. QED
      BY <1>5, <2>1, <2>2, <2>3, <2>4, <2>5 DEF Failure
  <1>6. QED
    BY <1>1, <1>2, <1>3, <1>4, <1>5 DEF Next

LEMMA InitType == Init => TypeInv
  <1> SUFFICES ASSUME Init PROVE TypeInv
    OBVIOUS
  <1>1. CallsTyped
    BY NoCallType DEF Init, CallsTyped
  <1>2. NoSite \in Site
    BY DEF Site, NoSite
  <1>3. QED
    BY <1>1, <1>2 DEF Init, TypeInv, TypeOK, CallsTyped

\* Every step keeps rows, files and what named knows in their types.
LEMMA DataStep ==
  ASSUME TypeInv, [Next]_vars
  PROVE  TypeOK'
  <1>1. CallsTyped'
    BY CallsStep
  <1> DEFINE Data == /\ sites \in [Domains -> Site]
                     /\ zone \in [Domains -> SUBSET Domains]
                     /\ include \subseteq Domains
                     /\ loaded \subseteq Domains
                     /\ served \in [Domains -> SUBSET Domains]
                     /\ faulted \in BOOLEAN
  <1>2. Data
    BY DEF TypeInv, TypeOK
  <1>3. CASE UNCHANGED <<sites, dns>> /\ faulted' \in {faulted, TRUE}
    <2>1. Data'
      BY <1>2, <1>3 DEF dns
    <2>2. QED
      BY <1>1, <2>1 DEF TypeOK, CallsTyped
  <1>4. ASSUME NEW w \in Workers, NEW r \in Site,
               sites' = [sites EXCEPT ![calls[w].dom] = r],
               UNCHANGED dns, faulted' \in {faulted, TRUE}
        PROVE  TypeOK'
    <2>1. Data'
      BY <1>2, <1>4 DEF dns
    <2>2. QED
      BY <1>1, <2>1 DEF TypeOK, CallsTyped
  <1>5. ASSUME NEW w \in Workers, calls[w].pc \in Steps,
               NEW zs \in SUBSET Domains, NEW z,
               zone' = [zone EXCEPT ![z] = zs],
               UNCHANGED <<sites, include, loaded, served, faulted>>
        PROVE  TypeOK'
    <2>1. Data'
      BY <1>2, <1>5
    <2>2. QED
      BY <1>1, <2>1 DEF TypeOK, CallsTyped
  <1>6. ASSUME NamedReconfig, UNCHANGED <<sites, zone, include>>,
               faulted' \in {faulted, TRUE}
        PROVE  TypeOK'
    <2>1. Data'
      BY <1>2, <1>6 DEF NamedReconfig
    <2>2. QED
      BY <1>1, <2>1 DEF TypeOK, CallsTyped
  <1>7. ASSUME NEW z \in Domains, served' = [served EXCEPT ![z] = zone[z]],
               UNCHANGED <<sites, zone, include, loaded>>,
               faulted' \in {faulted, TRUE}
        PROVE  TypeOK'
    <2>1. Data'
      BY <1>2, <1>7
    <2>2. QED
      BY <1>1, <2>1 DEF TypeOK, CallsTyped
  <1>8. ASSUME NEW w \in Workers, calls[w].pc \in Steps
        PROVE  /\ calls[w] \in Call /\ calls[w].dom \in Domains
               /\ ZoneOf(calls[w]) \in Domains
    BY <1>8, ZoneOfType DEF TypeInv, CallsTyped, DomKnown
  <1>9. NoSite \in Site
    BY DEF Site, NoSite
  <1>10. CASE UNCHANGED vars
    BY <1>3, <1>10 DEF vars, dns
  <1>11. CASE NamedRestart
    <2>1. Data'
      BY <1>2, <1>11 DEF NamedRestart
    <2>2. QED
      BY <1>1, <2>1 DEF TypeOK, CallsTyped
  <1>12. ASSUME NEW w \in Workers, Request(w)
         PROVE  TypeOK'
    BY <1>3, <1>12 DEF Request, SiteAdd, SiteEdit, SiteDelete
  <1>13. ASSUME NEW w \in Workers, Step(w)
         PROVE  TypeOK'
    <2> USE DEF At, Steps, ProviderSteps
    <2>1. CASE \/ CheckLimit(w) \/ LookUp(w) \/ CheckEdit(w)
               \/ CheckDependents(w) \/ RemoveVhost(w) \/ Return(w)
               \/ LoadZone(w) \/ ListZones(w) \/ CheckZone(w)
      BY <1>3, <2>1 DEF CheckLimit, LookUp, CheckEdit, CheckDependents, RemoveVhost,
                        Return, LoadZone, ListZones, CheckZone
    <2>2. CASE Upsert(w) \/ SaveEdit(w)
      <3>1. [owner |-> calls[w].user, parent |-> calls[w].parent] \in Site
        BY <1>8, <2>2 DEF Upsert, SaveEdit, Site, Call
      <3>2. QED
        BY <1>4, <2>2, <3>1 DEF Upsert, SaveEdit
    <2>3. CASE Compensate(w) \/ DeleteRow(w)
      BY <1>3, <1>4, <1>9, <2>3 DEF Compensate, DeleteRow
    <2>4. CASE WriteZone(w)
      <3>1. Records(calls[w]) \in SUBSET Domains
        BY <1>8, <2>4 DEF WriteZone, Records, Call
      <3>2. QED
        BY <1>5, <2>4, <3>1 DEF WriteZone
    <2>5. CASE RemoveZone(w)
      <3>1. {} \in SUBSET Domains
        OBVIOUS
      <3>2. zone' = [zone EXCEPT ![calls[w].dom] = {}]
        BY <2>5 DEF RemoveZone
      <3>3. QED
        BY <1>5, <2>5, <3>1, <3>2 DEF RemoveZone
    <2>6. CASE WriteInclude(w)
      <3>1. calls[w].list \subseteq Domains
        BY <1>8, <2>6 DEF WriteInclude, Call
      <3>2. Data'
        BY <1>2, <2>6, <3>1 DEF WriteInclude
      <3>3. QED
        BY <1>1, <3>2 DEF TypeOK, CallsTyped
    <2>7. CASE Reconfig(w)
      BY <1>6, <2>7 DEF Reconfig
    <2>8. CASE Reload(w)
      BY <1>3, <1>7, <1>8, <2>8 DEF Reload, dns
    <2>9. QED
      BY <1>13, <2>1, <2>2, <2>3, <2>4, <2>5, <2>6, <2>7, <2>8
         DEF Step, ProviderStep
  <1>14. ASSUME NEW w \in Workers, Failure(w)
         PROVE  TypeOK'
    <2> USE DEF At, Steps, ProviderSteps
    <2>1. CASE ProviderFails(w) \/ VhostFails(w) \/ DbFails(w) \/ Crash(w)
      BY <1>3, <2>1 DEF ProviderFails, VhostFails, DbFails, Crash
    <2>2. CASE RndcTimesOut(w)
      BY <1>6, <1>7, <1>8, <2>2 DEF RndcTimesOut
    <2>3. QED
      BY <1>14, <2>1, <2>2 DEF Failure
  <1>15. QED
    BY <1>10, <1>11, <1>12, <1>13, <1>14 DEF Next

LEMMA TypeStep == TypeInv /\ [Next]_vars => TypeInv'
  BY CallsStep, DataStep DEF TypeInv

LEMMA TypeInvariant == Spec => []TypeInv
  BY InitType, TypeStep, PTL DEF Spec

\* Every reachable state has its types, for any number of concurrent requests,
\* whatever fails in the provider, the database and the processes.
THEOREM SitesTypeCorrect == Spec => []TypeOK
  <1>1. TypeInv => TypeOK
    BY DEF TypeInv
  <1>2. QED
    BY <1>1, TypeInvariant, PTL

-----------------------------------------------------------------------------
(* Package limits under concurrency.  SiteAdd and SiteEdit count the sites   *)
(* of an owner in one statement and insert in a later one, so requests that  *)
(* are served together can all pass the count.  However many requests there  *)
(* are over time, n at once exceed a limit by n - 1 at most: the sites an    *)
(* owner has, together with those that requests in flight may still write    *)
(* for it, are never more.                                                   *)

\* An edit that hands a site to another owner is not counted at all, see
\* PastLimitOnlyByMove.
NoMoves == \A r \in EditRequests : r.user = NoUser

LimitOf(u, root) == IF root THEN Limit[u].roots ELSE Limit[u].subs

Owned(ss, u, root) ==
    {d \in Domains : ss[d].owner = u /\ (ss[d].parent = NoDomain <=> root)}

\* A call that may write a root site, or a subdomain, of u without any further
\* check of the limit: it has passed it, or it writes what it read.
Claims(c, u, root) ==
    /\ c.user = u
    /\ c.parent = NoDomain <=> root
    /\ \/ c.pc \in {"lookup", "upsert", "esave"}
       \/ c.pc = "echeck" /\ (c.old = NoDomain <=> root)

Claimed(cs, u, root) ==
    {d \in Domains : \E w \in Workers : cs[w].dom = d /\ Claims(cs[w], u, root)}

Held(ss, cs, u, root) == Owned(ss, u, root) \cup Claimed(cs, u, root)

\* An edit that does not set the parent writes the one it read.
KeepsParent(c) == c.pc = "echeck" /\ ~c.set => c.parent = c.old

Within(u, root) ==
    LimitOf(u, root) # -1 =>
        Cardinality(Held(sites, calls, u, root))
            <= LimitOf(u, root) + Cardinality(Workers) - 1

LimitInv ==
    /\ \A w \in Workers : KeepsParent(calls[w])
    /\ \A u \in Users : \A root \in BOOLEAN : Within(u, root)

-----------------------------------------------------------------------------
(* Counting *)

LEMMA HeldFinite ==
  ASSUME NEW ss, NEW cs, NEW u, NEW root
  PROVE  /\ IsFiniteSet(Owned(ss, u, root))
         /\ IsFiniteSet(Claimed(cs, u, root))
         /\ IsFiniteSet(Held(ss, cs, u, root))
         /\ Cardinality(Owned(ss, u, root)) \in Nat
         /\ Cardinality(Claimed(cs, u, root)) \in Nat
         /\ Cardinality(Held(ss, cs, u, root)) \in Nat
         /\ Cardinality(Workers) \in Nat
  <1>1. /\ Owned(ss, u, root) \in SUBSET Domains
        /\ Claimed(cs, u, root) \in SUBSET Domains
        /\ Held(ss, cs, u, root) \in SUBSET Domains
    BY DEF Owned, Claimed, Held
  <1>2. IsFiniteSet(Domains) /\ IsFiniteSet(Workers)
    BY SitesAssumption
  <1>3. /\ IsFiniteSet(Owned(ss, u, root))
        /\ IsFiniteSet(Claimed(cs, u, root))
        /\ IsFiniteSet(Held(ss, cs, u, root))
    BY <1>1, <1>2, FS_Subset
  <1>4. QED
    BY <1>2, <1>3, FS_CardinalityType

\* Each worker claims one site at most.
LEMMA ClaimedBound ==
  ASSUME NEW cs, NEW u, NEW root
  PROVE  Cardinality(Claimed(cs, u, root)) <= Cardinality(Workers)
  <1> DEFINE C == Claimed(cs, u, root)
             of == [d \in C |-> CHOOSE w \in Workers :
                                   cs[w].dom = d /\ Claims(cs[w], u, root)]
  <1>1. \A d \in C : of[d] \in Workers /\ cs[of[d]].dom = d
    BY DEF Claimed
  <1>2. of \in [C -> Workers]
    BY <1>1
  <1>3. \A d, e \in C : of[d] = of[e] => d = e
    BY <1>1
  <1>4. of \in Injection(C, Workers)
    <2> HIDE DEF of, C
    <2>1. QED
      BY <1>2, <1>3 DEF Injection, IsInjective
  <1>5. QED
    <2> HIDE DEF of, C
    <2>1. Cardinality(C) <= Cardinality(Workers)
      BY <1>4, SitesAssumption, FS_Injection
    <2>2. QED
      BY <2>1 DEF C

\* A step after which no more is held keeps the bound.
LEMMA HeldShrinks ==
  ASSUME NEW u \in Users, NEW root \in BOOLEAN, Within(u, root),
         Held(sites', calls', u, root) \subseteq Held(sites, calls, u, root)
  PROVE  Within(u, root)'
  <1>1. Cardinality(Held(sites', calls', u, root))
          <= Cardinality(Held(sites, calls, u, root))
    BY HeldFinite, FS_Subset
  <1>2. LimitOf(u, root) # -1 => LimitOf(u, root) \in Nat
    BY SitesAssumption DEF LimitOf, Limits
  <1>3. QED
    BY <1>1, <1>2, HeldFinite DEF Within

\* So does a step of a worker that counted the sites and found room.
LEMMA RoomBound ==
  ASSUME NEW u \in Users, NEW root \in BOOLEAN,
         LimitOf(u, root) # -1 =>
             Cardinality(Owned(sites, u, root)) < LimitOf(u, root),
         UNCHANGED sites
  PROVE  Within(u, root)'
  <1>1. SUFFICES ASSUME LimitOf(u, root) # -1
                 PROVE  Cardinality(Held(sites, calls', u, root))
                          <= LimitOf(u, root) + Cardinality(Workers) - 1
    BY DEF Within
  <1> DEFINE O == Owned(sites, u, root)
             C == Claimed(calls', u, root)
  <1>2. LimitOf(u, root) \in Nat
    BY <1>1, SitesAssumption DEF LimitOf, Limits
  <1>3. IsFiniteSet(O) /\ IsFiniteSet(C)
    BY HeldFinite
  <1>4. Cardinality(O \cup C) = Cardinality(O) + Cardinality(C) - Cardinality(O \cap C)
    <2> HIDE DEF O, C
    <2>1. QED
      BY <1>3, FS_Union
  <1>5. Cardinality(O \cap C) \in Nat
    <2> HIDE DEF O, C
    <2>1. QED
      BY <1>3, FS_Intersection, FS_CardinalityType
  <1>6. Cardinality(C) <= Cardinality(Workers)
    BY ClaimedBound
  <1>7. QED
    BY <1>1, <1>2, <1>4, <1>5, <1>6, HeldFinite DEF Held

-----------------------------------------------------------------------------
(* Steps *)

Claiming == {"lookup", "upsert", "esave", "echeck"}

\* The step leaves worker w without a claim.
Released(w) ==
    \E c : calls' = [calls EXCEPT ![w] = c] /\ c.pc \notin Claiming

\* A step of one worker that neither writes a site nor claims one that was not
\* held before.
LEMMA StepHolds ==
  ASSUME CallsTyped, NEW w \in Workers, NEW c,
         calls' = [calls EXCEPT ![w] = c],
         NEW u \in Users, NEW root \in BOOLEAN, Within(u, root),
         c.dom \in Domains /\ Claims(c, u, root)
             => c.dom \in Held(sites, calls, u, root),
         Owned(sites', u, root) \subseteq Held(sites, calls, u, root)
  PROVE  Within(u, root)'
  <1>1. \A v \in Workers : calls'[v] = IF v = w THEN c ELSE calls[v]
    BY DEF CallsTyped
  <1>2. Claimed(calls', u, root) \subseteq Held(sites, calls, u, root)
    <2> SUFFICES ASSUME NEW d \in Domains, NEW v \in Workers,
                        calls'[v].dom = d, Claims(calls'[v], u, root)
                 PROVE  d \in Held(sites, calls, u, root)
      BY DEF Claimed
    <2>1. CASE v = w
      BY <1>1, <2>1
    <2>2. CASE v # w
      <3>1. calls[v].dom = d /\ Claims(calls[v], u, root)
        BY <1>1, <2>2
      <3>2. QED
        BY <3>1 DEF Held, Claimed
    <2>3. QED
      BY <2>1, <2>2
  <1>3. Held(sites', calls', u, root) \subseteq Held(sites, calls, u, root)
    BY <1>2 DEF Held
  <1>4. QED
    BY <1>3, HeldShrinks

LEMMA KeepsParentStep ==
  ASSUME CallsTyped, LimitInv, NEW w \in Workers, NEW c, KeepsParent(c),
         calls' = [calls EXCEPT ![w] = c]
  PROVE  \A v \in Workers : KeepsParent(calls'[v])
  <1>1. \A v \in Workers : calls'[v] = IF v = w THEN c ELSE calls[v]
    BY DEF CallsTyped
  <1>2. QED
    BY <1>1 DEF LimitInv

LEMMA ReleasedHolds ==
  ASSUME CallsTyped, LimitInv, NEW w \in Workers, Released(w),
         \A u \in Users : \A root \in BOOLEAN :
             Owned(sites', u, root) \subseteq Held(sites, calls, u, root)
  PROVE  LimitInv'
  <1>1. PICK c : calls' = [calls EXCEPT ![w] = c] /\ c.pc \notin Claiming
    BY DEF Released
  <1>2. KeepsParent(c) /\ \A u, root : ~Claims(c, u, root)
    BY <1>1 DEF KeepsParent, Claims, Claiming
  <1>3. \A v \in Workers : KeepsParent(calls'[v])
    BY <1>1, <1>2, KeepsParentStep
  <1>4. ASSUME NEW u \in Users, NEW root \in BOOLEAN PROVE Within(u, root)'
    BY <1>1, <1>2, StepHolds DEF LimitInv
  <1>5. QED
    BY <1>3, <1>4 DEF LimitInv

\* What happens to the rows: nothing, one is removed, or one is written that
\* the worker claimed.
LEMMA SameRows ==
  ASSUME UNCHANGED sites, NEW u, NEW root
  PROVE  Owned(sites', u, root) \subseteq Held(sites, calls, u, root)
  BY DEF Held

LEMMA RemovedRow ==
  ASSUME TypeOK, NEW d, sites' = [sites EXCEPT ![d] = NoSite],
         NEW u \in Users, NEW root
  PROVE  Owned(sites', u, root) \subseteq Held(sites, calls, u, root)
  <1>1. \A e \in Domains : sites'[e] = IF e = d THEN NoSite ELSE sites[e]
    BY DEF TypeOK
  <1>2. NoSite.owner # u
    BY SitesAssumption DEF NoSite
  <1>3. QED
    BY <1>1, <1>2 DEF Held, Owned

LEMMA WrittenRow ==
  ASSUME TypeOK, NEW w \in Workers, calls[w].pc \in {"upsert", "esave"},
         sites' = [sites EXCEPT ![calls[w].dom] =
                      [owner |-> calls[w].user, parent |-> calls[w].parent]],
         NEW u \in Users, NEW root \in BOOLEAN
  PROVE  Owned(sites', u, root) \subseteq Held(sites, calls, u, root)
  <1> DEFINE r == [owner |-> calls[w].user, parent |-> calls[w].parent]
  <1> SUFFICES ASSUME NEW d \in Domains, sites'[d].owner = u,
                      sites'[d].parent = NoDomain <=> root
               PROVE  d \in Held(sites, calls, u, root)
    BY DEF Owned
  <1>1. CASE d = calls[w].dom
    <2>1. sites'[d] = r
      BY <1>1 DEF TypeOK
    <2>2. Claims(calls[w], u, root)
      BY <2>1 DEF Claims
    <2>3. QED
      BY <1>1, <2>2 DEF Held, Claimed
  <1>2. CASE d # calls[w].dom
    <2>1. sites'[d] = sites[d]
      BY <1>2 DEF TypeOK
    <2>2. QED
      BY <2>1 DEF Held, Owned
  <1>3. QED
    BY <1>1, <1>2

LEMMA GotoReleases ==
  ASSUME CallsTyped, NEW w \in Workers, NEW s, s \notin Claiming, Goto(w, s)
  PROVE  Released(w)
  <1> DEFINE c == [calls[w] EXCEPT !.pc = s]
  <1>1. calls' = [calls EXCEPT ![w] = c]
    BY DEF Goto
  <1>2. c.pc = s
    BY DEF CallsTyped, Call
  <1>3. QED
    BY <1>1, <1>2 DEF Released

LEMMA FinishReleases ==
  ASSUME CallsTyped, NEW w \in Workers, NEW ok, Finish(w, ok)
  PROVE  Released(w)
  <1> DEFINE c == [calls[w] EXCEPT !.pc = "done", !.ok = ok]
  <1>1. calls' = [calls EXCEPT ![w] = c]
    BY DEF Finish
  <1>2. c.pc \notin Claiming
    BY DEF CallsTyped, Call, Claiming
  <1>3. QED
    BY <1>1, <1>2 DEF Released

LEMMA RestoreReleases ==
  ASSUME CallsTyped, NEW w \in Workers, Restore(w)
  PROVE  Released(w)
  <1> DEFINE c == [calls[w] EXCEPT !.pc = FirstStep(calls[w], "restore"),
                                   !.phase = "restore"]
  <1>1. CASE DnsEnabled
    <2>1. calls' = [calls EXCEPT ![w] = c]
      BY <1>1 DEF Restore
    <2>2. c.pc \notin Claiming
      BY DEF CallsTyped, Call, Claiming, FirstStep
    <2>3. QED
      BY <2>1, <2>2 DEF Released
  <1>2. CASE ~DnsEnabled
    BY <1>2, FinishReleases DEF Restore
  <1>3. QED
    BY <1>1, <1>2

LEMMA ProviderReleases ==
  ASSUME CallsTyped, NEW w \in Workers, ProviderReturns(w) \/ ProviderErrs(w)
  PROVE  Released(w)
  BY GotoReleases, FinishReleases DEF ProviderReturns, ProviderErrs, Claiming

-----------------------------------------------------------------------------
(* The steps that claim *)

LEMMA SiteEditHolds ==
  ASSUME NoMoves, TypeInv, LimitInv, NEW w \in Workers, SiteEdit(w)
  PROVE  LimitInv'
  <1> DEFINE Read(r) ==
               [NoCall EXCEPT
                  !.pc = "echeck", !.phase = "edit", !.dom = r.dom, !.set = r.set,
                  !.user = IF r.user = NoUser THEN sites[r.dom].owner ELSE r.user,
                  !.old = sites[r.dom].parent,
                  !.parent = IF r.set THEN r.parent ELSE sites[r.dom].parent]
  <1>1. PICK r \in EditRequests : calls' = [calls EXCEPT ![w] = Read(r)]
    BY DEF SiteEdit
  <1> DEFINE c == Read(r)
  <1>2. r.user = NoUser /\ r.dom \in Domains /\ r.set \in BOOLEAN
    BY SitesAssumption DEF NoMoves
  <1>3. /\ c.pc = "echeck" /\ c.dom = r.dom /\ c.user = sites[r.dom].owner
        /\ c.old = sites[r.dom].parent /\ c.set = r.set
        /\ ~r.set => c.parent = c.old
    BY <1>2 DEF NoCall
  <1> HIDE DEF c
  <1>4. \A v \in Workers : KeepsParent(calls'[v])
    BY <1>1, <1>3, KeepsParentStep DEF TypeInv, KeepsParent, c
  <1>5. ASSUME NEW u \in Users, NEW root \in BOOLEAN PROVE Within(u, root)'
    <2>1. Claims(c, u, root) => c.dom \in Held(sites, calls, u, root)
      BY <1>2, <1>3 DEF Claims, Held, Owned
    <2>2. Owned(sites', u, root) \subseteq Held(sites, calls, u, root)
      BY SameRows DEF SiteEdit
    <2>3. QED
      BY <1>1, <2>1, <2>2, StepHolds DEF TypeInv, LimitInv, c
  <1>6. QED
    BY <1>4, <1>5 DEF LimitInv

\* A call that goes on with the same user, domain and parents.
LEMMA PassOnHolds ==
  ASSUME TypeInv, LimitInv, NEW w \in Workers, UNCHANGED sites, NEW c,
         calls' = [calls EXCEPT ![w] = c], c.pc # "echeck",
         c.dom = calls[w].dom,
         NEW u \in Users, NEW root \in BOOLEAN,
         Claims(c, u, root) => \/ Claims(calls[w], u, root)
                              \/ HasRoom(u, c.parent)
  PROVE  Within(u, root)'
  <1>1. CASE Claims(c, u, root) => Claims(calls[w], u, root)
    <2>1. c.dom \in Domains /\ Claims(c, u, root)
              => c.dom \in Held(sites, calls, u, root)
      BY <1>1 DEF Held, Claimed
    <2>2. Owned(sites', u, root) \subseteq Held(sites, calls, u, root)
      BY SameRows
    <2>3. QED
      BY <2>1, <2>2, StepHolds DEF TypeInv, LimitInv
  <1>2. CASE Claims(c, u, root) /\ HasRoom(u, c.parent)
    <2>1. c.parent = NoDomain <=> root
      BY <1>2 DEF Claims
    <2>2. Owned(sites, u, root) = IF root THEN RootsOf(u) ELSE SubsOf(u)
      BY DEF Owned, RootsOf, SubsOf
    <2>3. LimitOf(u, root) # -1 =>
              Cardinality(Owned(sites, u, root)) < LimitOf(u, root)
      BY <1>2, <2>1, <2>2 DEF HasRoom, Room, LimitOf
    <2>4. QED
      BY <2>3, RoomBound
  <1>3. QED
    BY <1>1, <1>2

LEMMA CheckLimitHolds ==
  ASSUME TypeInv, LimitInv, NEW w \in Workers, CheckLimit(w)
  PROVE  LimitInv'
  <1> DEFINE c == [calls[w] EXCEPT !.pc = "lookup"]
  <1>1. UNCHANGED sites
    BY DEF CheckLimit
  <1>2. CASE HasRoom(calls[w].user, calls[w].parent)
    <2>1. calls' = [calls EXCEPT ![w] = c]
      BY <1>2 DEF CheckLimit, Goto
    <2>2. /\ c.pc = "lookup" /\ c.dom = calls[w].dom
          /\ c.user = calls[w].user /\ c.parent = calls[w].parent
      BY DEF TypeInv, CallsTyped, Call
    <2> HIDE DEF c
    <2>3. \A v \in Workers : KeepsParent(calls'[v])
      BY <2>1, <2>2, KeepsParentStep DEF TypeInv, KeepsParent
    <2>4. ASSUME NEW u \in Users, NEW root \in BOOLEAN PROVE Within(u, root)'
      <3>1. Claims(c, u, root) => HasRoom(u, c.parent)
        BY <1>2, <2>2 DEF Claims
      <3>2. QED
        BY <1>1, <2>1, <2>2, <3>1, PassOnHolds
    <2>5. QED
      BY <2>3, <2>4 DEF LimitInv
  <1>3. CASE ~HasRoom(calls[w].user, calls[w].parent)
    BY <1>1, <1>3, FinishReleases, ReleasedHolds, SameRows DEF CheckLimit, TypeInv
  <1>4. QED
    BY <1>2, <1>3

LEMMA LookUpHolds ==
  ASSUME TypeInv, LimitInv, NEW w \in Workers, LookUp(w)
  PROVE  LimitInv'
  <1> DEFINE c == [calls[w] EXCEPT !.pc = "upsert",
                                   !.created = ~Exists(calls[w].dom)]
  <1>1. calls' = [calls EXCEPT ![w] = c] /\ UNCHANGED sites
    BY DEF LookUp
  <1>2. /\ c.pc = "upsert" /\ c.dom = calls[w].dom /\ c.user = calls[w].user
        /\ c.parent = calls[w].parent
    BY DEF TypeInv, CallsTyped, Call
  <1> HIDE DEF c
  <1>3. \A v \in Workers : KeepsParent(calls'[v])
    BY <1>1, <1>2, KeepsParentStep DEF TypeInv, KeepsParent
  <1>4. ASSUME NEW u \in Users, NEW root \in BOOLEAN PROVE Within(u, root)'
    <2>1. Claims(c, u, root) => Claims(calls[w], u, root)
      BY <1>2 DEF Claims, LookUp, At
    <2>2. QED
      BY <1>1, <1>2, <2>1, PassOnHolds
  <1>5. QED
    BY <1>3, <1>4 DEF LimitInv

\* The edit that changes the kind of its site was counted, and the one that does
\* not holds the site it read.
LEMMA CheckEditHolds ==
  ASSUME TypeInv, LimitInv, NEW w \in Workers, CheckEdit(w)
  PROVE  LimitInv'
  <1> DEFINE c == [calls[w] EXCEPT !.pc = "esave"]
  <1>1. UNCHANGED sites
    BY DEF CheckEdit
  <1>2. CASE MayEdit(calls[w])
    <2>1. calls' = [calls EXCEPT ![w] = c]
      BY <1>2 DEF CheckEdit, Goto
    <2>2. /\ c.pc = "esave" /\ c.dom = calls[w].dom
          /\ c.user = calls[w].user /\ c.parent = calls[w].parent
      BY DEF TypeInv, CallsTyped, Call
    <2> HIDE DEF c
    <2>3. \A v \in Workers : KeepsParent(calls'[v])
      BY <2>1, <2>2, KeepsParentStep DEF TypeInv, KeepsParent
    <2>4. ASSUME NEW u \in Users, NEW root \in BOOLEAN PROVE Within(u, root)'
      <3>1. KeepsParent(calls[w]) /\ calls[w].pc = "echeck"
        BY DEF LimitInv, CheckEdit, At
      <3>2. CASE (calls[w].parent = NoDomain) = (calls[w].old = NoDomain)
        <4>1. Claims(c, u, root) => Claims(calls[w], u, root)
          BY <2>2, <3>1, <3>2 DEF Claims
        <4>2. QED
          BY <1>1, <2>1, <2>2, <4>1, PassOnHolds
      <3>3. CASE (calls[w].parent = NoDomain) # (calls[w].old = NoDomain)
        <4>1. calls[w].set
          BY <3>1, <3>3 DEF KeepsParent
        <4>2. HasRoom(calls[w].user, calls[w].parent)
          BY <1>2, <3>3, <4>1 DEF MayEdit
        <4>3. Claims(c, u, root) => HasRoom(u, c.parent)
          BY <2>2, <4>2 DEF Claims
        <4>4. QED
          BY <1>1, <2>1, <2>2, <4>3, PassOnHolds
      <3>4. QED
        BY <3>2, <3>3
    <2>5. QED
      BY <2>3, <2>4 DEF LimitInv
  <1>3. CASE ~MayEdit(calls[w])
    BY <1>1, <1>3, FinishReleases, ReleasedHolds, SameRows DEF CheckEdit, TypeInv
  <1>4. QED
    BY <1>2, <1>3

-----------------------------------------------------------------------------
(* Every step *)

LEMMA OtherStepHolds ==
  ASSUME TypeInv, LimitInv, NEW w \in Workers,
         \/ SiteAdd(w) \/ SiteDelete(w) \/ Upsert(w) \/ Compensate(w)
         \/ SaveEdit(w) \/ CheckDependents(w) \/ RemoveVhost(w)
         \/ DeleteRow(w) \/ ProviderStep(w) \/ Return(w) \/ Failure(w)
  PROVE  LimitInv'
  <1> USE DEF TypeInv
  <1>1. ASSUME NEW s PROVE FirstStep(calls[w], s) \notin Claiming
    BY DEF FirstStep, Claiming
  <1>2. /\ NoCall.pc \notin Claiming
        /\ \A s : [NoCall EXCEPT !.pc = s].pc = s
    BY DEF NoCall, Claiming
  <1>3. Released(w)
    <2>1. CASE SiteAdd(w)
      <3>1. PICK r \in AddRequests :
              LET c == [NoCall EXCEPT !.user = r.user, !.dom = r.dom,
                                      !.parent = r.parent]
              IN  calls' = [calls EXCEPT ![w] =
                      IF ValidParent(r.user, r.dom, r.parent)
                      THEN [c EXCEPT !.pc = "limit"]
                      ELSE [c EXCEPT !.pc = "done"]]
        BY <2>1 DEF SiteAdd
      <3> DEFINE c == [NoCall EXCEPT !.user = r.user, !.dom = r.dom,
                                     !.parent = r.parent]
                 d == IF ValidParent(r.user, r.dom, r.parent)
                      THEN [c EXCEPT !.pc = "limit"] ELSE [c EXCEPT !.pc = "done"]
      <3>2. d.pc \in {"limit", "done"}
        BY DEF NoCall
      <3>3. calls' = [calls EXCEPT ![w] = d]
        BY <3>1
      <3>4. QED
        BY <3>2, <3>3 DEF Released, Claiming
    <2>2. CASE SiteDelete(w)
      <3> DEFINE c(d) == [NoCall EXCEPT !.phase = "delete", !.dom = d,
                                        !.parent = sites[d].parent]
                 Started(d) == [c(d) EXCEPT !.pc =
                        IF ~DnsEnabled THEN "vhost"
                        ELSE IF IsRoot(c(d)) THEN "dependents"
                        ELSE FirstStep(c(d), "delete")]
      <3>1. PICK d \in Deletable : calls' = [calls EXCEPT ![w] = Started(d)]
        BY <2>2 DEF SiteDelete
      <3>2. Started(d).pc \notin Claiming
        BY DEF NoCall, FirstStep, Claiming
      <3>3. QED
        BY <3>1, <3>2 DEF Released
    <2>3. CASE Upsert(w) \/ CheckDependents(w)
      BY <1>1, <2>3, GotoReleases, FinishReleases DEF Upsert, CheckDependents
    <2>4. CASE Compensate(w) \/ SaveEdit(w) \/ RemoveVhost(w) \/ DeleteRow(w)
      BY <2>4, GotoReleases, FinishReleases, RestoreReleases
         DEF Compensate, SaveEdit, RemoveVhost, DeleteRow, Claiming
    <2>5. CASE ProviderStep(w)
      <3>1. CASE LoadZone(w)
        <4> DEFINE c == [calls[w] EXCEPT !.pc = "zwrite",
                                         !.buf = zone[ZoneOf(calls[w])]]
        <4>1. CASE calls' = [calls EXCEPT ![w] = c]
          <5>1. c.pc = "zwrite"
            BY DEF CallsTyped, Call
          <5>2. QED
            BY <4>1, <5>1 DEF Released, Claiming
        <4>2. CASE ProviderErrs(w) \/ ProviderReturns(w)
          BY <4>2, ProviderReleases
        <4>3. QED
          BY <3>1, <4>1, <4>2 DEF LoadZone
      <3>2. CASE ListZones(w)
        <4> DEFINE c == [calls[w] EXCEPT !.pc = "include",
                                  !.list = {z \in Domains : zone[z] # {}}]
        <4>1. calls' = [calls EXCEPT ![w] = c]
          BY <3>2 DEF ListZones
        <4>2. c.pc = "include"
          BY DEF CallsTyped, Call
        <4>3. QED
          BY <4>1, <4>2 DEF Released, Claiming
      <3>3. CASE WriteZone(w) \/ CheckZone(w) \/ RemoveZone(w) \/ WriteInclude(w)
                 \/ Reconfig(w) \/ Reload(w)
        BY <3>3, GotoReleases, ProviderReleases
           DEF WriteZone, CheckZone, RemoveZone, WriteInclude, Reconfig, Reload,
               Claiming
      <3>4. QED
        BY <2>5, <3>1, <3>2, <3>3 DEF ProviderStep
    <2>6. CASE Return(w) \/ Crash(w)
      BY <1>2, <2>6 DEF Return, Crash, Released
    <2>7. CASE ProviderFails(w) \/ RndcTimesOut(w) \/ VhostFails(w) \/ DbFails(w)
      BY <2>7, ProviderReleases, FinishReleases, RestoreReleases
         DEF ProviderFails, RndcTimesOut, VhostFails, DbFails
    <2>8. QED
      BY <2>1, <2>2, <2>3, <2>4, <2>5, <2>6, <2>7 DEF Failure
  <1>4. ASSUME NEW u \in Users, NEW root \in BOOLEAN
        PROVE  Owned(sites', u, root) \subseteq Held(sites, calls, u, root)
    <2>1. CASE Upsert(w) \/ SaveEdit(w)
      BY <2>1, WrittenRow DEF Upsert, SaveEdit, At
    <2>2. CASE Compensate(w) \/ DeleteRow(w)
      BY <2>2, SameRows, RemovedRow DEF Compensate, DeleteRow
    <2>3. CASE \/ SiteAdd(w) \/ SiteDelete(w) \/ CheckDependents(w)
               \/ RemoveVhost(w) \/ ProviderStep(w) \/ Return(w) \/ Failure(w)
      <3>1. UNCHANGED sites
        BY <2>3 DEF SiteAdd, SiteDelete, CheckDependents, RemoveVhost, ProviderStep,
             LoadZone, WriteZone, CheckZone, RemoveZone, ListZones, WriteInclude,
             Reconfig, Reload, Return, Failure, ProviderFails, RndcTimesOut,
             VhostFails, DbFails, Crash
      <3>2. QED
        BY <3>1, SameRows
    <2>4. QED
      BY <2>1, <2>2, <2>3
  <1>5. QED
    BY <1>3, <1>4, ReleasedHolds

LEMMA LimitStep ==
  ASSUME NoMoves, TypeInv, LimitInv, [Next]_vars
  PROVE  LimitInv'
  <1>1. CASE UNCHANGED vars \/ NamedRestart
    <2>1. UNCHANGED <<sites, calls>>
      BY <1>1 DEF vars, NamedRestart
    <2>2. QED
      BY <2>1 DEF LimitInv, Within
  <1>2. ASSUME NEW w \in Workers, Request(w) \/ Step(w) \/ Failure(w)
        PROVE  LimitInv'
    BY <1>2, SiteEditHolds, CheckLimitHolds, LookUpHolds, CheckEditHolds,
       OtherStepHolds DEF Request, Step
  <1>3. QED
    BY <1>1, <1>2 DEF Next

LEMMA InitLimit == Init => LimitInv
  <1> SUFFICES ASSUME Init PROVE LimitInv
    OBVIOUS
  <1>1. ASSUME NEW w \in Workers PROVE KeepsParent(calls[w])
    BY DEF Init, NoCall, KeepsParent
  <1>2. ASSUME NEW u \in Users, NEW root \in BOOLEAN PROVE Within(u, root)
    <2>1. Owned(sites, u, root) = {}
      BY SitesAssumption DEF Init, NoSite, Owned
    <2>2. Claimed(calls, u, root) = {}
      BY DEF Init, NoCall, Claims, Claimed
    <2>3. Cardinality(Held(sites, calls, u, root)) = 0
      BY <2>1, <2>2, FS_EmptySet DEF Held
    <2>4. Cardinality(Workers) \in Nat \ {0}
      BY SitesAssumption, FS_CardinalityType, FS_EmptySet
    <2>5. LimitOf(u, root) # -1 => LimitOf(u, root) \in Nat
      BY SitesAssumption DEF LimitOf, Limits
    <2>6. QED
      BY <2>3, <2>4, <2>5 DEF Within
  <1>3. QED
    BY <1>1, <1>2 DEF LimitInv

\* What requests in flight may still write counts as held already: with the
\* sites an owner has it never passes a limit by more than the number of
\* requests served at once, less one.
THEOREM LimitInvariant == NoMoves => (Spec => []LimitInv)
  <1> SUFFICES ASSUME NoMoves PROVE Spec => []LimitInv
    OBVIOUS
  <1>1. TypeInv /\ LimitInv /\ [Next]_vars => LimitInv'
    BY LimitStep
  <1>2. QED
    BY <1>1, InitLimit, TypeInvariant, PTL DEF Spec

\* n requests served at the same time exceed the limits of a package by n - 1
\* sites at most, with and without DNS and whatever fails, as long as edits
\* leave sites with their owners.
THEOREM LimitsBounded == NoMoves => (Spec => []OvershootBounded)
  <1> SUFFICES ASSUME NoMoves PROVE Spec => []OvershootBounded
    OBVIOUS
  <1>1. LimitInv => OvershootBounded
    <2> SUFFICES ASSUME LimitInv, NEW u \in Users
                 PROVE  LET slack == Cardinality(Workers) - 1
                        IN  /\ ~Past(Limit[u].roots, Cardinality(RootsOf(u)) - slack)
                            /\ ~Past(Limit[u].subs, Cardinality(SubsOf(u)) - slack)
      BY DEF OvershootBounded
    <2>1. ASSUME NEW root \in BOOLEAN, LimitOf(u, root) # -1
          PROVE  Cardinality(Owned(sites, u, root))
                   <= LimitOf(u, root) + Cardinality(Workers) - 1
      <3>1. Cardinality(Owned(sites, u, root))
              <= Cardinality(Held(sites, calls, u, root))
        BY HeldFinite, FS_Subset DEF Held
      <3>2. LimitOf(u, root) \in Nat
        BY <2>1, SitesAssumption DEF LimitOf, Limits
      <3>3. QED
        BY <2>1, <3>1, <3>2, HeldFinite DEF LimitInv, Within
    <2>2. Owned(sites, u, TRUE) = RootsOf(u) /\ Owned(sites, u, FALSE) = SubsOf(u)
      BY DEF Owned, RootsOf, SubsOf
    <2>3. /\ Cardinality(RootsOf(u)) \in Nat /\ Cardinality(SubsOf(u)) \in Nat
          /\ Cardinality(Workers) \in Nat
      BY <2>2, HeldFinite
    <2>4. LimitOf(u, TRUE) = Limit[u].roots /\ LimitOf(u, FALSE) = Limit[u].subs
      BY DEF LimitOf
    <2>5. Limit[u].roots \in Int /\ Limit[u].subs \in Int
      BY SitesAssumption DEF Limits
    <2>6. /\ Limit[u].roots # -1 => Cardinality(RootsOf(u))
                 <= Limit[u].roots + Cardinality(Workers) - 1
          /\ Limit[u].subs # -1 => Cardinality(SubsOf(u))
                 <= Limit[u].subs + Cardinality(Workers) - 1
      BY <2>1, <2>2, <2>4
    <2>7. QED
      BY <2>3, <2>5, <2>6 DEF Past
  <1>2. QED
    BY <1>1, LimitInvariant, PTL
=============================================================================
