---------------------------- MODULE NgmHostProofs ----------------------------
(***************************************************************************)
(* Theorems about pools, certificates, vhosts and provisioning, for any    *)
(* number of sites, PHP versions and concurrent requests, and for every    *)
(* bound on requests and events.                                           *)
(***************************************************************************)
EXTENDS NgmHost, TLAPS

-----------------------------------------------------------------------------
(* Types, and what the steps of a request do to its record *)

AtOneSite(S) == \E d \in Domains : S = {d}

\* Which sites a call is at: the alias, certbot certonly and its check concern
\* one site, a renewal one site or all of them.
SitesOf(c) ==
    /\ c.pc \in {"alias", "clear", "link", "decide", "verify"} => AtOneSite(c.S)
    /\ c.kind = "issue" => AtOneSite(c.S) /\ c.pc # "idle"
    /\ c.pc = "certbot" => AtOneSite(c.S) \/ c.S = Domains
    /\ c.todo \subseteq c.S

TypeInv == TypeOK /\ \A w \in Workers : SitesOf(call[w])

\* r is c up to who was at its sites meanwhile.
Stays(r, c) ==
    /\ r.kind = c.kind /\ r.pc = c.pc /\ r.then = c.then /\ r.S = c.S
    /\ r.todo = c.todo /\ r.changed = c.changed /\ r.before = c.before
    /\ r.failed = c.failed

\* r is c at another place.
Moves(r, c) ==
    /\ r.kind = c.kind /\ r.S = c.S /\ r.todo = c.todo
    /\ r.changed = c.changed /\ r.before = c.before /\ r.failed = c.failed
    /\ r.company = c.company

LEMMA NoCallType == NoCall \in Call /\ SitesOf(NoCall)
  BY DEF NoCall, Call, SitesOf

LEMMA NoCallFields ==
  /\ NoCall.kind = "none" /\ NoCall.pc = "idle" /\ NoCall.S = {}
  /\ NoCall.before = [d \in Domains |-> NoVhost]
  BY DEF NoCall

LEMMA CallType ==
  ASSUME TypeInv, NEW w \in Workers
  PROVE  call[w] \in Call /\ SitesOf(call[w])
  BY DEF TypeInv, TypeOK

LEMMA MarkedFields ==
  ASSUME NEW c \in Call, NEW k \in {"requests", "changes"}
  PROVE  /\ [c EXCEPT !.company = k] \in Call
         /\ Stays([c EXCEPT !.company = k], c)
         /\ [c EXCEPT !.company = k].company = k
  BY DEF Call, Stays

LEMMA StaysSites ==
  ASSUME NEW c, NEW r, Stays(r, c), SitesOf(c)
  PROVE  SitesOf(r)
  BY DEF Stays, SitesOf

\* The record of another call after a step at the sites of T.
Marked(r, c, T) ==
    /\ Stays(r, c)
    /\ c.company # "none" => r.company = c.company
    /\ c.S \cap T = {} => r.company = c.company
    /\ c.S \cap T # {} => r.company # "none"

LEMMA StaysSelf == \A c : Stays(c, c)
  BY DEF Stays

LEMMA ContinuesEffect ==
  ASSUME TypeInv, NEW w \in Workers, NEW c, NEW T, Continues(w, c, T)
  PROVE  /\ call'[w] = c
         /\ \A x \in Workers : x # w => /\ call'[x] \in Call
                                        /\ Marked(call'[x], call[x], T)
  <1>1. call'[w] = c
    BY DEF Continues
  <1>2. ASSUME NEW x \in Workers, x # w
        PROVE  call'[x] \in Call /\ Marked(call'[x], call[x], T)
    <2>1. call[x] \in Call
      BY CallType
    <2>2. CASE call[x].S \cap T # {} /\ call[x].company = "none"
      <3>1. call'[x] = [call[x] EXCEPT !.company = "requests"]
        BY <1>2, <2>2 DEF Continues
      <3>2. QED
        BY <2>1, <2>2, <3>1, MarkedFields DEF Marked
    <2>3. CASE ~(call[x].S \cap T # {} /\ call[x].company = "none")
      <3>1. call'[x] = call[x]
        BY <1>2, <2>3 DEF Continues
      <3>2. QED
        BY <2>1, <2>3, <3>1, StaysSelf DEF Marked
    <2>4. QED
      BY <2>2, <2>3
  <1>3. QED
    BY <1>1, <1>2

LEMMA ContinuesType ==
  ASSUME TypeInv, NEW w \in Workers, NEW c \in Call, SitesOf(c), NEW T,
         Continues(w, c, T)
  PROVE  call' \in [Workers -> Call] /\ \A x \in Workers : SitesOf(call'[x])
  <1>1. call' = [x \in Workers |-> call'[x]]
    BY DEF Continues
  <1>2. \A x \in Workers : call'[x] \in Call /\ SitesOf(call'[x])
    BY ContinuesEffect, CallType, StaysSites DEF Marked
  <1>3. QED
    BY <1>1, <1>2

LEMMA DisturbedEffect ==
  ASSUME TypeInv, NEW d \in Domains, Disturbed(d)
  PROVE  /\ call' \in [Workers -> Call]
         /\ \A x \in Workers : /\ Stays(call'[x], call[x])
                               /\ SitesOf(call'[x])
                               /\ d \in call[x].S => call'[x].company = "changes"
                               /\ d \notin call[x].S =>
                                      call'[x].company = call[x].company
  <1>1. ASSUME NEW x \in Workers
        PROVE  /\ call'[x] \in Call /\ Stays(call'[x], call[x])
               /\ d \in call[x].S => call'[x].company = "changes"
               /\ d \notin call[x].S => call'[x].company = call[x].company
    <2>1. call[x] \in Call
      BY CallType
    <2>2. CASE d \in call[x].S
      <3>1. call'[x] = [call[x] EXCEPT !.company = "changes"]
        BY <2>2 DEF Disturbed
      <3>2. QED
        BY <2>1, <2>2, <3>1, MarkedFields
    <2>3. CASE d \notin call[x].S
      <3>1. call'[x] = call[x]
        BY <2>3 DEF Disturbed
      <3>2. QED
        BY <2>1, <2>3, <3>1, StaysSelf
    <2>4. QED
      BY <2>2, <2>3
  <1>2. call' = [x \in Workers |-> call'[x]]
    BY DEF Disturbed
  <1>3. call' \in [Workers -> Call]
    BY <1>1, <1>2
  <1>4. QED
    BY <1>1, <1>3, CallType, StaysSites

LEMMA SiteOfCall ==
  ASSUME NEW w \in Workers, AtOneSite(call[w].S)
  PROVE  Site(w) \in Domains /\ call[w].S = {Site(w)}
  BY DEF AtOneSite, Site

LEMMA MovesType ==
  ASSUME NEW c \in Call,
         NEW q \in {"idle", "alias", "clear", "link", "decide", "certbot",
                    "verify", "wait", "render"}
  PROVE  LET r == [c EXCEPT !.pc = q] IN
         r \in Call /\ Moves(r, c) /\ r.pc = q
  BY DEF Call, Moves

\* AliasDone: the call is over, or goes on where its caller wants.
Resumes(r, c) ==
    \/ r = NoCall
    \/ r.pc \in {"verify", "decide"} /\ Moves(r, c)

LooksAgain(w) ==
    looked' = IF call[w].company = "changes" THEN looked
              ELSE (looked \cup {Site(w)}) \cap {e \in Domains : alt[e] # 0}

LEMMA AliasDoneEffect ==
  ASSUME TypeInv, NEW w \in Workers, AliasDone(w, Site(w)),
         call[w].pc \in {"alias", "link"}
  PROVE  \E r \in Call : /\ Continues(w, r, {}) /\ SitesOf(r)
                         /\ Resumes(r, call[w]) /\ LooksAgain(w)
  <1> DEFINE c == call[w]
             v == [c EXCEPT !.pc = "verify"]
             g == [c EXCEPT !.pc = "decide"]
             r == CASE c.then = "verify" -> v
                    [] c.kind = "look"   -> NoCall
                    [] OTHER             -> g
  <1>1. c \in Call /\ SitesOf(c) /\ AtOneSite(c.S)
    BY CallType DEF SitesOf
  <1>2. /\ v \in Call /\ Moves(v, c) /\ v.pc = "verify"
        /\ g \in Call /\ Moves(g, c) /\ g.pc = "decide"
    BY <1>1, MovesType
  <1>3. Continues(w, r, {}) /\ LooksAgain(w)
    BY DEF AliasDone, LooksAgain
  <1> HIDE DEF v, g, c
  <1>4. SitesOf(v) /\ SitesOf(g)
    BY <1>1, <1>2 DEF SitesOf, Moves
  <1>5. r \in {v, g, NoCall}
    OBVIOUS
  <1> HIDE DEF r
  <1>6. r \in Call /\ SitesOf(r) /\ Resumes(r, c)
    BY <1>2, <1>4, <1>5, NoCallType DEF Resumes
  <1>7. QED
    BY <1>3, <1>6 DEF c

\* w makes a step at the sites of T: the records stay well-formed, and the
\* other calls notice.
StepOf(w, T) ==
    /\ call' \in [Workers -> Call]
    /\ \A x \in Workers : SitesOf(call'[x])
    /\ \A x \in Workers : x # w => Marked(call'[x], call[x], T)

LEMMA ContinuesStep ==
  ASSUME TypeInv, NEW w \in Workers, NEW c \in Call, SitesOf(c), NEW T,
         Continues(w, c, T)
  PROVE  StepOf(w, T) /\ call'[w] = c
  BY ContinuesEffect, ContinuesType DEF StepOf

LEMMA NoCallStep ==
  ASSUME TypeInv, NEW w \in Workers, NEW T, Continues(w, NoCall, T)
  PROVE  StepOf(w, T) /\ call'[w] = NoCall
  BY NoCallType, ContinuesStep

LEMMA CallOfLook ==
  ASSUME TypeInv, NEW w \in Workers, LookForAlias(w)
  PROVE  LET c == call[w] r == call'[w] d == Site(w) IN
         /\ StepOf(w, {}) /\ c.pc = "alias" /\ c.S = {d} /\ d \in Domains
         /\ \/ NeedsAlias(d) /\ r.pc = "clear" /\ Moves(r, c) /\ looked' = looked
            \/ ~NeedsAlias(d) /\ Resumes(r, c) /\ LooksAgain(w)
  <1> DEFINE c == call[w]
             d == Site(w)
             v == [c EXCEPT !.pc = "clear"]
  <1>1. c \in Call /\ SitesOf(c) /\ c.pc = "alias"
    BY CallType DEF LookForAlias
  <1>2. d \in Domains /\ c.S = {d}
    BY <1>1, SiteOfCall DEF SitesOf
  <1>3. CASE NeedsAlias(d)
    <2>1. Continues(w, v, {}) /\ looked' = looked
      BY <1>3 DEF LookForAlias
    <2>2. v \in Call /\ Moves(v, c) /\ v.pc = "clear"
      BY <1>1, MovesType
    <2> HIDE DEF v
    <2>3. SitesOf(v)
      BY <1>1, <2>2 DEF SitesOf, Moves
    <2>4. QED
      BY <1>1, <1>2, <1>3, <2>1, <2>2, <2>3, ContinuesStep
  <1>4. CASE ~NeedsAlias(d)
    <2>1. AliasDone(w, d)
      BY <1>4 DEF LookForAlias
    <2>2. PICK r \in Call : /\ Continues(w, r, {}) /\ SitesOf(r)
                            /\ Resumes(r, c) /\ LooksAgain(w)
      BY <1>1, <2>1, AliasDoneEffect
    <2>3. QED
      BY <1>1, <1>2, <1>4, <2>2, ContinuesStep
  <1>5. QED
    BY <1>3, <1>4

LEMMA CallOfClear ==
  ASSUME TypeInv, NEW w \in Workers, ClearAlias(w)
  PROVE  LET c == call[w] r == call'[w] d == Site(w) IN
         /\ StepOf(w, {d}) /\ c.pc = "clear" /\ c.S = {d} /\ d \in Domains
         /\ r.pc = "link" /\ Moves(r, c)
  <1> DEFINE c == call[w]
             d == Site(w)
             v == [c EXCEPT !.pc = "link"]
  <1>1. c \in Call /\ SitesOf(c) /\ c.pc = "clear" /\ Continues(w, v, {d})
    BY CallType DEF ClearAlias
  <1>2. d \in Domains /\ c.S = {d}
    BY <1>1, SiteOfCall DEF SitesOf
  <1>3. v \in Call /\ Moves(v, c) /\ v.pc = "link"
    BY <1>1, MovesType
  <1> HIDE DEF v
  <1>4. SitesOf(v)
    BY <1>1, <1>3 DEF SitesOf, Moves
  <1>5. QED
    BY <1>1, <1>2, <1>3, <1>4, ContinuesStep

LEMMA CallOfLink ==
  ASSUME TypeInv, NEW w \in Workers, MakeAlias(w)
  PROVE  LET c == call[w] r == call'[w] d == Site(w) IN
         /\ StepOf(w, {}) /\ c.pc = "link" /\ c.S = {d} /\ d \in Domains
         /\ \/ /\ live[d] = "none" /\ live' = [live EXCEPT ![d] = "link"]
               /\ Resumes(r, c) /\ LooksAgain(w)
            \/ /\ live[d] # "none" /\ live' = live
               /\ Resumes(r, c) /\ LooksAgain(w)
            \/ /\ live[d] # "none" /\ live' = live
               /\ r = NoCall /\ looked' = looked
  <1> DEFINE c == call[w]
             d == Site(w)
  <1>1. c \in Call /\ SitesOf(c) /\ c.pc = "link"
    BY CallType DEF MakeAlias
  <1>2. d \in Domains /\ c.S = {d}
    BY <1>1, SiteOfCall DEF SitesOf
  <1>3. \/ live[d] = "none" /\ live' = [live EXCEPT ![d] = "link"] /\ AliasDone(w, d)
        \/ live[d] # "none" /\ live' = live /\ AliasDone(w, d)
        \/ /\ live[d] # "none" /\ live' = live
           /\ Continues(w, NoCall, {}) /\ looked' = looked
    BY DEF MakeAlias, Symlink
  <1>4. CASE AliasDone(w, d)
    <2>1. PICK r \in Call : /\ Continues(w, r, {}) /\ SitesOf(r)
                            /\ Resumes(r, c) /\ LooksAgain(w)
      BY <1>1, <1>4, AliasDoneEffect
    <2>2. \/ live[d] = "none" /\ live' = [live EXCEPT ![d] = "link"]
          \/ live[d] # "none" /\ live' = live
      BY <1>3
    <2>3. QED
      BY <1>1, <1>2, <2>1, <2>2, ContinuesStep
  <1>5. CASE /\ live[d] # "none" /\ live' = live
             /\ Continues(w, NoCall, {}) /\ looked' = looked
    BY <1>1, <1>2, <1>5, NoCallStep
  <1>6. QED
    BY <1>3, <1>4, <1>5

LEMMA CallOfDecide ==
  ASSUME TypeInv, NEW w \in Workers, DecideIssue(w)
  PROVE  LET c == call[w] r == call'[w] IN
         /\ StepOf(w, {}) /\ c.pc = "decide"
         /\ r = NoCall \/ (r.pc = "certbot" /\ Moves(r, c))
  <1> DEFINE c == call[w]
             v == [c EXCEPT !.pc = "certbot"]
  <1>1. c \in Call /\ SitesOf(c) /\ c.pc = "decide"
    BY CallType DEF DecideIssue
  <1>2. Continues(w, v, {}) \/ Continues(w, NoCall, {})
    BY DEF DecideIssue
  <1>3. v \in Call /\ Moves(v, c) /\ v.pc = "certbot"
    BY <1>1, MovesType
  <1> HIDE DEF v
  <1>4. SitesOf(v)
    BY <1>1, <1>3 DEF SitesOf, Moves
  <1>5. QED
    BY <1>1, <1>2, <1>3, <1>4, ContinuesStep, NoCallStep

LEMMA CallOfCertonly ==
  ASSUME TypeInv, NEW w \in Workers, RunCertonly(w)
  PROVE  LET c == call[w] r == call'[w] d == Site(w) IN
         /\ StepOf(w, {d}) /\ c.pc = "certbot" /\ c.S = {d} /\ d \in Domains
         /\ r = NoCall \/ (r.pc = "alias" /\ Moves(r, c))
         /\ \E ok \in BOOLEAN : Certonly(d, ok)
         /\ looked' = looked \ {d}
  <1> DEFINE c == call[w]
             d == Site(w)
             v == [c EXCEPT !.pc = "alias", !.then = "verify"]
  <1>1. c \in Call /\ SitesOf(c) /\ c.pc = "certbot" /\ c.kind = "issue"
    BY CallType DEF RunCertonly
  <1>2. d \in Domains /\ c.S = {d}
    BY <1>1, SiteOfCall DEF SitesOf
  <1>3. /\ Continues(w, v, {d}) \/ Continues(w, NoCall, {d})
        /\ \E ok \in BOOLEAN : Certonly(d, ok)
        /\ looked' = looked \ {d}
    BY DEF RunCertonly
  <1>4. v \in Call /\ Moves(v, c) /\ v.pc = "alias"
    BY <1>1 DEF Call, Moves
  <1> HIDE DEF v
  <1>5. SitesOf(v)
    BY <1>1, <1>4 DEF SitesOf, Moves
  <1>6. QED
    BY <1>1, <1>2, <1>3, <1>4, <1>5, ContinuesStep, NoCallStep

LEMMA CallOfVerify ==
  ASSUME TypeInv, NEW w \in Workers, VerifyIssued(w)
  PROVE  LET c == call[w] r == call'[w] d == Site(w) IN
         /\ StepOf(w, {}) /\ c.pc = "verify" /\ c.S = {d} /\ d \in Domains
         /\ r = NoCall \/ (LeExists(d) /\ r.pc = "wait" /\ Moves(r, c))
  <1> DEFINE c == call[w]
             d == Site(w)
             v == [c EXCEPT !.pc = "wait"]
  <1>1. c \in Call /\ SitesOf(c) /\ c.pc = "verify"
    BY CallType DEF VerifyIssued
  <1>2. d \in Domains /\ c.S = {d}
    BY <1>1, SiteOfCall DEF SitesOf
  <1>3. (LeExists(d) /\ Continues(w, v, {})) \/ Continues(w, NoCall, {})
    BY DEF VerifyIssued
  <1>4. v \in Call /\ Moves(v, c) /\ v.pc = "wait"
    BY <1>1, MovesType
  <1> HIDE DEF v
  <1>5. SitesOf(v)
    BY <1>1, <1>4 DEF SitesOf, Moves
  <1>6. QED
    BY <1>1, <1>2, <1>3, <1>4, <1>5, ContinuesStep, NoCallStep

LEMMA CallOfRenew ==
  ASSUME TypeInv, NEW w \in Workers, RunRenew(w)
  PROVE  LET c == call[w] r == call'[w] IN
         /\ StepOf(w, c.S) /\ c.pc = "certbot"
         /\ \/ r = NoCall
            \/ /\ r.pc = "wait" /\ r.S = Domains /\ r.kind = "renew"
               /\ r.before = c.before
         /\ \E ok \in BOOLEAN : RenewAll(ok) \/ RenewCert(Site(w), ok)
  <1> DEFINE c == call[w]
             v == [c EXCEPT !.pc = "wait", !.S = Domains]
  <1>1. c \in Call /\ SitesOf(c) /\ c.pc = "certbot" /\ c.kind = "renew"
    BY CallType DEF RunRenew
  <1>2. /\ Continues(w, v, c.S) \/ Continues(w, NoCall, c.S)
        /\ \E ok \in BOOLEAN : RenewAll(ok) \/ RenewCert(Site(w), ok)
    BY DEF RunRenew
  <1>3. /\ v \in Call /\ v.pc = "wait" /\ v.S = Domains /\ v.kind = "renew"
        /\ v.before = c.before
    BY <1>1 DEF Call
  <1>4. v.todo \subseteq Domains
    BY <1>3 DEF Call
  <1> HIDE DEF v
  <1>5. SitesOf(v)
    BY <1>3, <1>4 DEF SitesOf
  <1>6. QED
    BY <1>1, <1>2, <1>3, <1>5, ContinuesStep, NoCallStep

LEMMA CallOfTake ==
  ASSUME TypeInv, NEW w \in Workers, TakeApplyMu(w)
  PROVE  LET c == call[w] r == call'[w] IN
         /\ StepOf(w, {}) /\ c.pc = "wait" /\ ApplyMuFree
         /\ r.pc = "render" /\ r.todo = r.S /\ r.before = vhost
         /\ r.S = c.S /\ r.kind = c.kind /\ r.company = c.company
  <1> DEFINE c == call[w]
             v == [c EXCEPT !.pc = "render", !.todo = c.S, !.before = vhost]
  <1>1. c \in Call /\ SitesOf(c) /\ c.pc = "wait" /\ ApplyMuFree /\ Continues(w, v, {})
    BY CallType DEF TakeApplyMu
  <1>2. vhost \in [Domains -> Vhost \cup {NoVhost}]
    BY DEF TypeInv, TypeOK
  <1>3. /\ v \in Call /\ v.pc = "render" /\ v.todo = v.S /\ v.before = vhost
        /\ v.S = c.S /\ v.kind = c.kind /\ v.company = c.company
    BY <1>1, <1>2 DEF Call
  <1> HIDE DEF v
  <1>4. SitesOf(v)
    BY <1>1, <1>3 DEF SitesOf
  <1>5. QED
    BY <1>1, <1>3, <1>4, ContinuesStep

\* The file of d became f and the call c went on as r.
Renders(r, c, d, f) ==
    /\ r.pc = "render" /\ r.todo = c.todo \ {d}
    /\ r.S = c.S /\ r.kind = c.kind /\ r.company = c.company
    /\ r.before = c.before /\ r.failed = c.failed
    /\ r.changed = IF f = vhost[d] THEN c.changed ELSE c.changed \cup {d}
    /\ vhost' = [vhost EXCEPT ![d] = f]

\* d could not be rendered.
Skips(r, c, d) ==
    /\ r.pc = "render" /\ r.todo = c.todo \ {d}
    /\ r.S = c.S /\ r.kind = c.kind /\ r.company = c.company
    /\ r.before = c.before /\ r.failed = TRUE /\ r.changed = c.changed
    /\ vhost' = vhost

LEMMA PublishedEffect ==
  ASSUME TypeInv, NEW w \in Workers, NEW d \in Domains, NEW f, Taking(w, d),
         Published(w, d, f)
  PROVE  StepOf(w, {}) /\ Renders(call'[w], call[w], d, f)
  <1> DEFINE c == call[w]
             g == IF f = vhost[d] THEN c.changed ELSE c.changed \cup {d}
             v == [c EXCEPT !.todo = c.todo \ {d}, !.changed = g]
  <1>1. /\ c \in Call /\ SitesOf(c) /\ c.pc = "render" /\ d \in c.todo
        /\ vhost' = [vhost EXCEPT ![d] = f]
    BY CallType DEF Taking, Published
  <1>2. v = [c EXCEPT !.todo = @ \ {d},
                      !.changed = IF f = vhost[d] THEN @ ELSE @ \cup {d}]
    BY <1>1 DEF Call
  <1>3. Continues(w, v, {})
    BY <1>2 DEF Published
  <1>4. g \in SUBSET Domains
    BY <1>1 DEF Call
  <1> HIDE DEF g
  <1>5. /\ v \in Call /\ v.pc = c.pc /\ v.todo = c.todo \ {d}
        /\ v.S = c.S /\ v.kind = c.kind /\ v.company = c.company
        /\ v.before = c.before /\ v.failed = c.failed /\ v.changed = g
    BY <1>1, <1>4 DEF Call
  <1> HIDE DEF v
  <1>6. SitesOf(v)
    BY <1>1, <1>5 DEF SitesOf
  <1>7. QED
    BY <1>1, <1>3, <1>5, <1>6, ContinuesStep DEF Renders, g

LEMMA SkipEffect ==
  ASSUME TypeInv, NEW w \in Workers, NEW d \in Domains, Taking(w, d),
         SkipFailed(w, d)
  PROVE  StepOf(w, {}) /\ Skips(call'[w], call[w], d)
  <1> DEFINE c == call[w]
             v == [c EXCEPT !.todo = @ \ {d}, !.failed = TRUE]
  <1>1. /\ c \in Call /\ SitesOf(c) /\ c.pc = "render" /\ d \in c.todo
        /\ vhost' = vhost /\ Continues(w, v, {})
    BY CallType DEF Taking, SkipFailed
  <1>2. /\ v \in Call /\ v.pc = c.pc /\ v.todo = c.todo \ {d}
        /\ v.S = c.S /\ v.kind = c.kind /\ v.company = c.company
        /\ v.before = c.before /\ v.failed = TRUE /\ v.changed = c.changed
    BY <1>1 DEF Call
  <1> HIDE DEF v
  <1>3. SitesOf(v)
    BY <1>1, <1>2 DEF SitesOf
  <1>4. QED
    BY <1>1, <1>2, <1>3, ContinuesStep DEF Skips

LEMMA CallOfRemove ==
  ASSUME TypeInv, NEW w \in Workers, NEW d \in Domains, RemoveSite(w, d)
  PROVE  /\ StepOf(w, {}) /\ call[w].pc = "render" /\ d \in call[w].todo
         /\ site[d] = NoSite /\ Renders(call'[w], call[w], d, NoVhost)
  BY PublishedEffect DEF RemoveSite, Taking

File(v, tls) == [ver |-> v, tls |-> tls]

LEMMA CallOfRender ==
  ASSUME TypeInv, NEW w \in Workers, NEW d \in Domains, RenderSite(w, d)
  PROVE  /\ StepOf(w, {}) /\ call[w].pc = "render" /\ d \in call[w].todo
         /\ site[d] \in Versions
         /\ \/ /\ \E ok \in BOOLEAN : EnsurePool(d, site[d], ok)
               /\ Skips(call'[w], call[w], d)
            \/ /\ EnsurePool(d, site[d], TRUE)
               /\ \E tls \in {"le", "self"} :
                     /\ Renders(call'[w], call[w], d, File(site[d], tls))
                     /\ tls = "le" <=> LeExists(d)
         /\ UNCHANGED <<live, base, alt, runs, due>> /\ selfsigned' \subseteq Domains
  <1>1. Taking(w, d) /\ call[w].pc = "render" /\ d \in call[w].todo
    BY DEF RenderSite, Taking
  <1>2. site[d] \in Versions /\ selfsigned \subseteq Domains
    BY DEF TypeInv, TypeOK, RenderSite, CertsTypeOK
  <1>3. PICK poolOk \in BOOLEAN, certOk \in BOOLEAN, tls \in {"le", "self"} :
           /\ EnsurePool(d, site[d], poolOk)
           /\ IF poolOk THEN ChooseCert(d, tls, certOk)
              ELSE ~certOk /\ tls = "self" /\ UNCHANGED certVars
           /\ IF poolOk /\ certOk
              THEN Published(w, d, [ver |-> site[d], tls |-> tls])
              ELSE SkipFailed(w, d)
    BY DEF RenderSite
  <1>4. UNCHANGED <<live, base, alt, runs, due>> /\ selfsigned' \subseteq Domains
    BY <1>2, <1>3 DEF ChooseCert, ensureSelfSignedCert, certVars
  <1>5. CASE poolOk /\ certOk
    <2>1. EnsurePool(d, site[d], TRUE) /\ Published(w, d, File(site[d], tls))
      BY <1>3, <1>5 DEF File
    <2>2. tls = "le" <=> LeExists(d)
      BY <1>3, <1>5 DEF ChooseCert
    <2>3. QED
      BY <1>1, <1>2, <1>4, <2>1, <2>2, PublishedEffect
  <1>6. CASE ~(poolOk /\ certOk)
    <2>1. SkipFailed(w, d)
      BY <1>3, <1>6
    <2>2. QED
      BY <1>1, <1>2, <1>3, <1>4, <2>1, SkipEffect
  <1>7. QED
    BY <1>5, <1>6

LEMMA CallOfEnd ==
  ASSUME TypeInv, NEW w \in Workers, NothingChanged(w) \/ LoadOrRollBack(w)
  PROVE  /\ StepOf(w, {}) /\ call[w].pc = "render" /\ call[w].todo = {}
         /\ call'[w] = NoCall
  BY NoCallStep DEF NothingChanged, LoadOrRollBack

LEMMA CallOfStart ==
  ASSUME TypeInv, NEW w \in Workers, Request(w)
  PROVE  LET r == call'[w] IN
         /\ StepOf(w, {}) /\ call[w].pc = "idle"
         /\ r.todo = {} /\ r.before = [d \in Domains |-> NoVhost]
         /\ r.pc \in {"alias", "certbot", "wait"}
         /\ r.kind = "issue" => r.pc = "alias"
         /\ UNCHANGED <<poolVars, certVars, provVars, hostVars, histVars, events>>
         /\ ops' \in 0 .. MaxOps
  <1>1. PICK kind \in {"look", "issue", "renew", "apply"},
             pc \in {"alias", "certbot", "wait"}, S \in SUBSET Domains :
           /\ Starts(w, kind, pc, S)
           /\ pc = "alias" => AtOneSite(S)
           /\ kind = "issue" => pc = "alias"
           /\ pc = "certbot" => AtOneSite(S) \/ S = Domains
    BY DEF Request, CertInfo, CertIssue, CertRenew, Apply, AtOneSite
  <1>2. PICK k \in {"none", "requests"} :
           call' = [call EXCEPT ![w] = [NoCall EXCEPT
                      !.kind = kind, !.pc = pc, !.S = S, !.company = k]]
    BY <1>1 DEF Starts
  <1> DEFINE r == [NoCall EXCEPT !.kind = kind, !.pc = pc, !.S = S, !.company = k]
  <1>3. /\ r \in Call /\ r.todo = {} /\ r.before = [d \in Domains |-> NoVhost]
        /\ r.pc = pc /\ r.kind = kind /\ r.S = S
    BY NoCallType DEF NoCall, Call
  <1> HIDE DEF r
  <1>4. SitesOf(r)
    BY <1>1, <1>3 DEF SitesOf
  <1>5. call' = [call EXCEPT ![w] = r] /\ call \in [Workers -> Call]
    BY <1>2 DEF r, TypeInv, TypeOK
  <1>6. StepOf(w, {})
    BY <1>3, <1>4, <1>5, CallType, StaysSelf DEF StepOf, Marked
  <1>7. /\ call[w].pc = "idle" /\ ops' \in 0 .. MaxOps
        /\ UNCHANGED <<poolVars, certVars, provVars, hostVars, histVars, events>>
    BY <1>1, HostAssumption DEF Starts, Spend, TypeInv, TypeOK
  <1>8. QED
    BY <1>1, <1>3, <1>5, <1>6, <1>7
-----------------------------------------------------------------------------
(* Type correctness *)

LEMMA CertsTypes ==
  ASSUME CertsTypeOK, NEW d \in Domains
  PROVE  /\ ClearLive(d) => CertsTypeOK'
         /\ \A ok \in BOOLEAN : Symlink(d, ok) => CertsTypeOK'
         /\ CertbotDelete(d) => CertsTypeOK'
         /\ HalfRestored(d) => CertsTypeOK'
         /\ \A g \in 1 .. runs : BecomeDue(g) => CertsTypeOK'
  <1> USE CertsAssumption
  <1>1. ClearLive(d) => CertsTypeOK'
    BY DEF ClearLive, CertsTypeOK
  <1>2. \A ok \in BOOLEAN : Symlink(d, ok) => CertsTypeOK'
    BY DEF Symlink, CertsTypeOK
  <1>3. CertbotDelete(d) => CertsTypeOK'
    BY DEF CertbotDelete, CertsTypeOK
  <1>4. HalfRestored(d) => CertsTypeOK'
    BY DEF HalfRestored, CertsTypeOK
  <1>5. \A g \in 1 .. runs : BecomeDue(g) => CertsTypeOK'
    BY DEF BecomeDue, CertsTypeOK
  <1>6. QED
    BY <1>1, <1>2, <1>3, <1>4, <1>5

LEMMA CertonlyType ==
  ASSUME CertsTypeOK, NEW d \in Domains, NEW ok \in BOOLEAN, Certonly(d, ok)
  PROVE  CertsTypeOK'
  <1> USE CertsAssumption DEF CertsTypeOK
  <1>1. CASE UNCHANGED certVars
    BY <1>1 DEF certVars
  <1>2. CASE /\ runs < MaxRuns /\ runs' = runs + 1
             /\ \/ /\ live' = [live EXCEPT ![d] = "whole"]
                   /\ base' = [base EXCEPT ![d] = runs'] /\ alt' = alt
                \/ /\ alt' = [alt EXCEPT ![d] = runs']
                   /\ live' = live /\ base' = base
             /\ selfsigned' = selfsigned /\ due' = due
    <2>1. runs' \in 0 .. MaxRuns
      BY <1>2
    <2>2. QED
      BY <1>2, <2>1
  <1>3. QED
    BY <1>1, <1>2 DEF Certonly

LEMMA RenewType ==
  ASSUME CertsTypeOK, NEW B, NEW A, NEW ok \in BOOLEAN, Renew(B, A, ok)
  PROVE  CertsTypeOK'
  <1> USE CertsAssumption DEF CertsTypeOK
  <1>1. PICK doneB, doneA :
           /\ doneB \cup doneA # {} => runs < MaxRuns
           /\ runs' = IF doneB \cup doneA = {} THEN runs ELSE runs + 1
           /\ base' = [d \in Domains |-> IF d \in doneB THEN runs' ELSE base[d]]
           /\ alt' = [d \in Domains |-> IF d \in doneA THEN runs' ELSE alt[d]]
           /\ live' = live /\ selfsigned' = selfsigned /\ due' = due
    BY DEF Renew
  <1>2. runs' \in 0 .. MaxRuns
    BY <1>1
  <1>3. QED
    BY <1>1, <1>2

LEMMA RenewingType ==
  ASSUME CertsTypeOK, NEW d, NEW ok \in BOOLEAN, RenewAll(ok) \/ RenewCert(d, ok)
  PROVE  CertsTypeOK'
  <1>1. CASE UNCHANGED certVars
    BY <1>1 DEF CertsTypeOK, certVars
  <1>2. QED
    BY <1>1, RenewType DEF RenewAll, RenewCert

LEMMA EnsurePoolType ==
  ASSUME PoolsTypeOK, NEW d \in Domains, NEW v \in Versions, NEW ok \in BOOLEAN,
         EnsurePool(d, v, ok)
  PROVE  PoolsTypeOK'
  <1> USE DEF PoolsTypeOK, PoolMap
  <1>1. CASE UNCHANGED <<pools, fpm, missed>>
    BY <1>1
  <1>2. CASE /\ pools' = [pools EXCEPT ![v][makeKey(d)] = d]
             /\ ReloadService(v, ok)
    <2>1. makeKey(d) \in Keys
      BY DEF makeKey, Keys
    <2>2. pools' \in [Versions -> [Keys -> Domains \cup {NoPool}]]
      BY <1>2, <2>1
    <2>3. QED
      BY <1>2, <2>2 DEF ReloadService
  <1>3. QED
    BY <1>1, <1>2 DEF EnsurePool

LEMMA LooksAgainType ==
  ASSUME TypeInv, NEW w \in Workers, Site(w) \in Domains, LooksAgain(w)
  PROVE  looked' \subseteq Domains
  BY DEF LooksAgain, TypeInv, TypeOK

\* The parts of TypeOK.
CallsOK == call \in [Workers -> Call] /\ \A x \in Workers : SitesOf(call[x])
HostOK == /\ site \in [Domains -> Versions \cup {NoSite}]
          /\ vhost \in [Domains -> Vhost \cup {NoVhost}]
          /\ served \in [Domains -> Loaded \cup {NoVhost}]
HistoryOK == looked \subseteq Domains /\ tested \subseteq Masters
CountsOK == ops \in 0 .. MaxOps /\ events \in 0 .. MaxEvents

LEMMA TypeParts ==
  TypeInv <=> /\ PoolsTypeOK /\ CertsTypeOK /\ ProvisionTypeOK /\ CallsOK
              /\ HostOK /\ HistoryOK /\ CountsOK
  BY DEF TypeInv, TypeOK, CallsOK, HostOK, HistoryOK, CountsOK

LEMMA TypePartsNext ==
  TypeInv' <=> /\ PoolsTypeOK' /\ CertsTypeOK' /\ ProvisionTypeOK' /\ CallsOK'
               /\ HostOK' /\ HistoryOK' /\ CountsOK'
  BY DEF TypeInv, TypeOK, CallsOK, HostOK, HistoryOK, CountsOK

LEMMA UnchangedTypes ==
  /\ UNCHANGED poolVars => (PoolsTypeOK => PoolsTypeOK')
  /\ UNCHANGED certVars => (CertsTypeOK => CertsTypeOK')
  /\ UNCHANGED provVars => (ProvisionTypeOK => ProvisionTypeOK')
  /\ UNCHANGED hostVars => (HostOK => HostOK')
  /\ UNCHANGED histVars => (HistoryOK => HistoryOK')
  /\ UNCHANGED call => (CallsOK => CallsOK')
  /\ UNCHANGED <<ops, events>> => (CountsOK => CountsOK')
  <1>1. UNCHANGED poolVars => (PoolsTypeOK => PoolsTypeOK')
    BY DEF poolVars, PoolsTypeOK
  <1>2. UNCHANGED certVars => (CertsTypeOK => CertsTypeOK')
    BY DEF certVars, CertsTypeOK
  <1>3. UNCHANGED provVars => (ProvisionTypeOK => ProvisionTypeOK')
    BY DEF provVars, ProvisionTypeOK
  <1>4. UNCHANGED hostVars => (HostOK => HostOK')
    BY DEF hostVars, HostOK
  <1>5. UNCHANGED histVars => (HistoryOK => HistoryOK')
    BY DEF histVars, HistoryOK
  <1>6. UNCHANGED call => (CallsOK => CallsOK')
    BY DEF CallsOK
  <1>7. UNCHANGED <<ops, events>> => (CountsOK => CountsOK')
    BY DEF CountsOK
  <1>8. QED
    BY <1>1, <1>2, <1>3, <1>4, <1>5, <1>6, <1>7

LEMMA StepCalls ==
  ASSUME NEW w, NEW T, StepOf(w, T)
  PROVE  CallsOK'
  BY DEF StepOf, CallsOK

LEMMA LoadedType ==
  ASSUME CertsTypeOK, NEW f \in [Domains -> Vhost \cup {NoVhost}]
  PROVE  LoadedFrom(f) \in [Domains -> Loaded \cup {NoVhost}]
  <1>1. ASSUME NEW d \in Domains
        PROVE  LeCert(d) \in 0 .. MaxRuns
    BY CertsAssumption DEF CertsTypeOK, LeCert
  <1>2. ASSUME NEW d \in Domains, f[d] # NoVhost
        PROVE  [ver |-> f[d].ver, tls |-> f[d].tls,
                cert |-> IF f[d].tls = "le" THEN LeCert(d) ELSE 0] \in Loaded
    <2>1. f[d].ver \in Versions /\ f[d].tls \in {"le", "self"}
      BY <1>2 DEF Vhost
    <2>2. (IF f[d].tls = "le" THEN LeCert(d) ELSE 0) \in 0 .. MaxRuns
      BY <1>1, CertsAssumption
    <2>3. QED
      BY <2>1, <2>2 DEF Loaded
  <1>3. QED
    BY <1>2 DEF LoadedFrom
LEMMA LoadOrRollBackHost ==
  ASSUME TypeInv, NEW w \in Workers, LoadOrRollBack(w)
  PROVE  HostOK'
  <1> DEFINE back == RolledBack(w)
  <1>1. CertsTypeOK /\ HostOK /\ call[w] \in Call
    BY TypeParts, CallType
  <1>2. back \in [Domains -> Vhost \cup {NoVhost}]
    BY <1>1 DEF RolledBack, HostOK, Call
  <1>3. \/ served' = LoadedFrom(vhost) /\ vhost' = vhost
        \/ vhost' = back /\ served' \in {LoadedFrom(back), served}
    BY DEF LoadOrRollBack
  <1>4. site' = site
    BY DEF LoadOrRollBack
  <1> HIDE DEF back
  <1>5. QED
    BY <1>1, <1>2, <1>3, <1>4, LoadedType DEF HostOK

LEMMA RequestType ==
  ASSUME TypeInv, NEW w \in Workers, Request(w)
  PROVE  TypeInv'
  <1>1. /\ UNCHANGED <<poolVars, certVars, provVars, hostVars, histVars, events>>
        /\ CallsOK' /\ ops' \in 0 .. MaxOps
    BY CallOfStart, StepCalls
  <1>2. QED
    BY <1>1, TypeParts, TypePartsNext, UnchangedTypes DEF CountsOK

LEMMA RequestStepType ==
  ASSUME TypeInv, NEW w \in Workers, RequestStep(w)
  PROVE  TypeInv'
  <1> USE TypeParts, TypePartsNext, UnchangedTypes
  <1>1. /\ PoolsTypeOK /\ CertsTypeOK /\ ProvisionTypeOK /\ CallsOK
        /\ HostOK /\ HistoryOK /\ CountsOK
    OBVIOUS
  <1>2. CASE LookForAlias(w)
    <2>1. UNCHANGED <<poolVars, certVars, provVars, hostVars, tested, ops, events>>
      BY <1>2 DEF LookForAlias
    <2>2. CallsOK' /\ looked' \subseteq Domains
      BY <1>1, <1>2, CallOfLook, StepCalls, LooksAgainType DEF HistoryOK
    <2>3. HistoryOK'
      BY <1>1, <2>1, <2>2 DEF HistoryOK
    <2>4. QED
      BY <1>1, <2>1, <2>2, <2>3
  <1>3. CASE ClearAlias(w)
    <2>1. UNCHANGED <<poolVars, provVars, hostVars, histVars, ops, events>>
      BY <1>3 DEF ClearAlias
    <2>2. CallsOK' /\ Site(w) \in Domains
      BY <1>3, CallOfClear, StepCalls
    <2>3. CertsTypeOK'
      BY <1>1, <1>3, <2>2, CertsTypes DEF ClearAlias
    <2>4. QED
      BY <1>1, <2>1, <2>2, <2>3
  <1>4. CASE MakeAlias(w)
    <2>1. UNCHANGED <<poolVars, provVars, hostVars, tested, ops, events>>
      BY <1>4 DEF MakeAlias
    <2>2. CallsOK' /\ looked' \subseteq Domains /\ Site(w) \in Domains
      BY <1>1, <1>4, CallOfLink, StepCalls, LooksAgainType DEF HistoryOK
    <2>3. HistoryOK'
      BY <1>1, <2>1, <2>2 DEF HistoryOK
    <2>4. CertsTypeOK'
      BY <1>1, <1>4, <2>2, CertsTypes DEF MakeAlias
    <2>5. QED
      BY <1>1, <2>1, <2>2, <2>3, <2>4
  <1>5. CASE DecideIssue(w)
    <2>1. UNCHANGED <<poolVars, certVars, provVars, hostVars, histVars, ops, events>>
      BY <1>5 DEF DecideIssue
    <2>2. CallsOK'
      BY <1>5, CallOfDecide, StepCalls
    <2>3. QED
      BY <1>1, <2>1, <2>2
  <1>6. CASE RunCertonly(w)
    <2>1. UNCHANGED <<poolVars, provVars, hostVars, tested, ops, events>>
      BY <1>6 DEF RunCertonly
    <2>2. /\ CallsOK' /\ looked' = looked \ {Site(w)} /\ Site(w) \in Domains
          /\ \E ok \in BOOLEAN : Certonly(Site(w), ok)
      BY <1>6, CallOfCertonly, StepCalls
    <2>3. CertsTypeOK'
      BY <1>1, <2>2, CertonlyType
    <2>4. HistoryOK'
      BY <1>1, <2>1, <2>2 DEF HistoryOK
    <2>5. QED
      BY <1>1, <2>1, <2>2, <2>3, <2>4
  <1>7. CASE VerifyIssued(w)
    <2>1. UNCHANGED <<poolVars, certVars, provVars, hostVars, histVars, ops, events>>
      BY <1>7 DEF VerifyIssued
    <2>2. CallsOK'
      BY <1>7, CallOfVerify, StepCalls
    <2>3. QED
      BY <1>1, <2>1, <2>2
  <1>8. CASE RunRenew(w)
    <2>1. UNCHANGED <<poolVars, provVars, hostVars, histVars, ops, events>>
      BY <1>8 DEF RunRenew
    <2>2. CallsOK' /\ \E ok \in BOOLEAN : RenewAll(ok) \/ RenewCert(Site(w), ok)
      BY <1>8, CallOfRenew, StepCalls
    <2>3. CertsTypeOK'
      BY <1>1, <2>2, RenewingType
    <2>4. QED
      BY <1>1, <2>1, <2>2, <2>3
  <1>9. CASE TakeApplyMu(w)
    <2>1. UNCHANGED <<poolVars, certVars, provVars, hostVars, histVars, ops, events>>
      BY <1>9 DEF TakeApplyMu
    <2>2. CallsOK'
      BY <1>9, CallOfTake, StepCalls
    <2>3. QED
      BY <1>1, <2>1, <2>2
  <1>10. ASSUME NEW d \in Domains, RemoveSite(w, d)
         PROVE  TypeInv'
    <2>1. /\ UNCHANGED <<poolVars, certVars, provVars, histVars, ops, events>>
          /\ site' = site /\ served' = served
      BY <1>10 DEF RemoveSite
    <2>2. CallsOK' /\ vhost' = [vhost EXCEPT ![d] = NoVhost]
      BY <1>10, CallOfRemove, StepCalls DEF Renders
    <2>3. HostOK'
      BY <1>1, <2>1, <2>2 DEF HostOK
    <2>4. QED
      BY <1>1, <2>1, <2>2, <2>3
  <1>11. ASSUME NEW d \in Domains, RenderSite(w, d)
         PROVE  TypeInv'
    <2>1. /\ UNCHANGED <<provVars, histVars, ops, events>>
          /\ site' = site /\ served' = served
      BY <1>11 DEF RenderSite
    <2>2. /\ CallsOK' /\ site[d] \in Versions
          /\ \/ vhost' = vhost
             \/ \E tls \in {"le", "self"} :
                   vhost' = [vhost EXCEPT ![d] = File(site[d], tls)]
          /\ \E ok \in BOOLEAN : EnsurePool(d, site[d], ok)
          /\ UNCHANGED <<live, base, alt, runs, due>> /\ selfsigned' \subseteq Domains
      BY <1>11, CallOfRender, StepCalls DEF Renders, Skips
    <2>3. \A tls \in {"le", "self"} : File(site[d], tls) \in Vhost
      BY <2>2 DEF File, Vhost
    <2>4. HostOK'
      BY <1>1, <2>1, <2>2, <2>3 DEF HostOK
    <2>5. PoolsTypeOK' /\ CertsTypeOK'
      BY <1>1, <2>2, EnsurePoolType DEF CertsTypeOK
    <2>6. QED
      BY <1>1, <2>1, <2>2, <2>4, <2>5
  <1>12. CASE NothingChanged(w)
    <2>1. UNCHANGED <<poolVars, certVars, provVars, hostVars, histVars, ops, events>>
      BY <1>12 DEF NothingChanged
    <2>2. CallsOK'
      BY <1>12, CallOfEnd, StepCalls
    <2>3. QED
      BY <1>1, <2>1, <2>2
  <1>13. CASE LoadOrRollBack(w)
    <2>1. UNCHANGED <<poolVars, certVars, provVars, histVars, ops, events>>
      BY <1>13 DEF LoadOrRollBack
    <2>2. CallsOK' /\ HostOK'
      BY <1>13, CallOfEnd, StepCalls, LoadOrRollBackHost
    <2>3. QED
      BY <1>1, <2>1, <2>2
  <1>14. QED
    BY <1>2, <1>3, <1>4, <1>5, <1>6, <1>7, <1>8, <1>9, <1>10, <1>11, <1>12, <1>13
       DEF RequestStep

LEMMA WriteSiteType ==
  ASSUME TypeInv, NEW d \in Domains, NEW v \in Versions \cup {NoSite}, WriteSite(d, v)
  PROVE  TypeInv'
  <1>1. /\ PoolsTypeOK /\ CertsTypeOK /\ ProvisionTypeOK /\ HostOK /\ HistoryOK /\ CountsOK
    BY TypeParts
  <1>2. UNCHANGED <<poolVars, certVars, provVars, vhost, served, histVars, events>>
    BY DEF WriteSite
  <1>3. CallsOK'
    BY DisturbedEffect DEF WriteSite, CallsOK
  <1>4. HostOK'
    BY <1>1, <1>2 DEF HostOK, WriteSite
  <1>5. CountsOK'
    BY <1>1, <1>2, HostAssumption DEF CountsOK, WriteSite, Spend
  <1>6. QED
    BY <1>1, <1>2, <1>3, <1>4, <1>5, TypeParts, TypePartsNext, UnchangedTypes

LEMMA ProvisionType ==
  ASSUME TypeInv, ProvisionStep
  PROVE  TypeInv'
  <1>1. /\ PoolsTypeOK /\ CertsTypeOK /\ ProvisionTypeOK /\ CallsOK /\ HostOK
        /\ HistoryOK /\ CountsOK
    BY TypeParts
  <1>2. UNCHANGED <<poolVars, certVars, hostVars, call, looked, events>>
    BY DEF ProvisionStep
  <1>3. ProvisionTypeOK'
    BY <1>1 DEF ProvisionStep, ProvisionTypeOK, StartProvision, InstallMasterConfig,
         WriteProvisionReadyMarker, TestMaster, KillProvision, NoInit
  <1>4. HistoryOK'
    <2>1. tested' = tested \/ (GoodMasters \subseteq Masters /\ Valid(vhost)
                               /\ tested' = tested \cup {master})
      BY ProvisionAssumption DEF ProvisionStep
    <2>2. QED
      BY <1>1, <1>2, <2>1 DEF HistoryOK, Valid
  <1>5. CountsOK'
    BY <1>1, <1>2, HostAssumption DEF CountsOK, ProvisionStep, Spend
  <1>6. QED
    BY <1>1, <1>2, <1>3, <1>4, <1>5, TypeParts, TypePartsNext, UnchangedTypes

LEMMA CertEventType ==
  ASSUME TypeInv, CertEvent
  PROVE  TypeInv'
  <1>1. /\ PoolsTypeOK /\ CertsTypeOK /\ ProvisionTypeOK /\ CallsOK /\ HostOK
        /\ HistoryOK /\ CountsOK
    BY TypeParts
  <1>2. UNCHANGED <<poolVars, provVars, hostVars, tested, ops>>
    BY DEF CertEvent
  <1>3. \/ /\ \E g \in 1 .. runs : BecomeDue(g)
           /\ UNCHANGED <<call, looked>>
        \/ \E d \in Domains : /\ CertbotDelete(d) \/ HalfRestored(d)
                              /\ Disturbed(d) /\ looked' = looked \ {d}
    BY DEF CertEvent
  <1>4. CertsTypeOK'
    <2>1. CASE \E g \in 1 .. runs : BecomeDue(g)
      BY <1>1, <2>1, CertsAssumption DEF BecomeDue, CertsTypeOK
    <2>2. QED
      BY <1>1, <1>3, <2>1, CertsTypes
  <1>5. CallsOK'
    BY <1>1, <1>3, DisturbedEffect DEF CallsOK
  <1>6. HistoryOK'
    BY <1>1, <1>2, <1>3 DEF HistoryOK
  <1>7. CountsOK'
    BY <1>1, <1>2, HostAssumption DEF CountsOK, CertEvent, Event
  <1>8. QED
    BY <1>1, <1>2, <1>4, <1>5, <1>6, <1>7, TypeParts, TypePartsNext, UnchangedTypes

LEMMA FpmRestartsType ==
  ASSUME TypeInv, FpmRestarts
  PROVE  TypeInv'
  <1>1. /\ PoolsTypeOK /\ CertsTypeOK /\ ProvisionTypeOK /\ CallsOK /\ HostOK
        /\ HistoryOK /\ CountsOK
    BY TypeParts
  <1>2. UNCHANGED <<certVars, provVars, hostVars, call, histVars, ops>>
    BY DEF FpmRestarts
  <1>3. PoolsTypeOK'
    BY <1>1 DEF FpmRestarts, RestartFpm, PoolsTypeOK, PoolMap
  <1>4. CountsOK'
    BY <1>1, <1>2, HostAssumption DEF CountsOK, FpmRestarts, Event
  <1>5. QED
    BY <1>1, <1>2, <1>3, <1>4, TypeParts, TypePartsNext, UnchangedTypes

LEMMA TypeInit == Init => TypeInv
  <1> SUFFICES ASSUME Init PROVE TypeInv
    OBVIOUS
  <1>1. PoolsTypeOK
    BY DEF Init, PoolsInit, PoolsTypeOK, PoolMap
  <1>2. CertsTypeOK
    BY CertsAssumption DEF Init, CertsInit, CertsTypeOK
  <1>3. ProvisionTypeOK
    BY ProvisionAssumption DEF Init, ProvisionInit, ProvisionTypeOK, NoInit
  <1>4. CallsOK
    BY NoCallType DEF Init, CallsOK
  <1>5. HostOK
    BY DEF Init, HostOK
  <1>6. HistoryOK
    BY <1>3 DEF Init, HistoryOK, ProvisionTypeOK
  <1>7. CountsOK
    BY HostAssumption DEF Init, CountsOK
  <1>8. QED
    BY <1>1, <1>2, <1>3, <1>4, <1>5, <1>6, <1>7, TypeParts, TypePartsNext

LEMMA TypeStep == TypeInv /\ [Next]_vars => TypeInv'
  <1> SUFFICES ASSUME TypeInv, [Next]_vars PROVE TypeInv'
    OBVIOUS
  <1>1. CASE UNCHANGED vars
    BY <1>1, TypeParts, TypePartsNext, UnchangedTypes DEF vars
  <1>2. CASE Next
    BY <1>2, RequestType, RequestStepType, WriteSiteType, ProvisionType,
       CertEventType, FpmRestartsType DEF Next
  <1>3. QED
    BY <1>1, <1>2

LEMMA TypesHold == Spec => []TypeInv
  BY TypeInit, TypeStep, PTL DEF Spec

\* Every variable always has its type: no step of a request, of provisioning or
\* of certbot leaves a record that another step cannot read.
THEOREM TypeCorrect == Spec => []TypeOK
  <1>1. TypeInv => TypeOK
    BY DEF TypeInv
  <1>2. QED
    BY <1>1, TypesHold, PTL
-----------------------------------------------------------------------------
(* Provisioning *)

\* A marker is for a configuration that was tested, and a run that is about to
\* write one has tested what is there.
ReadyInv ==
    /\ marker \in tested \cup {NoMaster}
    /\ prov.pc = "mark" => master \in tested

LEMMA ReadyStep == TypeInv /\ ReadyInv /\ [Next]_vars => ReadyInv'
  <1> SUFFICES ASSUME TypeInv, ReadyInv, [Next]_vars PROVE ReadyInv'
    OBVIOUS
  <1>1. CASE UNCHANGED <<provVars, tested>>
    BY <1>1 DEF ReadyInv, provVars
  <1>2. CASE ProvisionStep
    <2>1. prov \in [pc : {"idle", "install", "test", "mark"},
                    text : Masters \cup {NoMaster}]
      BY DEF TypeInv, TypeOK, ProvisionTypeOK
    <2>2. QED
      BY <1>2, <2>1 DEF ReadyInv, ProvisionStep, StartProvision, InstallMasterConfig,
         TestMaster, WriteProvisionReadyMarker, KillProvision, NoInit
  <1>3. CASE \E d \in Domains, v \in Versions \cup {NoSite} : WriteSite(d, v)
    BY <1>1, <1>3 DEF WriteSite, histVars
  <1>4. ASSUME NEW w \in Workers, Request(w)
        PROVE  ReadyInv'
    BY <1>1, <1>4, CallOfStart DEF histVars
  <1>5. ASSUME NEW w \in Workers, RequestStep(w)
        PROVE  UNCHANGED <<provVars, tested>>
    BY <1>5 DEF RequestStep, LookForAlias, ClearAlias, MakeAlias, DecideIssue,
       RunCertonly, VerifyIssued, RunRenew, TakeApplyMu, RemoveSite, RenderSite,
       NothingChanged, LoadOrRollBack, histVars
  <1>6. CASE CertEvent \/ FpmRestarts
    BY <1>1, <1>6 DEF CertEvent, FpmRestarts, histVars
  <1>7. CASE UNCHANGED vars
    BY <1>1, <1>7 DEF vars, histVars
  <1>8. QED
    BY <1>1, <1>2, <1>3, <1>4, <1>5, <1>6, <1>7 DEF Next

\* CertIssue passes EnsureProvisionReady only over a master configuration that
\* nginx -t has accepted: a configuration that was installed and then rejected,
\* or whose run was killed, never has the marker of an earlier one.
THEOREM ReadyIsTested == Spec => []ReadyMeansTested
  <1>1. Init => ReadyInv
    BY DEF Init, ReadyInv, ProvisionInit, NoInit
  <1>2. ReadyInv => ReadyMeansTested
    BY DEF ReadyInv, ReadyMeansTested, EnsureProvisionReady
  <1>3. QED
    BY <1>1, <1>2, TypesHold, ReadyStep, PTL DEF Spec

-----------------------------------------------------------------------------
(* What the steps outside of the apply lock leave alone *)

NoFiles == [d \in Domains |-> NoVhost]

LEMMA StillExists ==
  ASSUME TypeInv, [Next]_vars, NEW d \in Domains, LeExists(d), ~LeExists(d)'
  PROVE  (\E w \in Workers : ClearAlias(w) /\ Site(w) = d) \/ Disturbed(d)
  <1>1. CertsTypeOK
    BY TypeParts
  <1>2. ~UNCHANGED <<live, base, alt>>
    BY DEF LeExists, LeCert
  <1>3. ~UNCHANGED certVars
    BY <1>2 DEF certVars
  <1>4. ASSUME NEW w \in Workers, RequestStep(w)
        PROVE  ClearAlias(w) /\ Site(w) = d
    <2>1. CASE ClearAlias(w)
      <3>1. live' = [live EXCEPT ![Site(w)] = "none"] /\ alt' = alt
            /\ base' = [base EXCEPT ![Site(w)] = 0]
        BY <2>1 DEF ClearAlias, ClearLive
      <3>2. QED
        BY <1>1, <2>1, <3>1 DEF LeExists, LeCert, CertsTypeOK
    <2>2. CASE MakeAlias(w)
      <3>1. /\ base' = base /\ alt' = alt
            /\ \/ live' = live
               \/ live[Site(w)] = "none" /\ live' = [live EXCEPT ![Site(w)] = "link"]
        BY <2>2 DEF MakeAlias, Symlink
      <3>2. QED
        BY <1>1, <3>1 DEF LeExists, LeCert, CertsTypeOK
    <2>3. CASE RunCertonly(w)
      <3>1. PICK e \in Domains, ok \in BOOLEAN : Certonly(e, ok)
        BY <2>3, CallOfCertonly
      <3>2. \/ UNCHANGED certVars
            \/ /\ runs' = runs + 1
               /\ \/ /\ live[e] \in {"none", "whole"}
                     /\ live' = [live EXCEPT ![e] = "whole"]
                     /\ base' = [base EXCEPT ![e] = runs'] /\ alt' = alt
                  \/ /\ live[e] # "whole" /\ live' = live /\ base' = base
                     /\ alt' = [alt EXCEPT ![e] = runs']
        BY <3>1 DEF Certonly
      <3>3. QED
        BY <1>1, <1>3, <3>2, CertsAssumption DEF LeExists, LeCert, CertsTypeOK
    <2>4. CASE RunRenew(w)
      <3>1. UNCHANGED certVars \/ \E B, A, ok : Renew(B, A, ok)
        BY <2>4, CallOfRenew DEF RenewAll, RenewCert
      <3>2. ASSUME NEW B, NEW A, NEW ok, Renew(B, A, ok)
            PROVE  FALSE
        <4>1. PICK doneB, doneA :
                 /\ runs' = IF doneB \cup doneA = {} THEN runs ELSE runs + 1
                 /\ base' = [x \in Domains |-> IF x \in doneB THEN runs' ELSE base[x]]
                 /\ alt' = [x \in Domains |-> IF x \in doneA THEN runs' ELSE alt[x]]
                 /\ live' = live
          BY <3>2 DEF Renew
        <4>2. (d \in doneB => base'[d] # 0) /\ (d \notin doneB => base'[d] = base[d])
          BY <1>1, <4>1, CertsAssumption DEF CertsTypeOK
        <4>3. (d \in doneA => alt'[d] # 0) /\ (d \notin doneA => alt'[d] = alt[d])
          BY <1>1, <4>1, CertsAssumption DEF CertsTypeOK
        <4>4. QED
          BY <4>1, <4>2, <4>3 DEF LeExists, LeCert
      <3>3. QED
        BY <1>3, <3>1, <3>2
    <2>5. ASSUME NEW e \in Domains, RenderSite(w, e)
          PROVE  FALSE
      BY <1>2, <2>5, CallOfRender
    <2>6. QED
      BY <1>3, <1>4, <2>1, <2>2, <2>3, <2>4, <2>5
         DEF RequestStep, LookForAlias, DecideIssue, VerifyIssued, TakeApplyMu,
             RemoveSite, NothingChanged, LoadOrRollBack
  <1>5. CASE CertEvent
    <2>1. PICK e \in Domains : (CertbotDelete(e) \/ HalfRestored(e)) /\ Disturbed(e)
      BY <1>2, <1>5 DEF CertEvent, BecomeDue
    <2>2. CASE e = d
      BY <2>1, <2>2
    <2>3. CASE e # d
      BY <1>1, <2>1, <2>3 DEF CertbotDelete, HalfRestored, CertsTypeOK, LeExists, LeCert
    <2>4. QED
      BY <2>2, <2>3
  <1>6. CASE ProvisionStep \/ FpmRestarts \/ UNCHANGED vars
    BY <1>3, <1>6 DEF ProvisionStep, FpmRestarts, vars
  <1>7. CASE \E e \in Domains, v \in Versions \cup {NoSite} : WriteSite(e, v)
    BY <1>3, <1>7 DEF WriteSite
  <1>8. ASSUME NEW w \in Workers, Request(w)
        PROVE  FALSE
    BY <1>3, <1>8, CallOfStart
  <1>9. QED
    BY <1>4, <1>5, <1>6, <1>7, <1>8 DEF Next

\* The certificate of a site that nobody else is at outlives every step but the
\* removal of what the site's own call found at live/<domain>.
LEMMA CertStays ==
  ASSUME TypeInv, [Next]_vars, NEW x \in Workers, NEW d \in Domains,
         d \in call[x].S, call'[x].company = "none", call[x].pc # "clear", LeExists(d)
  PROVE  LeExists(d)'
  <1> SUFFICES ASSUME ~LeExists(d)' PROVE FALSE
    OBVIOUS
  <1>1. CASE Disturbed(d)
    BY <1>1, DisturbedEffect
  <1>2. ASSUME NEW w \in Workers, ClearAlias(w), Site(w) = d
        PROVE  FALSE
    <2>1. StepOf(w, {d}) /\ call[w].pc = "clear"
      BY <1>2, CallOfClear
    <2>2. Marked(call'[x], call[x], {d})
      BY <2>1 DEF StepOf
    <2>3. QED
      BY <2>2 DEF Marked
  <1>3. QED
    BY <1>1, <1>2, StillExists
\* The call of x goes on without the apply lock: it is as it was, up to who else
\* is at its sites, or it moves between steps that do not touch the files.
QuietCall(x) ==
    LET c == call[x] r == call'[x] IN
    \/ Stays(r, c) /\ (c.company # "none" => r.company # "none")
    \/ /\ c.pc # "render" /\ r.pc # "render"
       /\ r.before \in {c.before, NoFiles}
       /\ r.pc = "wait" /\ r.kind = "issue" =>
             Moves(r, c) /\ c.pc = "verify" /\ LeExists(Site(x))

Quiet == vhost' = vhost /\ served' = served /\ \A x \in Workers : QuietCall(x)

LEMMA OthersAreQuiet ==
  ASSUME NEW w, NEW T, StepOf(w, T), NEW x \in Workers, x # w
  PROVE  QuietCall(x)
  BY DEF StepOf, Marked, QuietCall

LEMMA QuietRequestStep ==
  ASSUME TypeInv, NEW w \in Workers,
         \/ LookForAlias(w) \/ ClearAlias(w) \/ MakeAlias(w)
         \/ DecideIssue(w) \/ RunCertonly(w) \/ VerifyIssued(w) \/ RunRenew(w)
  PROVE  Quiet
  <1> USE NoCallFields DEF NoFiles
  <1>1. vhost' = vhost /\ served' = served
    BY DEF LookForAlias, ClearAlias, MakeAlias, DecideIssue, RunCertonly,
       VerifyIssued, RunRenew, hostVars
  <1>2. ASSUME NEW r, r = call'[w], Resumes(r, call[w]),
               call[w].pc \in {"alias", "link"}
        PROVE  QuietCall(w)
    BY <1>2 DEF Resumes, Moves, QuietCall
  <1>3. CASE LookForAlias(w)
    BY <1>1, <1>2, <1>3, CallOfLook, OthersAreQuiet DEF Quiet, QuietCall, Moves
  <1>4. CASE ClearAlias(w)
    BY <1>1, <1>4, CallOfClear, OthersAreQuiet DEF Quiet, QuietCall, Moves
  <1>5. CASE MakeAlias(w)
    <2>1. /\ StepOf(w, {}) /\ call[w].pc = "link"
          /\ Resumes(call'[w], call[w]) \/ call'[w] = NoCall
      BY <1>5, CallOfLink
    <2>2. QuietCall(w)
      BY <1>2, <2>1 DEF QuietCall
    <2>3. QED
      BY <1>1, <2>1, <2>2, OthersAreQuiet DEF Quiet
  <1>6. CASE DecideIssue(w)
    BY <1>1, <1>6, CallOfDecide, OthersAreQuiet DEF Quiet, QuietCall, Moves
  <1>7. CASE RunCertonly(w)
    <2>1. /\ StepOf(w, {Site(w)}) /\ call[w].pc = "certbot"
          /\ call'[w] = NoCall \/ (call'[w].pc = "alias" /\ Moves(call'[w], call[w]))
      BY <1>7, CallOfCertonly
    <2>2. QuietCall(w)
      BY <2>1 DEF QuietCall, Moves
    <2>3. QED
      BY <1>1, <2>1, <2>2, OthersAreQuiet DEF Quiet
  <1>8. CASE VerifyIssued(w)
    BY <1>1, <1>8, CallOfVerify, OthersAreQuiet DEF Quiet, QuietCall, Moves
  <1>9. CASE RunRenew(w)
    <2>1. /\ StepOf(w, call[w].S) /\ call[w].pc = "certbot"
          /\ \/ call'[w] = NoCall
             \/ /\ call'[w].pc = "wait" /\ call'[w].kind = "renew"
                /\ call'[w].before = call[w].before
      BY <1>9, CallOfRenew
    <2>2. QuietCall(w)
      BY <2>1 DEF QuietCall
    <2>3. QED
      BY <1>1, <2>1, <2>2, OthersAreQuiet DEF Quiet
  <1>10. QED
    BY <1>3, <1>4, <1>5, <1>6, <1>7, <1>8, <1>9

LEMMA QuietStep ==
  ASSUME TypeInv, [Next]_vars
  PROVE  \/ Quiet
         \/ \E w \in Workers :
               \/ TakeApplyMu(w)
               \/ \E d \in Domains : RemoveSite(w, d) \/ RenderSite(w, d)
               \/ NothingChanged(w) \/ LoadOrRollBack(w)
  <1>1. ASSUME NEW x \in Workers, Stays(call'[x], call[x]),
               call[x].company # "none" => call'[x].company # "none"
        PROVE  QuietCall(x)
    BY <1>1 DEF QuietCall
  <1>2. ASSUME UNCHANGED <<vhost, served, call>>
        PROVE  Quiet
    BY <1>1, <1>2, StaysSelf DEF Quiet
  <1>3. CASE UNCHANGED vars \/ ProvisionStep \/ FpmRestarts
    BY <1>2, <1>3 DEF vars, hostVars, ProvisionStep, FpmRestarts
  <1>4. ASSUME NEW d \in Domains, Disturbed(d), vhost' = vhost, served' = served
        PROVE  Quiet
    BY <1>1, <1>4, DisturbedEffect DEF Quiet
  <1>5. CASE CertEvent
    BY <1>2, <1>4, <1>5 DEF CertEvent, hostVars
  <1>6. CASE \E d \in Domains, v \in Versions \cup {NoSite} : WriteSite(d, v)
    BY <1>4, <1>6 DEF WriteSite
  <1>7. ASSUME NEW w \in Workers, Request(w)
        PROVE  Quiet
    <2>1. /\ StepOf(w, {}) /\ UNCHANGED hostVars
          /\ call[w].pc = "idle" /\ call'[w].before = NoFiles
          /\ call'[w].pc \in {"alias", "certbot", "wait"}
          /\ call'[w].kind = "issue" => call'[w].pc = "alias"
      BY <1>7, CallOfStart DEF NoFiles
    <2>2. QuietCall(w)
      BY <2>1 DEF QuietCall
    <2>3. QED
      BY <2>1, <2>2, OthersAreQuiet DEF Quiet, hostVars
  <1>8. QED
    BY <1>3, <1>5, <1>6, <1>7, QuietRequestStep DEF Next, RequestStep

LEMMA PoolsSteps ==
  ASSUME [Next]_vars
  PROVE  \/ UNCHANGED poolVars
         \/ \E v \in Versions : RestartFpm(v)
         \/ \E w \in Workers, d \in Domains : RenderSite(w, d)
  <1>1. ASSUME NEW w \in Workers, Request(w)
        PROVE  UNCHANGED poolVars
    BY <1>1 DEF Request, CertInfo, CertIssue, CertRenew, Apply, Starts
  <1>2. ASSUME NEW w \in Workers, RequestStep(w)
        PROVE  UNCHANGED poolVars \/ \E d \in Domains : RenderSite(w, d)
    BY <1>2 DEF RequestStep, LookForAlias, ClearAlias, MakeAlias, DecideIssue,
       RunCertonly, VerifyIssued, RunRenew, TakeApplyMu, RemoveSite,
       NothingChanged, LoadOrRollBack
  <1>3. QED
    BY <1>1, <1>2 DEF Next, WriteSite, ProvisionStep, CertEvent, FpmRestarts, vars

LEMMA SiteSteps ==
  ASSUME [Next]_vars
  PROVE  \/ site' = site
         \/ \E d \in Domains, v \in Versions \cup {NoSite} : WriteSite(d, v)
  <1>1. ASSUME NEW w \in Workers, Request(w)
        PROVE  site' = site
    BY <1>1 DEF Request, CertInfo, CertIssue, CertRenew, Apply, Starts, hostVars
  <1>2. ASSUME NEW w \in Workers, RequestStep(w)
        PROVE  site' = site
    BY <1>2 DEF RequestStep, LookForAlias, ClearAlias, MakeAlias, DecideIssue,
       RunCertonly, VerifyIssued, RunRenew, TakeApplyMu, RemoveSite, RenderSite,
       NothingChanged, LoadOrRollBack, hostVars
  <1>3. QED
    BY <1>1, <1>2 DEF Next, ProvisionStep, CertEvent, FpmRestarts, vars, hostVars

-----------------------------------------------------------------------------
(* The files, the loaded files, and the calls that change them *)

LEMMA TakeCalls ==
  ASSUME TypeInv, NEW w \in Workers, TakeApplyMu(w)
  PROVE  /\ vhost' = vhost /\ served' = served
         /\ \A x \in Workers : x # w => QuietCall(x)
  BY CallOfTake, OthersAreQuiet DEF TakeApplyMu, hostVars

LEMMA EndCalls ==
  ASSUME TypeInv, NEW w \in Workers, NothingChanged(w) \/ LoadOrRollBack(w)
  PROVE  \A x \in Workers : x # w => QuietCall(x)
  BY CallOfEnd, OthersAreQuiet

LEMMA RenderCalls ==
  ASSUME TypeInv, NEW w \in Workers, NEW d \in Domains,
         RemoveSite(w, d) \/ RenderSite(w, d)
  PROVE  /\ served' = served /\ site' = site /\ UNCHANGED <<live, base, alt>>
         /\ \A x \in Workers : x # w => QuietCall(x)
  BY CallOfRemove, CallOfRender, OthersAreQuiet DEF RemoveSite, RenderSite, certVars
-----------------------------------------------------------------------------
(* The sockets *)

\* In the pool files p there is one for every file of f.
Pooled(p, f) ==
    \A d \in Domains : f[d] # NoVhost => p[f[d].ver][makeKey(d)] # NoPool

\* Every pool file is loaded, or its php-fpm was not reloaded.
LoadedPools ==
    \A v \in Versions, k \in Keys :
        pools[v][k] # NoPool => fpm[v][k] # NoPool \/ v \in missed

\* No pool file is ever removed: whatever is served, is on disk, or can still be
\* put back by a rollback has its pool.
PoolsInv ==
    /\ LoadedPools
    /\ Pooled(pools, vhost) /\ Pooled(pools, served)
    /\ \A w \in Workers : Pooled(pools, call[w].before)

Versioned(f) == \A d \in Domains : f[d] # NoVhost => f[d].ver \in Versions

LEMMA VersionedFiles ==
  ASSUME TypeInv
  PROVE  /\ Versioned(vhost) /\ Versioned(served)
         /\ \A w \in Workers : Versioned(call[w].before)
  <1>1. HostOK
    BY TypeParts
  <1>2. Versioned(vhost) /\ Versioned(served)
    BY <1>1 DEF HostOK, Versioned, Vhost, Loaded
  <1>3. ASSUME NEW w \in Workers
        PROVE  Versioned(call[w].before)
    BY CallType DEF Call, Versioned, Vhost
  <1>4. QED
    BY <1>2, <1>3

LEMMA NoFilesPooled == \A p : Pooled(p, NoFiles)
  BY DEF Pooled, NoFiles

\* What EnsurePool does to the pools of d: it has one afterwards, unless it
\* failed, and no key loses the one it had.
LEMMA EnsurePoolEffect ==
  ASSUME PoolsTypeOK, NEW d \in Domains, NEW v \in Versions, NEW ok \in BOOLEAN,
         EnsurePool(d, v, ok), LoadedPools
  PROVE  /\ ok => pools'[v][makeKey(d)] # NoPool
         /\ \A u \in Versions, k \in Keys :
               pools[u][k] # NoPool => pools'[u][k] # NoPool
         /\ LoadedPools'
  <1>1. makeKey(d) \in Keys /\ d # NoPool
    BY PoolsAssumption DEF makeKey, Keys
  <1>2. CASE UNCHANGED <<pools, fpm, missed>> /\ (ok => pools[v][makeKey(d)] = d)
    BY <1>1, <1>2 DEF LoadedPools
  <1>3. CASE /\ pools' = [pools EXCEPT ![v][makeKey(d)] = d]
             /\ ReloadService(v, ok)
    <2>1. ASSUME NEW u \in Versions, NEW k \in Keys
          PROVE  pools'[u][k] = IF u = v /\ k = makeKey(d) THEN d ELSE pools[u][k]
      BY <1>1, <1>3 DEF PoolsTypeOK, PoolMap
    <2>2. \/ fpm' = [fpm EXCEPT ![v] = pools'[v]] /\ missed' = missed \ {v}
          \/ fpm' = fpm /\ missed' = missed \cup {v}
      BY <1>3 DEF ReloadService
    <2>3. ASSUME NEW u \in Versions, NEW k \in Keys, pools'[u][k] # NoPool
          PROVE  fpm'[u][k] # NoPool \/ u \in missed'
      <3>1. CASE u = v
        BY <2>2, <2>3, <3>1 DEF PoolsTypeOK, PoolMap
      <3>2. CASE u # v
        <4>1. pools[u][k] # NoPool
          BY <2>1, <2>3, <3>2
        <4>2. fpm'[u] = fpm[u] /\ (u \in missed => u \in missed')
          BY <2>2, <3>2 DEF PoolsTypeOK, PoolMap
        <4>3. QED
          BY <4>1, <4>2 DEF LoadedPools
      <3>3. QED
        BY <3>1, <3>2
    <2>4. QED
      BY <1>1, <2>1, <2>3 DEF LoadedPools
  <1>4. QED
    BY <1>2, <1>3 DEF EnsurePool

LEMMA PoolsGrow ==
  ASSUME TypeInv, LoadedPools, [Next]_vars
  PROVE  /\ \A u \in Versions, k \in Keys :
               pools[u][k] # NoPool => pools'[u][k] # NoPool
         /\ LoadedPools'
  <1>1. PoolsTypeOK
    BY TypeParts
  <1>2. CASE UNCHANGED poolVars
    BY <1>2 DEF poolVars, LoadedPools
  <1>3. ASSUME NEW v \in Versions, RestartFpm(v)
        PROVE  pools' = pools /\ LoadedPools'
    BY <1>1, <1>3 DEF RestartFpm, LoadedPools, PoolsTypeOK, PoolMap
  <1>4. ASSUME NEW w \in Workers, NEW d \in Domains, RenderSite(w, d)
        PROVE  \E ok \in BOOLEAN : site[d] \in Versions /\ EnsurePool(d, site[d], ok)
    BY <1>4, CallOfRender
  <1>5. QED
    BY <1>1, <1>2, <1>3, <1>4, PoolsSteps, EnsurePoolEffect

LEMMA PooledGrows ==
  ASSUME NEW f, Versioned(f), Pooled(pools, f),
         \A u \in Versions, k \in Keys : pools[u][k] # NoPool => pools'[u][k] # NoPool
  PROVE  Pooled(pools', f)
  BY DEF Versioned, Pooled, makeKey, Keys

LEMMA LoadedPooled ==
  ASSUME NEW p, NEW f, Pooled(p, f)
  PROVE  Pooled(p, LoadedFrom(f))
  BY DEF Pooled, LoadedFrom

LEMMA PoolsStep == TypeInv /\ PoolsInv /\ [Next]_vars => PoolsInv'
  <1> SUFFICES ASSUME TypeInv, PoolsInv, [Next]_vars PROVE PoolsInv'
    OBVIOUS
  <1> DEFINE p == pools'
  <1>1. LoadedPools'
    BY PoolsGrow DEF PoolsInv
  <1>2. /\ Pooled(p, vhost) /\ Pooled(p, served)
        /\ \A x \in Workers : Pooled(p, call[x].before)
    BY PoolsGrow, PooledGrows, VersionedFiles DEF PoolsInv
  <1> HIDE DEF p
  <1>3. ASSUME NEW x \in Workers, QuietCall(x)
        PROVE  Pooled(p, call'[x].before)
    BY <1>2, <1>3, NoFilesPooled DEF QuietCall, Stays
  <1>4. SUFFICES /\ Pooled(p, vhost') /\ Pooled(p, served')
                 /\ \A x \in Workers : Pooled(p, call'[x].before)
    BY <1>1 DEF PoolsInv, p
  <1>5. CASE Quiet
    BY <1>2, <1>3, <1>5 DEF Quiet
  <1>6. ASSUME NEW w \in Workers, TakeApplyMu(w)
        PROVE  /\ Pooled(p, vhost') /\ Pooled(p, served')
               /\ \A x \in Workers : Pooled(p, call'[x].before)
    BY <1>2, <1>3, <1>6, TakeCalls, CallOfTake
  <1>7. ASSUME NEW w \in Workers, NEW d \in Domains, RemoveSite(w, d)
        PROVE  /\ Pooled(p, vhost') /\ Pooled(p, served')
               /\ \A x \in Workers : Pooled(p, call'[x].before)
    <2>1. /\ vhost' = [vhost EXCEPT ![d] = NoVhost]
          /\ call'[w].before = call[w].before
      BY <1>7, CallOfRemove DEF Renders
    <2>2. Pooled(p, vhost')
      BY <1>2, <2>1, TypeParts DEF HostOK, Pooled
    <2>3. QED
      BY <1>2, <1>3, <1>7, <2>1, <2>2, RenderCalls
  <1>8. ASSUME NEW w \in Workers, NEW d \in Domains, RenderSite(w, d)
        PROVE  /\ Pooled(p, vhost') /\ Pooled(p, served')
               /\ \A x \in Workers : Pooled(p, call'[x].before)
    <2>1. /\ call'[w].before = call[w].before /\ site[d] \in Versions
          /\ \/ vhost' = vhost
             \/ /\ EnsurePool(d, site[d], TRUE)
                /\ \E tls : vhost' = [vhost EXCEPT ![d] = File(site[d], tls)]
      <3>1. CASE Skips(call'[w], call[w], d)
        BY <1>8, <3>1, CallOfRender DEF Skips
      <3>2. ASSUME NEW tls, Renders(call'[w], call[w], d, File(site[d], tls)),
                   EnsurePool(d, site[d], TRUE)
            PROVE  /\ call'[w].before = call[w].before
                   /\ vhost' = [vhost EXCEPT ![d] = File(site[d], tls)]
        BY <3>2 DEF Renders
      <3>3. QED
        BY <1>8, <3>1, <3>2, CallOfRender
    <2>2. CASE vhost' = vhost
      BY <1>2, <1>3, <1>8, <2>1, <2>2, RenderCalls
    <2>3. CASE EnsurePool(d, site[d], TRUE)
               /\ \E tls : vhost' = [vhost EXCEPT ![d] = File(site[d], tls)]
      <3>1. p[site[d]][makeKey(d)] # NoPool
        BY <2>1, <2>3, TypeParts, EnsurePoolEffect DEF PoolsInv, p
      <3>2. PICK tls : vhost' = [vhost EXCEPT ![d] = File(site[d], tls)]
        BY <2>3
      <3>3. Pooled(p, vhost')
        BY <1>2, <3>1, <3>2, TypeParts DEF HostOK, Pooled, File
      <3>4. QED
        BY <1>2, <1>3, <1>8, <2>1, <3>3, RenderCalls
    <2>4. QED
      BY <2>1, <2>2, <2>3
  <1>9. ASSUME NEW w \in Workers, NothingChanged(w) \/ LoadOrRollBack(w)
        PROVE  /\ Pooled(p, vhost') /\ Pooled(p, served')
               /\ \A x \in Workers : Pooled(p, call'[x].before)
    <2>1. \A x \in Workers : Pooled(p, call'[x].before)
      BY <1>3, <1>9, EndCalls, CallOfEnd, NoCallFields, NoFilesPooled DEF NoFiles
    <2>2. Pooled(p, RolledBack(w))
      BY <1>2 DEF Pooled, RolledBack
    <2>3. /\ vhost' \in {vhost, RolledBack(w)}
          /\ served' \in {served, LoadedFrom(vhost), LoadedFrom(RolledBack(w))}
      BY <1>9 DEF NothingChanged, LoadOrRollBack, hostVars
    <2>4. QED
      BY <1>2, <2>1, <2>2, <2>3, LoadedPooled
  <1>10. QED
    BY <1>5, <1>6, <1>7, <1>8, <1>9, QuietStep

\* Every vhost nginx serves passes to a socket on which a php-fpm listens, for
\* any sites, keys, switches of version, rollbacks and overlapping requests:
\* only a php-fpm whose last reload failed can lack the pool.
THEOREM SocketsAreServed == Spec => []SocketsListen
  <1>1. Init => PoolsInv
    <2> SUFFICES ASSUME Init PROVE PoolsInv
      OBVIOUS
    <2>1. LoadedPools
      BY DEF Init, PoolsInit, LoadedPools
    <2>2. vhost = NoFiles /\ served = NoFiles
          /\ \A w \in Workers : call[w].before = NoFiles
      BY NoCallFields DEF Init, NoFiles
    <2>3. QED
      BY <2>1, <2>2, NoFilesPooled DEF PoolsInv
  <1>2. TypeInv /\ PoolsInv => SocketsListen
    BY VersionedFiles DEF PoolsInv, LoadedPools, Pooled, Versioned, SocketsListen,
       Listens, makeKey, Keys
  <1>3. QED
    BY <1>1, <1>2, TypesHold, PoolsStep, PTL DEF Spec
-----------------------------------------------------------------------------
(* What is on disk and what is loaded *)

\* The loaded vhosts s are those of the files f.
Agrees(s, f) ==
    \A d \in Domains :
        IF f[d] = NoVhost THEN s[d] = NoVhost
        ELSE s[d] # NoVhost /\ s[d].ver = f[d].ver /\ s[d].tls = f[d].tls

Rendering(w) == call[w].pc = "render"

\* One call has the apply lock.  While it renders, nginx serves what the files
\* were before it, and the files it did not change are as they were.
DiskInv ==
    /\ \A w, x \in Workers : Rendering(w) /\ Rendering(x) => w = x
    /\ ApplyMuFree => Agrees(served, vhost)
    /\ \A w \in Workers :
          Rendering(w) => /\ Agrees(served, call[w].before)
                          /\ \A d \in Domains \ call[w].changed :
                                vhost[d] = call[w].before[d]

LEMMA LoadedAgrees ==
  ASSUME CertsTypeOK, NEW f \in [Domains -> Vhost \cup {NoVhost}]
  PROVE  Agrees(LoadedFrom(f), f)
  <1>1. ASSUME NEW d \in Domains, f[d] # NoVhost
        PROVE  /\ LoadedFrom(f)[d].ver = f[d].ver /\ LoadedFrom(f)[d].tls = f[d].tls
               /\ LoadedFrom(f)[d] # NoVhost
    <2>1. LoadedFrom(f)[d] = [ver |-> f[d].ver, tls |-> f[d].tls,
                              cert |-> IF f[d].tls = "le" THEN LeCert(d) ELSE 0]
      BY <1>1 DEF LoadedFrom
    <2>2. LeCert(d) \in 0 .. MaxRuns
      BY CertsAssumption DEF CertsTypeOK, LeCert
    <2>3. f[d].ver \in Versions /\ f[d].tls \in {"le", "self"}
      BY <1>1 DEF Vhost
    <2>4. LoadedFrom(f)[d] \in Loaded
      BY <2>1, <2>2, <2>3, CertsAssumption DEF Loaded
    <2>5. QED
      BY <2>1, <2>4, VhostAssumption
  <1>2. ASSUME NEW d \in Domains, f[d] = NoVhost
        PROVE  LoadedFrom(f)[d] = NoVhost
    BY <1>2 DEF LoadedFrom
  <1>3. QED
    BY <1>1, <1>2 DEF Agrees

LEMMA AgreesPointwise ==
  ASSUME NEW s, NEW f, NEW g, Agrees(s, f), \A d \in Domains : g[d] = f[d]
  PROVE  Agrees(s, g)
  BY DEF Agrees

\* A call that renders after a quiet step rendered before it.
LEMMA QuietRendering ==
  ASSUME NEW x, QuietCall(x)
  PROVE  /\ Rendering(x)' <=> Rendering(x)
         /\ Rendering(x) => Stays(call'[x], call[x])
  BY DEF QuietCall, Rendering, Stays

\* After the last step of a rendering call nobody renders.
LEMMA EndFrees ==
  ASSUME TypeInv, DiskInv, NEW w \in Workers, NothingChanged(w) \/ LoadOrRollBack(w)
  PROVE  /\ \A x \in Workers : ~Rendering(x)'
         /\ Rendering(w) /\ call[w].todo = {} /\ call'[w] = NoCall
  <1>1. /\ Rendering(w) /\ call[w].todo = {} /\ call'[w] = NoCall
    BY CallOfEnd DEF Rendering
  <1>2. ~Rendering(w)'
    BY <1>1, NoCallFields DEF Rendering
  <1>3. ASSUME NEW x \in Workers, x # w
        PROVE  ~Rendering(x)'
    BY <1>1, <1>3, EndCalls, QuietRendering DEF DiskInv
  <1>4. QED
    BY <1>1, <1>2, <1>3

\* While w renders nobody else does, before or after the step.
LEMMA RendersAlone ==
  ASSUME TypeInv, DiskInv, NEW w \in Workers, NEW d \in Domains,
         RemoveSite(w, d) \/ RenderSite(w, d)
  PROVE  /\ Rendering(w) /\ Rendering(w)'
         /\ \A x \in Workers : x # w => ~Rendering(x) /\ ~Rendering(x)'
  <1>1. Rendering(w) /\ Rendering(w)'
    BY CallOfRemove, CallOfRender DEF Renders, Skips, Rendering
  <1>2. ASSUME NEW x \in Workers, x # w
        PROVE  ~Rendering(x) /\ ~Rendering(x)'
    BY <1>1, <1>2, RenderCalls, QuietRendering DEF DiskInv
  <1>3. QED
    BY <1>1, <1>2

LEMMA DiskStep == TypeInv /\ DiskInv /\ [Next]_vars => DiskInv'
  <1> SUFFICES ASSUME TypeInv, DiskInv, [Next]_vars PROVE DiskInv'
    OBVIOUS
  <1>1. CertsTypeOK /\ HostOK
    BY TypeParts
  <1>2. CASE Quiet
    <2>1. vhost' = vhost /\ served' = served
      BY <1>2 DEF Quiet
    <2>2. \A x \in Workers : (Rendering(x)' <=> Rendering(x))
      BY <1>2, QuietRendering DEF Quiet
    <2>3. ApplyMuFree' => ApplyMuFree
      BY <2>2 DEF ApplyMuFree, Rendering
    <2>4. ASSUME NEW x \in Workers, Rendering(x)'
          PROVE  /\ Agrees(served', call'[x].before)
                 /\ \A d \in Domains \ call'[x].changed : vhost'[d] = call'[x].before[d]
      <3>1. Rendering(x) /\ Stays(call'[x], call[x])
        BY <1>2, <2>4, QuietRendering DEF Quiet
      <3>2. call'[x].before = call[x].before /\ call'[x].changed = call[x].changed
        BY <3>1 DEF Stays
      <3>3. QED
        BY <2>1, <3>1, <3>2 DEF DiskInv
    <2>5. QED
      BY <2>1, <2>2, <2>3, <2>4 DEF DiskInv
  <1>3. ASSUME NEW w \in Workers, TakeApplyMu(w)
        PROVE  DiskInv'
    <2>1. /\ ApplyMuFree /\ Rendering(w)' /\ call'[w].before = vhost
          /\ vhost' = vhost /\ served' = served
      BY <1>3, CallOfTake, TakeCalls DEF Rendering
    <2>2. \A x \in Workers : x # w => ~Rendering(x)'
      BY <1>3, <2>1, TakeCalls, QuietRendering DEF ApplyMuFree, Rendering
    <2>3. ~ApplyMuFree'
      BY <2>1 DEF ApplyMuFree, Rendering
    <2>4. Agrees(served, vhost)
      BY <2>1 DEF DiskInv
    <2>5. QED
      BY <2>1, <2>2, <2>3, <2>4 DEF DiskInv
  <1>4. ASSUME NEW w \in Workers, NEW d \in Domains, NEW f,
               RemoveSite(w, d) \/ RenderSite(w, d),
               Renders(call'[w], call[w], d, f) \/ Skips(call'[w], call[w], d)
        PROVE  DiskInv'
    <2>1. /\ Rendering(w) /\ Rendering(w)'
          /\ \A x \in Workers : x # w => ~Rendering(x)'
      BY <1>4, RendersAlone
    <2>2. served' = served /\ call'[w].before = call[w].before
      BY <1>4, RenderCalls DEF Renders, Skips
    <2>3. ~ApplyMuFree'
      BY <2>1 DEF ApplyMuFree, Rendering
    <2>4. ASSUME NEW e \in Domains \ call'[w].changed
          PROVE  e \notin call[w].changed /\ vhost'[e] = vhost[e]
      BY <1>1, <1>4 DEF Renders, Skips, HostOK
    <2>5. QED
      BY <2>1, <2>2, <2>3, <2>4 DEF DiskInv
  <1>5. ASSUME NEW w \in Workers, NothingChanged(w) \/ LoadOrRollBack(w)
        PROVE  DiskInv'
    <2>1. Rendering(w) /\ \A x \in Workers : ~Rendering(x)'
      BY <1>5, EndFrees
    <2>2. /\ Agrees(served, call[w].before)
          /\ \A d \in Domains \ call[w].changed : vhost[d] = call[w].before[d]
      BY <2>1 DEF DiskInv
    <2>3. Agrees(served', vhost')
      <3>1. CASE NothingChanged(w)
        BY <2>2, <3>1, AgreesPointwise DEF NothingChanged, hostVars
      <3>2. CASE LoadOrRollBack(w) /\ Valid(vhost)
        BY <1>1, <3>2, LoadedAgrees DEF LoadOrRollBack, HostOK
      <3>3. CASE LoadOrRollBack(w) /\ ~Valid(vhost)
        <4>1. /\ vhost' = RolledBack(w)
              /\ served' = IF Valid(vhost') THEN LoadedFrom(vhost') ELSE served
          BY <3>3 DEF LoadOrRollBack
        <4>2. vhost' \in [Domains -> Vhost \cup {NoVhost}]
          BY <3>3, LoadOrRollBackHost DEF HostOK
        <4>3. \A d \in Domains : vhost'[d] = call[w].before[d]
          BY <2>2, <4>1 DEF RolledBack
        <4>4. Agrees(served, vhost')
          BY <2>2, <4>3, AgreesPointwise
        <4>5. Agrees(LoadedFrom(vhost'), vhost')
          BY <1>1, <4>2, LoadedAgrees
        <4>6. QED
          BY <4>1, <4>4, <4>5
      <3>4. QED
        BY <1>5, <3>1, <3>2, <3>3
    <2>4. QED
      BY <2>1, <2>3 DEF DiskInv
  <1>6. QED
    BY <1>2, <1>3, <1>4, <1>5, QuietStep, CallOfRemove, CallOfRender

LEMMA DiskHolds == Spec => [](TypeInv /\ DiskInv)
  <1>1. Init => DiskInv
    <2> SUFFICES ASSUME Init PROVE DiskInv
      OBVIOUS
    <2>1. vhost = NoFiles /\ served = NoFiles /\ \A w \in Workers : ~Rendering(w)
      BY NoCallFields DEF Init, NoFiles, Rendering
    <2>2. QED
      BY <2>1 DEF DiskInv, Agrees, NoFiles
  <1>2. QED
    BY <1>1, TypesHold, DiskStep, PTL DEF Spec

\* Between applies nginx serves exactly what the files say, through rollbacks, an
\* Apply that changed nothing, and a master configuration that nginx rejects.
THEOREM DiskIsWhatIsServed == Spec => []DiskIsServed
  <1>1. DiskInv => DiskIsServed
    BY DEF DiskInv, DiskIsServed, Agrees
  <1>2. QED
    BY <1>1, DiskHolds, PTL
-----------------------------------------------------------------------------
(* An Apply of all the sites *)

FileFine(d) == vhost[d] # NoVhost /\ vhost[d].tls = "le" => LeExists(d)

\* An Apply of everything that nobody disturbs has left a file behind it only
\* with a certificate that exists.
Heals(w) ==
    /\ Rendering(w) /\ call[w].S = Domains
    /\ call[w].company = "none" /\ call[w].failed = FALSE

HealInv == \A w \in Workers : Heals(w) => \A d \in Domains \ call[w].todo : FileFine(d)

LEMMA NotMarked ==
  ASSUME NEW x, QuietCall(x), Rendering(x)', call'[x].company = "none"
  PROVE  call[x].company = "none" /\ Rendering(x) /\ Stays(call'[x], call[x])
  BY DEF QuietCall, Rendering, Stays

LEMMA HealsQuietly ==
  ASSUME TypeInv, HealInv, [Next]_vars, vhost' = vhost, NEW x \in Workers,
         QuietCall(x), Heals(x)', NEW d \in Domains \ call'[x].todo
  PROVE  FileFine(d)'
  <1>1. Rendering(x)' /\ call'[x].company = "none" /\ call'[x].failed = FALSE
        /\ call'[x].S = Domains
    BY DEF Heals
  <1>2. call[x].company = "none" /\ Rendering(x) /\ Stays(call'[x], call[x])
    BY <1>1, NotMarked
  <1>3. Heals(x) /\ d \notin call[x].todo /\ d \in call[x].S
    BY <1>1, <1>2 DEF Heals, Stays
  <1>4. FileFine(d)
    BY <1>3 DEF HealInv
  <1>5. ASSUME vhost[d] # NoVhost, vhost[d].tls = "le"
        PROVE  LeExists(d)'
    <2>1. LeExists(d)
      BY <1>4, <1>5 DEF FileFine
    <2>2. call[x].pc # "clear"
      BY <1>2 DEF Rendering
    <2>3. QED
      BY <1>1, <1>3, <2>1, <2>2, CertStays
  <1>6. QED
    BY <1>5 DEF FileFine

\* The file of a site that was just rendered names certbot's certificate exactly
\* when there is one.
LEMMA RenderedFile ==
  ASSUME TypeInv, NEW w \in Workers, NEW d \in Domains,
         RemoveSite(w, d) \/ RenderSite(w, d), call'[w].failed = FALSE
  PROVE  /\ call'[w].todo = call[w].todo \ {d} /\ d \in call[w].todo
         /\ call'[w].S = call[w].S /\ call'[w].company = call[w].company
         /\ call'[w].kind = call[w].kind /\ call[w].failed = FALSE
         /\ Rendering(w)
         /\ \/ site[d] = NoSite /\ vhost' = [vhost EXCEPT ![d] = NoVhost]
            \/ \E tls \in {"le", "self"} :
                  /\ site[d] \in Versions
                  /\ vhost' = [vhost EXCEPT ![d] = File(site[d], tls)]
                  /\ LeExists(d) => tls = "le"
                  /\ tls = "le" => LeExists(d)
  <1>1. CASE RemoveSite(w, d)
    BY <1>1, CallOfRemove DEF Renders, Rendering
  <1>2. CASE RenderSite(w, d)
    <2>1. ~Skips(call'[w], call[w], d)
      BY DEF Skips
    <2>2. PICK tls \in {"le", "self"} :
             /\ Renders(call'[w], call[w], d, File(site[d], tls))
             /\ tls = "le" <=> LeExists(d)
      BY <1>2, <2>1, CallOfRender
    <2>3. call[w].pc = "render" /\ d \in call[w].todo /\ site[d] \in Versions
      BY <1>2, CallOfRender
    <2>4. QED
      BY <2>2, <2>3 DEF Renders, Rendering
  <1>3. QED
    BY <1>1, <1>2

LEMMA SameLeExists ==
  ASSUME UNCHANGED <<live, base, alt>>, NEW d
  PROVE  LeExists(d)' <=> LeExists(d)
  BY DEF LeExists, LeCert

LEMMA HealStep == TypeInv /\ DiskInv /\ HealInv /\ [Next]_vars => HealInv'
  <1> SUFFICES ASSUME TypeInv, DiskInv, HealInv, [Next]_vars,
                      NEW x \in Workers, Heals(x)', NEW e \in Domains \ call'[x].todo
               PROVE  FileFine(e)'
    BY DEF HealInv
  <1>1. CASE Quiet
    BY <1>1, HealsQuietly DEF Quiet
  <1>2. ASSUME NEW w \in Workers, TakeApplyMu(w)
        PROVE  FileFine(e)'
    <2>1. CASE x = w
      BY <1>2, <2>1, CallOfTake DEF Heals
    <2>2. CASE x # w
      BY <1>2, <2>2, TakeCalls, HealsQuietly
    <2>3. QED
      BY <2>1, <2>2
  <1>3. ASSUME NEW w \in Workers, NEW d \in Domains, RemoveSite(w, d) \/ RenderSite(w, d)
        PROVE  FileFine(e)'
    <2>1. x = w
      BY <1>3, RendersAlone DEF Heals
    <2>2. call'[w].failed = FALSE /\ call'[w].company = "none" /\ call'[w].S = Domains
      BY <2>1 DEF Heals
    <2>3. /\ call'[w].todo = call[w].todo \ {d} /\ Heals(w)
          /\ \/ vhost' = [vhost EXCEPT ![d] = NoVhost]
             \/ \E tls : /\ vhost' = [vhost EXCEPT ![d] = File(site[d], tls)]
                         /\ tls = "le" => LeExists(d)
      BY <1>3, <2>2, RenderedFile DEF Heals
    <2>4. LeExists(e)' <=> LeExists(e)
      BY <1>3, RenderCalls, SameLeExists
    <2>5. vhost \in [Domains -> Vhost \cup {NoVhost}]
      BY TypeParts DEF HostOK
    <2>6. CASE e = d
      BY <2>3, <2>4, <2>5, <2>6 DEF FileFine, File
    <2>7. CASE e # d
      <3>1. FileFine(e)
        BY <2>1, <2>3, <2>7 DEF HealInv
      <3>2. vhost'[e] = vhost[e]
        BY <2>3, <2>5, <2>7
      <3>3. QED
        BY <2>4, <3>1, <3>2 DEF FileFine
    <2>8. QED
      BY <2>6, <2>7
  <1>4. ASSUME NEW w \in Workers, NothingChanged(w) \/ LoadOrRollBack(w)
        PROVE  FALSE
    BY <1>4, EndFrees DEF Heals
  <1>5. QED
    BY <1>1, <1>2, <1>3, <1>4, QuietStep

\* Only the last step of an Apply ends a call that renders.
LEMMA HowItEnds ==
  ASSUME TypeInv, DiskInv, [Next]_vars, NEW w \in Workers, Ends(w)
  PROVE  NothingChanged(w) \/ LoadOrRollBack(w)
  <1>1. Rendering(w) /\ ~Rendering(w)'
    BY DEF Ends, Rendering
  <1>2. ~QuietCall(w)
    BY <1>1, QuietRendering
  <1>3. ASSUME NEW x \in Workers, TakeApplyMu(x)
        PROVE  FALSE
    BY <1>1, <1>2, <1>3, TakeCalls, CallOfTake DEF Rendering
  <1>4. ASSUME NEW x \in Workers, NEW d \in Domains, RemoveSite(x, d) \/ RenderSite(x, d)
        PROVE  FALSE
    BY <1>1, <1>4, RendersAlone
  <1>5. ASSUME NEW x \in Workers, NothingChanged(x) \/ LoadOrRollBack(x)
        PROVE  x = w
    BY <1>2, <1>5, EndCalls
  <1>6. QED
    BY <1>2, <1>3, <1>4, <1>5, QuietStep DEF Quiet

\* An Apply of all the sites that ends well leaves a configuration that nginx
\* accepts: the file of every certificate that is gone was rendered again, so
\* that one deleted certificate does not hold up the other sites for ever.
THEOREM AllIsHealed == Spec => ApplyAllHeals
  <1>1. Init => HealInv
    BY NoCallFields DEF Init, HealInv, Heals, Rendering
  <1>2. ASSUME TypeInv, DiskInv, HealInv, [Next]_vars, NEW w \in Workers,
               Ends(w), call[w].S = Domains, call[w].company = "none",
               ~call[w].failed, master \in GoodMasters
        PROVE  Valid(vhost')
    <2>1. NothingChanged(w) \/ LoadOrRollBack(w)
      BY <1>2, HowItEnds
    <2>2. Rendering(w) /\ call[w].todo = {}
      BY <1>2, <2>1, EndFrees
    <2>3. call[w].failed = FALSE
      BY <1>2, CallType DEF Call
    <2>4. \A d \in Domains : FileFine(d)
      BY <1>2, <2>2, <2>3 DEF HealInv, Heals
    <2>5. Valid(vhost)
      BY <1>2, <2>4 DEF Valid, FileFine, LeExists
    <2>6. vhost' = vhost
      BY <2>1, <2>5 DEF NothingChanged, LoadOrRollBack, hostVars
    <2>7. QED
      BY <2>5, <2>6 DEF Valid
  <1>3. TypeInv /\ DiskInv /\ HealInv /\ [Next]_vars =>
           [\A w \in Workers :
               Ends(w) /\ call[w].S = Domains /\ call[w].company = "none"
               /\ ~call[w].failed /\ master \in GoodMasters
               => Valid(vhost')]_vars
    BY <1>2
  <1>4. QED
    BY <1>1, <1>3, DiskHolds, HealStep, PTL DEF Spec, ApplyAllHeals
-----------------------------------------------------------------------------
(* CertIssue *)

\* A CertIssue that nobody disturbs and that is to be applied.
Issues(w) ==
    /\ call[w].kind = "issue" /\ call[w].company = "none"
    /\ call[w].pc \in {"wait", "render"}

\* Its site is rendered, and is still one.
IssueRendered(w) ==
    /\ Rendering(w) /\ call[w].failed = FALSE
    /\ Site(w) \notin call[w].todo /\ site[Site(w)] # NoSite

NamesLe(d) == vhost[d] # NoVhost /\ vhost[d].tls = "le"

\* From its check on the certificate is there, and once the site is rendered its
\* file names it.
IssueInv ==
    \A w \in Workers :
        Issues(w) => /\ LeExists(Site(w))
                     /\ IssueRendered(w) => NamesLe(Site(w))

LEMMA SiteOfIssue ==
  ASSUME TypeInv, NEW w \in Workers, call[w].kind = "issue"
  PROVE  Site(w) \in Domains /\ call[w].S = {Site(w)}
  BY CallType, SiteOfCall DEF SitesOf

LEMMA SameSite ==
  ASSUME NEW w, call'[w].S = call[w].S
  PROVE  Site(w)' = Site(w)
  BY DEF Site

\* The row of a site that nobody disturbs stays.
LEMMA RowStays ==
  ASSUME TypeInv, [Next]_vars, NEW x \in Workers, NEW d \in Domains,
         d \in call[x].S, call'[x].company = "none"
  PROVE  site'[d] = site[d]
  <1>1. ASSUME NEW e \in Domains, NEW v \in Versions \cup {NoSite}, WriteSite(e, v)
        PROVE  site'[d] = site[d]
    <2>1. Disturbed(e) /\ site' = [site EXCEPT ![e] = v]
      BY <1>1 DEF WriteSite
    <2>2. e # d
      BY <2>1, DisturbedEffect
    <2>3. QED
      BY <2>1, <2>2, TypeParts DEF HostOK
  <1>2. QED
    BY <1>1, SiteSteps

LEMMA IssuesQuietly ==
  ASSUME TypeInv, IssueInv, [Next]_vars, NEW x \in Workers, QuietCall(x), Issues(x)',
         Rendering(x) => vhost' = vhost
  PROVE  LeExists(Site(x))' /\ (IssueRendered(x)' => NamesLe(Site(x))')
  <1>1. /\ call'[x].kind = "issue" /\ call'[x].company = "none"
        /\ call'[x].pc \in {"wait", "render"}
    BY DEF Issues
  <1>2. CASE Stays(call'[x], call[x]) /\ (call[x].company # "none" =>
                                            call'[x].company # "none")
    <2>1. Issues(x) /\ call[x].kind = "issue" /\ call[x].pc # "clear"
      BY <1>1, <1>2 DEF Stays, Issues
    <2>2. PICK d \in Domains : d = Site(x)
      BY <2>1, SiteOfIssue
    <2>3. Site(x)' = d /\ d \in call[x].S
      BY <1>2, <2>1, <2>2, SiteOfIssue, SameSite DEF Stays
    <2>4. LeExists(d)
      BY <2>1, <2>2 DEF IssueInv
    <2>5. LeExists(d)' /\ site'[d] = site[d]
      BY <1>1, <2>1, <2>3, <2>4, CertStays, RowStays
    <2>6. LeExists(Site(x))'
      BY <2>3, <2>5 DEF LeExists, LeCert
    <2>7. ASSUME IssueRendered(x)'
          PROVE  NamesLe(Site(x))'
      <3>1. Rendering(x) /\ IssueRendered(x)
        BY <1>2, <2>2, <2>3, <2>5, <2>7 DEF IssueRendered, Rendering, Stays
      <3>2. NamesLe(d)
        BY <2>1, <2>2, <3>1 DEF IssueInv
      <3>3. QED
        BY <2>3, <3>1, <3>2 DEF NamesLe
    <2>8. QED
      BY <2>6, <2>7
  <1>3. CASE /\ call'[x].pc # "render"
             /\ call'[x].pc = "wait" /\ call'[x].kind = "issue" =>
                   Moves(call'[x], call[x]) /\ call[x].pc = "verify" /\ LeExists(Site(x))
    <2>1. Moves(call'[x], call[x]) /\ call[x].pc = "verify" /\ LeExists(Site(x))
      BY <1>1, <1>3
    <2>2. call[x].kind = "issue" /\ call[x].pc # "clear" /\ call'[x].S = call[x].S
      BY <1>1, <2>1 DEF Moves
    <2>3. PICK d \in Domains : d = Site(x)
      BY <2>2, SiteOfIssue
    <2>4. Site(x)' = d /\ d \in call[x].S /\ LeExists(d)
      BY <2>1, <2>2, <2>3, SiteOfIssue, SameSite
    <2>5. LeExists(d)'
      BY <1>1, <2>2, <2>4, CertStays
    <2>6. LeExists(Site(x))'
      BY <2>4, <2>5 DEF LeExists, LeCert
    <2>7. QED
      BY <1>3, <2>6 DEF IssueRendered, Rendering
  <1>4. QED
    BY <1>2, <1>3 DEF QuietCall

LEMMA IssueStep == TypeInv /\ DiskInv /\ IssueInv /\ [Next]_vars => IssueInv'
  <1> SUFFICES ASSUME TypeInv, DiskInv, IssueInv, [Next]_vars,
                      NEW x \in Workers, Issues(x)'
               PROVE  LeExists(Site(x))' /\ (IssueRendered(x)' => NamesLe(Site(x))')
    BY DEF IssueInv
  <1> DEFINE d == Site(x)
  <1>1. CASE Quiet
    BY <1>1, IssuesQuietly DEF Quiet
  <1>2. ASSUME NEW w \in Workers, TakeApplyMu(w)
        PROVE  LeExists(Site(x))' /\ (IssueRendered(x)' => NamesLe(Site(x))')
    <2>1. CASE x = w
      <3>1. /\ call[x].S = call'[x].S /\ call[x].kind = call'[x].kind
            /\ call[x].company = call'[x].company /\ call[x].pc = "wait"
            /\ call'[x].todo = call'[x].S
        BY <1>2, <2>1, CallOfTake
      <3>2. Issues(x) /\ call[x].kind = "issue"
        BY <3>1 DEF Issues
      <3>3. d \in call[x].S /\ Site(x)' = d
        BY <3>1, <3>2, SiteOfIssue, SameSite
      <3>4. UNCHANGED <<live, base, alt>> /\ LeExists(d)
        BY <1>2, <3>2 DEF TakeApplyMu, certVars, IssueInv
      <3>5. LeExists(Site(x))'
        BY <3>3, <3>4 DEF LeExists, LeCert
      <3>6. ~IssueRendered(x)'
        BY <3>1, <3>3 DEF IssueRendered
      <3>7. QED
        BY <3>5, <3>6
    <2>2. CASE x # w
      BY <1>2, <2>2, TakeCalls, IssuesQuietly
    <2>3. QED
      BY <2>1, <2>2
  <1>3. ASSUME NEW w \in Workers, NEW e \in Domains, RemoveSite(w, e) \/ RenderSite(w, e)
        PROVE  LeExists(Site(x))' /\ (IssueRendered(x)' => NamesLe(Site(x))')
    <2>1. CASE x # w
      <3>1. ~Rendering(x) /\ QuietCall(x)
        BY <1>3, <2>1, RendersAlone, RenderCalls
      <3>2. QED
        BY <3>1, IssuesQuietly
    <2>2. CASE x = w
      <3>1. /\ call[x].S = call'[x].S /\ call[x].kind = call'[x].kind
            /\ call[x].company = call'[x].company /\ call[x].pc = "render"
            /\ e \in call[x].todo
        BY <1>3, <2>2, CallOfRemove, CallOfRender DEF Renders, Skips
      <3>2. Issues(x) /\ call[x].kind = "issue"
        BY <3>1 DEF Issues
      <3>3. call[x].S = {d} /\ d \in Domains /\ Site(x)' = d
        BY <3>1, <3>2, SiteOfIssue, SameSite
      <3>4. e = d
        BY <3>1, <3>3, CallType DEF SitesOf
      <3>5. UNCHANGED <<live, base, alt>> /\ LeExists(d) /\ site' = site
        BY <1>3, <3>2, RenderCalls DEF IssueInv
      <3>6. LeExists(Site(x))'
        BY <3>3, <3>5 DEF LeExists, LeCert
      <3>7. ASSUME IssueRendered(x)'
            PROVE  NamesLe(Site(x))'
        <4>1. call'[w].failed = FALSE /\ site[e] # NoSite
          BY <2>2, <3>3, <3>4, <3>5, <3>7 DEF IssueRendered
        <4>2. PICK tls \in {"le", "self"} :
                 /\ site[e] \in Versions
                 /\ vhost' = [vhost EXCEPT ![e] = File(site[e], tls)]
                 /\ LeExists(e) => tls = "le"
          BY <1>3, <4>1, RenderedFile
        <4>3. tls = "le"
          BY <3>4, <3>5, <4>2
        <4>4. vhost'[e] = File(site[e], "le")
          BY <3>3, <3>4, <4>2, <4>3, TypeParts DEF HostOK
        <4>5. File(site[e], "le") \in Vhost /\ File(site[e], "le").tls = "le"
          BY <4>2 DEF File, Vhost
        <4>6. QED
          BY <3>3, <3>4, <4>4, <4>5, VhostAssumption DEF NamesLe
      <3>8. QED
        BY <3>6, <3>7
    <2>3. QED
      BY <2>1, <2>2
  <1>4. ASSUME NEW w \in Workers, NothingChanged(w) \/ LoadOrRollBack(w)
        PROVE  LeExists(Site(x))' /\ (IssueRendered(x)' => NamesLe(Site(x))')
    <2>1. CASE x = w
      BY <1>4, <2>1, EndFrees, NoCallFields DEF Issues
    <2>2. CASE x # w
      <3>1. ~Rendering(x) /\ QuietCall(x)
        BY <1>4, <2>2, EndFrees, EndCalls, QuietRendering
      <3>2. QED
        BY <3>1, IssuesQuietly
    <2>3. QED
      BY <2>1, <2>2
  <1>5. QED
    BY <1>1, <1>2, <1>3, <1>4, QuietStep

\* CertIssue with its Apply, undisturbed and without an error, ends with nginx
\* serving the site with certbot's certificate: the Apply finds what certbot
\* wrote, suffixed or not, and a file that already named it is loaded already.
THEOREM IssuedGetsServed == Spec => IssuedIsServed
  <1>1. Init => IssueInv
    BY NoCallFields DEF Init, IssueInv, Issues
  <1>2. ASSUME TypeInv, DiskInv, IssueInv, [Next]_vars, NEW w \in Workers,
               Ends(w), call[w].kind = "issue", call[w].company = "none",
               site[Site(w)] # NoSite, ~call[w].failed, Valid(vhost)
        PROVE  served'[Site(w)] # NoVhost /\ served'[Site(w)].tls = "le"
    <2> DEFINE d == Site(w)
    <2>1. NothingChanged(w) \/ LoadOrRollBack(w)
      BY <1>2, HowItEnds
    <2>2. Rendering(w) /\ call[w].todo = {} /\ d \in Domains
      BY <1>2, <2>1, EndFrees, SiteOfIssue
    <2>3. call[w].failed = FALSE
      BY <1>2, CallType DEF Call
    <2>4. NamesLe(d)
      BY <1>2, <2>2, <2>3 DEF IssueInv, Issues, IssueRendered, Rendering
    <2>5. CASE NothingChanged(w)
      <3>1. served' = served /\ call[w].changed = {}
        BY <2>5 DEF NothingChanged, hostVars
      <3>2. vhost[d] = call[w].before[d] /\ Agrees(served, call[w].before)
        BY <1>2, <2>2, <3>1 DEF DiskInv
      <3>3. QED
        BY <2>2, <2>4, <3>1, <3>2 DEF Agrees, NamesLe
    <2>6. CASE LoadOrRollBack(w)
      <3>1. served' = LoadedFrom(vhost)
        BY <1>2, <2>6 DEF LoadOrRollBack
      <3>2. Agrees(served', vhost)
        BY <1>2, <3>1, TypeParts, LoadedAgrees DEF HostOK
      <3>3. QED
        BY <2>2, <2>4, <3>2 DEF Agrees, NamesLe
    <2>7. QED
      BY <2>1, <2>5, <2>6
  <1>3. TypeInv /\ DiskInv /\ IssueInv /\ [Next]_vars =>
           [\A w \in Workers :
               LET d == Site(w) IN
               Ends(w) /\ call[w].kind = "issue" /\ call[w].company = "none"
               /\ site[d] # NoSite /\ ~call[w].failed /\ Valid(vhost)
               => served'[d] # NoVhost /\ served'[d].tls = "le"]_vars
    BY <1>2
  <1>4. QED
    BY <1>1, <1>3, DiskHolds, IssueStep, PTL DEF Spec, IssuedIsServed
-----------------------------------------------------------------------------
(* The alias of a suffixed certificate *)

AtAlias(c, d) == c.pc \in {"clear", "link"} /\ d \in c.S

\* A directory called whole has its certificate.  A site whose alias was seen to
\* since anything happened to its certificates has no half directory, and if it
\* has a suffixed certificate it can be read, or some call is between removing
\* what was there and making the alias.  Such a call has removed the half
\* directory, unless one came from outside.
SiteInv(d) ==
    /\ live[d] = "whole" => base[d] # 0
    /\ d \in looked => live[d] # "half"
    /\ d \in looked /\ alt[d] # 0 =>
          LeExists(d) \/ \E w \in Workers : AtAlias(call[w], d)
    /\ \A w \in Workers :
          call[w].pc = "link" /\ call[w].company # "changes" /\ d \in call[w].S =>
             live[d] # "half"

AliasInv == \A d \in Domains : SiteInv(d)

\* The step of x is nothing to the alias of d.
Indifferent(x, d) ==
    LET c == call[x] r == call'[x] IN
    \/ Stays(r, c) /\ (c.company = "changes" => r.company = "changes")
    \/ c.pc \notin {"clear", "link"} /\ r.pc \notin {"clear", "link"}
    \/ d \notin c.S /\ d \notin r.S

LEMMA OthersIndifferent ==
  ASSUME NEW w, NEW T, StepOf(w, T), NEW x \in Workers, x # w, NEW d
  PROVE  Indifferent(x, d)
  BY DEF StepOf, Marked, Indifferent

LEMMA SiteFrame ==
  ASSUME NEW d \in Domains, SiteInv(d),
         live'[d] = live[d], base'[d] = base[d], alt'[d] = alt[d],
         d \in looked' => d \in looked,
         \A x \in Workers : Indifferent(x, d)
  PROVE  SiteInv(d)'
  <1>1. LeExists(d)' <=> LeExists(d)
    BY DEF LeExists, LeCert
  <1>2. ASSUME NEW w \in Workers, AtAlias(call[w], d)
        PROVE  AtAlias(call'[w], d)
    BY <1>2 DEF AtAlias, Indifferent, Stays
  <1>3. ASSUME NEW w \in Workers, call'[w].pc = "link", call'[w].company # "changes",
               d \in call'[w].S
        PROVE  live'[d] # "half"
    BY <1>3 DEF Indifferent, Stays, SiteInv
  <1>4. ASSUME d \in looked', alt'[d] # 0
        PROVE  LeExists(d)' \/ \E w \in Workers : AtAlias(call'[w], d)
    BY <1>1, <1>2, <1>4 DEF SiteInv
  <1>5. QED
    BY <1>3, <1>4 DEF SiteInv

LEMMA AliasSteps ==
  ASSUME TypeInv, [Next]_vars
  PROVE  \/ /\ UNCHANGED <<live, base, alt, looked>>
            /\ \A x \in Workers, d \in Domains : Indifferent(x, d)
         \/ \E w \in Workers : \/ LookForAlias(w) \/ ClearAlias(w) \/ MakeAlias(w)
                               \/ RunCertonly(w) \/ RunRenew(w)
         \/ \E d \in Domains : /\ CertbotDelete(d) \/ HalfRestored(d)
                               /\ Disturbed(d) /\ looked' = looked \ {d}
  <1> DEFINE Nothing == /\ UNCHANGED <<live, base, alt, looked>>
                        /\ \A x \in Workers, d \in Domains : Indifferent(x, d)
  <1>1. ASSUME UNCHANGED <<live, base, alt, looked, call>>
        PROVE  Nothing
    BY <1>1, StaysSelf DEF Indifferent
  <1>2. CASE UNCHANGED vars \/ ProvisionStep \/ FpmRestarts
    BY <1>1, <1>2 DEF vars, certVars, histVars, ProvisionStep, FpmRestarts
  <1>3. CASE \E d \in Domains, v \in Versions \cup {NoSite} : WriteSite(d, v)
    <2>1. PICK e \in Domains : /\ Disturbed(e)
                               /\ UNCHANGED <<live, base, alt, looked>>
      BY <1>3 DEF WriteSite, certVars, histVars
    <2>2. \A x \in Workers, d \in Domains : Indifferent(x, d)
      BY <2>1, DisturbedEffect DEF Indifferent
    <2>3. QED
      BY <2>1, <2>2
  <1>4. CASE CertEvent
    BY <1>1, <1>4 DEF CertEvent, BecomeDue
  <1>5. ASSUME NEW w \in Workers, NEW T, StepOf(w, T),
               UNCHANGED <<live, base, alt, looked>>,
               call[w].pc \notin {"clear", "link"}, call'[w].pc \notin {"clear", "link"}
        PROVE  Nothing
    <2>1. \A d \in Domains : Indifferent(w, d)
      BY <1>5 DEF Indifferent
    <2>2. QED
      BY <1>5, <2>1, OthersIndifferent
  <1> HIDE DEF Nothing
  <1>6. ASSUME NEW w \in Workers, Request(w)
        PROVE  Nothing
    BY <1>5, <1>6, CallOfStart DEF certVars, histVars
  <1>7. ASSUME NEW w \in Workers, DecideIssue(w) \/ VerifyIssued(w)
        PROVE  Nothing
    <2>1. UNCHANGED <<live, base, alt, looked>>
      BY <1>7 DEF DecideIssue, VerifyIssued, certVars, histVars
    <2>2. StepOf(w, {}) /\ call[w].pc \in {"decide", "verify"}
          /\ call'[w].pc \in {"idle", "certbot", "wait"}
      BY <1>7, CallOfDecide, CallOfVerify, NoCallFields
    <2>3. QED
      BY <1>5, <2>1, <2>2
  <1>8. ASSUME NEW w \in Workers, TakeApplyMu(w)
        PROVE  Nothing
    BY <1>5, <1>8, CallOfTake DEF TakeApplyMu, certVars, histVars
  <1>9. ASSUME NEW w \in Workers, NEW d \in Domains, RemoveSite(w, d) \/ RenderSite(w, d)
        PROVE  Nothing
    <2>1. UNCHANGED <<live, base, alt, looked>>
      BY <1>9, RenderCalls DEF RemoveSite, RenderSite, histVars
    <2>2. StepOf(w, {}) /\ call[w].pc = "render" /\ call'[w].pc = "render"
      BY <1>9, CallOfRemove, CallOfRender DEF Renders, Skips
    <2>3. QED
      BY <1>5, <2>1, <2>2
  <1>10. ASSUME NEW w \in Workers, NothingChanged(w) \/ LoadOrRollBack(w)
         PROVE  Nothing
    <2>1. UNCHANGED <<live, base, alt, looked>>
      BY <1>10 DEF NothingChanged, LoadOrRollBack, certVars, histVars
    <2>2. QED
      BY <1>5, <1>10, <2>1, CallOfEnd, NoCallFields
  <1>11. ASSUME NEW w \in Workers, RequestStep(w)
         PROVE  \/ Nothing
                \/ LookForAlias(w) \/ ClearAlias(w) \/ MakeAlias(w)
                \/ RunCertonly(w) \/ RunRenew(w)
    BY <1>7, <1>8, <1>9, <1>10, <1>11 DEF RequestStep
  <1>12. QED
    BY <1>2, <1>3, <1>4, <1>6, <1>11 DEF Next, Nothing
\* A site that was seen to just now, by a call at no other site.
LEMMA AliasOfOthers ==
  ASSUME TypeInv, NEW w \in Workers, NEW T, StepOf(w, T), NEW e \in Domains,
         call[w].S = {e}, call'[w].S \in {{e}, {}}, NEW d \in Domains, d # e,
         live'[d] = live[d], base'[d] = base[d], alt'[d] = alt[d],
         d \in looked' => d \in looked, SiteInv(d)
  PROVE  SiteInv(d)'
  <1>1. Indifferent(w, d)
    BY DEF Indifferent
  <1>2. QED
    BY <1>1, OthersIndifferent, SiteFrame

LEMMA ResumesSites ==
  ASSUME NEW r, NEW c, Resumes(r, c)
  PROVE  r.S \in {c.S, {}} /\ r.pc \notin {"clear", "link"}
  BY NoCallFields DEF Resumes, Moves

LEMMA LookAlias ==
  ASSUME TypeInv, AliasInv, NEW w \in Workers, LookForAlias(w)
  PROVE  AliasInv'
  <1>1. UNCHANGED <<live, base, alt>>
    BY DEF LookForAlias, certVars
  <1>2. PICK e \in Domains : e = Site(w)
    BY CallOfLook
  <1>3. /\ StepOf(w, {}) /\ call[w].pc = "alias" /\ call[w].S = {e}
        /\ \/ NeedsAlias(e) /\ call'[w].pc = "clear" /\ Moves(call'[w], call[w])
              /\ looked' = looked
           \/ ~NeedsAlias(e) /\ Resumes(call'[w], call[w]) /\ LooksAgain(w)
    BY <1>2, CallOfLook
  <1>4. call'[w].S \in {{e}, {}} /\ call'[w].pc # "link"
    BY <1>3, ResumesSites DEF Moves
  <1>5. /\ \A d \in looked' : d \in looked \/ d = e
        /\ e \in looked' /\ alt[e] # 0 => e \in looked \/ LeExists(e)
    BY <1>2, <1>3 DEF LooksAgain, NeedsAlias
  <1>6. ASSUME NEW d \in Domains, d # e
        PROVE  SiteInv(d)'
    BY <1>1, <1>3, <1>4, <1>5, <1>6, AliasOfOthers DEF AliasInv
  <1>7. SiteInv(e)'
    <2>1. LeExists(e)' <=> LeExists(e)
      BY <1>1 DEF LeExists, LeCert
    <2>2. SiteInv(e)
      BY DEF AliasInv
    <2>3. ASSUME NEW x \in Workers, AtAlias(call[x], e)
          PROVE  AtAlias(call'[x], e)
      <3>1. x # w
        BY <1>3, <2>3 DEF AtAlias
      <3>2. QED
        BY <1>3, <2>3, <3>1 DEF StepOf, Marked, Stays, AtAlias
    <2>4. ASSUME NEW x \in Workers, call'[x].pc = "link",
                 call'[x].company # "changes", e \in call'[x].S
          PROVE  live[e] # "half"
      <3>1. x # w
        BY <1>4, <2>4
      <3>2. QED
        BY <1>3, <2>2, <2>4, <3>1 DEF StepOf, Marked, Stays, SiteInv
    <2>5. e \in looked' => e \in looked \/ alt[e] # 0
      BY <1>2, <1>3, <1>5 DEF LooksAgain
    <2>6. e \in looked' => live[e] # "half"
      BY <1>5, <2>2, <2>5 DEF SiteInv, LeExists, LeCert
    <2>7. QED
      BY <1>1, <1>5, <2>1, <2>2, <2>3, <2>4, <2>6 DEF SiteInv
  <1>8. QED
    BY <1>6, <1>7 DEF AliasInv

LEMMA ClearAliasKeeps ==
  ASSUME TypeInv, AliasInv, NEW w \in Workers, ClearAlias(w)
  PROVE  AliasInv'
  <1>1. PICK e \in Domains : e = Site(w)
    BY CallOfClear
  <1>2. /\ StepOf(w, {e}) /\ call[w].S = {e} /\ call'[w].pc = "link"
        /\ call'[w].S = {e}
    BY <1>1, CallOfClear DEF Moves
  <1>3. /\ live' = [live EXCEPT ![e] = "none"] /\ base' = [base EXCEPT ![e] = 0]
        /\ alt' = alt /\ looked' = looked /\ CertsTypeOK
    BY <1>1, TypeParts DEF ClearAlias, ClearLive, histVars
  <1>4. ASSUME NEW d \in Domains, d # e
        PROVE  SiteInv(d)'
    <2>1. live'[d] = live[d] /\ base'[d] = base[d] /\ alt'[d] = alt[d]
      BY <1>3, <1>4 DEF CertsTypeOK
    <2>2. QED
      BY <1>2, <1>3, <1>4, <2>1, AliasOfOthers DEF AliasInv
  <1>5. SiteInv(e)'
    <2>1. live'[e] = "none"
      BY <1>3 DEF CertsTypeOK
    <2>2. AtAlias(call'[w], e)
      BY <1>2 DEF AtAlias
    <2>3. QED
      BY <2>1, <2>2 DEF SiteInv
  <1>6. QED
    BY <1>4, <1>5 DEF AliasInv

LEMMA MakeAliasKeeps ==
  ASSUME TypeInv, AliasInv, NEW w \in Workers, MakeAlias(w)
  PROVE  AliasInv'
  <1>1. base' = base /\ alt' = alt /\ CertsTypeOK
    BY TypeParts DEF MakeAlias, Symlink
  <1>2. PICK e \in Domains : e = Site(w)
    BY CallOfLink
  <1>3. /\ StepOf(w, {}) /\ call[w].pc = "link" /\ call[w].S = {e}
        /\ \/ live[e] = "none" /\ live' = [live EXCEPT ![e] = "link"]
           \/ live[e] # "none" /\ live' = live
        /\ \/ Resumes(call'[w], call[w]) /\ LooksAgain(w)
           \/ /\ live[e] # "none" /\ live' = live
              /\ call'[w] = NoCall /\ looked' = looked
    BY <1>2, CallOfLink
  <1>4. call'[w].S \in {{e}, {}} /\ call'[w].pc # "link"
    BY <1>3, ResumesSites, NoCallFields
  <1>5. /\ \A d \in looked' : d \in looked \/ d = e
        /\ e \in looked' => e \in looked \/ call[w].company # "changes"
    BY <1>2, <1>3 DEF LooksAgain
  <1>6. ASSUME NEW d \in Domains, d # e
        PROVE  SiteInv(d)'
    <2>1. live'[d] = live[d]
      BY <1>1, <1>3, <1>6 DEF CertsTypeOK
    <2>2. QED
      BY <1>1, <1>3, <1>4, <1>5, <1>6, <2>1, AliasOfOthers DEF AliasInv
  <1>7. SiteInv(e)'
    <2>1. SiteInv(e)
      BY DEF AliasInv
    <2>2. live[e] \in {"none", "whole", "half", "link"} /\ live'[e] # "none"
          /\ live'[e] \in {live[e], "link"}
      BY <1>1, <1>3 DEF CertsTypeOK
    <2>3. e \in looked' => live'[e] # "half"
      BY <1>3, <1>5, <2>1, <2>2 DEF SiteInv
    <2>4. live'[e] = "whole" => base'[e] # 0
      BY <1>1, <2>1, <2>2 DEF SiteInv
    <2>5. e \in looked' /\ alt'[e] # 0 => LeExists(e)'
      BY <1>1, <2>2, <2>3, <2>4 DEF LeExists, LeCert
    <2>6. ASSUME NEW x \in Workers, call'[x].pc = "link",
                 call'[x].company # "changes", e \in call'[x].S
          PROVE  live'[e] # "half"
      <3>1. x # w
        BY <1>4, <2>6
      <3>2. call[x].pc = "link" /\ call[x].company # "changes" /\ e \in call[x].S
        BY <1>3, <2>6, <3>1 DEF StepOf, Marked, Stays
      <3>3. QED
        BY <2>1, <2>2, <3>2 DEF SiteInv
    <2>7. QED
      BY <2>3, <2>4, <2>5, <2>6 DEF SiteInv
  <1>8. QED
    BY <1>6, <1>7 DEF AliasInv

LEMMA CertonlyKeeps ==
  ASSUME TypeInv, AliasInv, NEW w \in Workers, RunCertonly(w)
  PROVE  AliasInv'
  <1>1. PICK e \in Domains : e = Site(w)
    BY CallOfCertonly
  <1>2. /\ StepOf(w, {e}) /\ call[w].pc = "certbot" /\ call[w].S = {e}
        /\ call'[w].pc \notin {"clear", "link"}
        /\ call'[w].S \in {{e}, {}} /\ looked' = looked \ {e}
    BY <1>1, CallOfCertonly, NoCallFields DEF Moves
  <1>3. CertsTypeOK /\ \E ok \in BOOLEAN : Certonly(e, ok)
    BY <1>1, CallOfCertonly, TypeParts
  <1>4. \/ UNCHANGED <<live, base, alt>>
        \/ /\ runs' = runs + 1 /\ live' = [live EXCEPT ![e] = "whole"]
           /\ base' = [base EXCEPT ![e] = runs'] /\ alt' = alt
        \/ /\ alt' = [alt EXCEPT ![e] = runs'] /\ live' = live /\ base' = base
    BY <1>3 DEF Certonly, certVars
  <1>5. ASSUME NEW d \in Domains, d # e
        PROVE  SiteInv(d)'
    <2>1. live'[d] = live[d] /\ base'[d] = base[d] /\ alt'[d] = alt[d]
      BY <1>3, <1>4, <1>5 DEF CertsTypeOK
    <2>2. QED
      BY <1>2, <1>5, <2>1, AliasOfOthers DEF AliasInv
  <1>6. SiteInv(e)'
    <2>1. SiteInv(e) /\ e \notin looked'
      BY <1>2 DEF AliasInv
    <2>2. \/ live'[e] = live[e] /\ base'[e] = base[e]
          \/ live'[e] = "whole" /\ base'[e] = runs + 1
      BY <1>3, <1>4 DEF CertsTypeOK
    <2>3. live'[e] = "whole" => base'[e] # 0
      BY <1>3, <2>1, <2>2, CertsAssumption DEF SiteInv, CertsTypeOK
    <2>4. ASSUME NEW x \in Workers, call'[x].pc = "link",
                 call'[x].company # "changes", e \in call'[x].S
          PROVE  live'[e] # "half"
      <3>1. x # w
        BY <1>2, <2>4
      <3>2. call[x].pc = "link" /\ call[x].company # "changes" /\ e \in call[x].S
        BY <1>2, <2>4, <3>1 DEF StepOf, Marked, Stays
      <3>3. QED
        BY <2>1, <2>2, <3>2 DEF SiteInv
    <2>5. QED
      BY <2>1, <2>3, <2>4 DEF SiteInv
  <1>7. QED
    BY <1>5, <1>6 DEF AliasInv

LEMMA RenewKeeps ==
  ASSUME TypeInv, AliasInv, NEW w \in Workers, RunRenew(w)
  PROVE  AliasInv'
  <1>1. /\ StepOf(w, call[w].S) /\ call[w].pc = "certbot"
        /\ call'[w].pc \notin {"clear", "link"} /\ CertsTypeOK
        /\ \E ok \in BOOLEAN : RenewAll(ok) \/ RenewCert(Site(w), ok)
    BY CallOfRenew, NoCallFields, TypeParts
  <1>2. looked' = looked
    BY DEF RunRenew, histVars
  <1>3. live' = live
    BY <1>1 DEF RenewAll, RenewCert, Renew, certVars
  <1>4. ASSUME NEW d \in Domains
        PROVE  /\ base[d] # 0 => base'[d] # 0
               /\ alt[d] # 0 <=> alt'[d] # 0
    <2>1. CASE UNCHANGED certVars
      BY <2>1 DEF certVars
    <2>2. ASSUME NEW B, NEW A, NEW ok, Renew(B, A, ok)
          PROVE  /\ base[d] # 0 => base'[d] # 0
                 /\ alt[d] # 0 <=> alt'[d] # 0
      <3>1. PICK doneB \in SUBSET {x \in B : base[x] \in due},
                 doneA \in SUBSET {x \in A : alt[x] \in due} :
               /\ runs' = IF doneB \cup doneA = {} THEN runs ELSE runs + 1
               /\ base' = [x \in Domains |-> IF x \in doneB THEN runs' ELSE base[x]]
               /\ alt' = [x \in Domains |-> IF x \in doneA THEN runs' ELSE alt[x]]
        BY <2>2 DEF Renew
      <3>2. d \in doneB \/ d \in doneA => runs' # 0
        BY <1>1, <3>1, CertsAssumption DEF CertsTypeOK
      <3>3. d \in doneA => alt[d] # 0
        BY <1>1, <3>1 DEF CertsTypeOK
      <3>4. QED
        BY <3>1, <3>2, <3>3
    <2>3. QED
      BY <1>1, <2>1, <2>2 DEF RenewAll, RenewCert
  <1>5. ASSUME NEW d \in Domains
        PROVE  SiteInv(d)'
    <2>1. SiteInv(d)
      BY DEF AliasInv
    <2>2. LeExists(d) => LeExists(d)'
      BY <1>3, <1>4 DEF LeExists, LeCert
    <2>3. ASSUME NEW x \in Workers, AtAlias(call[x], d)
          PROVE  AtAlias(call'[x], d)
      <3>1. x # w
        BY <1>1, <2>3 DEF AtAlias
      <3>2. QED
        BY <1>1, <2>3, <3>1 DEF StepOf, Marked, Stays, AtAlias
    <2>4. ASSUME NEW x \in Workers, call'[x].pc = "link",
                 call'[x].company # "changes", d \in call'[x].S
          PROVE  live'[d] # "half"
      <3>1. x # w
        BY <1>1, <2>4
      <3>2. call[x].pc = "link" /\ call[x].company # "changes" /\ d \in call[x].S
        BY <1>1, <2>4, <3>1 DEF StepOf, Marked, Stays
      <3>3. QED
        BY <1>3, <2>1, <3>2 DEF SiteInv
    <2>5. live'[d] = "whole" => base'[d] # 0
      BY <1>3, <1>4, <2>1 DEF SiteInv
    <2>6. d \in looked' /\ alt'[d] # 0 =>
             LeExists(d)' \/ \E x \in Workers : AtAlias(call'[x], d)
      BY <1>2, <1>4, <2>1, <2>2, <2>3 DEF SiteInv
    <2>7. QED
      BY <1>2, <1>3, <2>1, <2>4, <2>5, <2>6 DEF SiteInv
  <1>6. QED
    BY <1>5 DEF AliasInv

LEMMA EventKeeps ==
  ASSUME TypeInv, AliasInv, NEW e \in Domains, CertbotDelete(e) \/ HalfRestored(e),
         Disturbed(e), looked' = looked \ {e}
  PROVE  AliasInv'
  <1>1. /\ CertsTypeOK
        /\ \A x \in Workers : /\ Stays(call'[x], call[x])
                              /\ e \in call[x].S => call'[x].company = "changes"
                              /\ e \notin call[x].S =>
                                    call'[x].company = call[x].company
    BY TypeParts, DisturbedEffect
  <1>2. ASSUME NEW d \in Domains, d # e
        PROVE  SiteInv(d)'
    <2>1. live'[d] = live[d] /\ base'[d] = base[d] /\ alt'[d] = alt[d]
      BY <1>1, <1>2 DEF CertbotDelete, HalfRestored, CertsTypeOK
    <2>2. \A x \in Workers : Indifferent(x, d)
      BY <1>1 DEF Indifferent
    <2>3. QED
      BY <1>2, <2>1, <2>2, SiteFrame DEF AliasInv
  <1>3. SiteInv(e)'
    <2>1. SiteInv(e)
      BY DEF AliasInv
    <2>2. live'[e] = "whole" => base'[e] # 0
      BY <1>1, <2>1 DEF SiteInv, CertbotDelete, HalfRestored, CertsTypeOK
    <2>3. \A x \in Workers : e \in call'[x].S => call'[x].company = "changes"
      BY <1>1 DEF Stays
    <2>4. QED
      BY <2>2, <2>3 DEF SiteInv
  <1>4. QED
    BY <1>2, <1>3 DEF AliasInv

LEMMA AliasStep == TypeInv /\ AliasInv /\ [Next]_vars => AliasInv'
  <1> SUFFICES ASSUME TypeInv, AliasInv, [Next]_vars PROVE AliasInv'
    OBVIOUS
  <1>1. CASE /\ UNCHANGED <<live, base, alt, looked>>
             /\ \A x \in Workers, d \in Domains : Indifferent(x, d)
    <2>1. ASSUME NEW d \in Domains
          PROVE  SiteInv(d)'
      BY <1>1, SiteFrame DEF AliasInv
    <2>2. QED
      BY <2>1 DEF AliasInv
  <1>2. QED
    BY <1>1, AliasSteps, LookAlias, ClearAliasKeeps, MakeAliasKeeps, CertonlyKeeps,
       RenewKeeps, EventKeeps

\* When no request is in progress, every site whose alias was seen to since
\* anything happened to its certificates, and which has a suffixed certificate,
\* is found by its name: however many requests remove and make the alias at the
\* same time, the last of them leaves one.
THEOREM AliasIsLeft == Spec => []AliasAtRest
  <1>1. Init => AliasInv
    BY NoCallFields DEF Init, CertsInit, AliasInv, SiteInv
  <1>2. AliasInv /\ TypeInv => AliasAtRest
    BY DEF AliasInv, SiteInv, AliasAtRest, AtAlias, TypeInv, TypeOK
  <1>3. QED
    BY <1>1, <1>2, TypesHold, AliasStep, PTL DEF Spec

=============================================================================
