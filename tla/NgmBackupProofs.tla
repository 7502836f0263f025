--------------------------- MODULE NgmBackupProofs ---------------------------
(***************************************************************************)
(* What the commands of NgmAccounts and the restores of NgmBackup keep     *)
(* true, for any names, packages, sites, ids and number of commands.       *)
(***************************************************************************)
EXTENDS NgmBackup, WellFoundedInduction, TLAPS

\* Next_left takes the least.
LEMMA LeastLeft ==
  ASSUME NEW S, S \subseteq Nat, S # {}
  PROVE  Next_left(S) \in S /\ \A y \in S : Next_left(S) <= y
  <1>1. PICK x \in S : \A y \in S : ~(<<y, x>> \in OpToRel(<, Nat))
    BY NatLessThanWellFounded, WFMin
  <1>2. \A y \in S : ~(y < x)
    BY <1>1 DEF OpToRel
  <1>3. \A y \in S : x <= y
    BY <1>2
  <1>4. QED
    BY <1>3 DEF Next_left

-----------------------------------------------------------------------------
(* The tables: types without the bound of MaxId, and keys                    *)

RolesOrNone == Roles \cup {"none"}
Hashes      == {"none", "shadow", "bcrypt"}
GivenLimits == {"unlimited", "standard"}

PanelRow   == [id : Nat, role : RolesOrNone, hash : Hashes, reseller : Nat]
PackageRow == [id : Nat, limits : {"none", "unlimited", "standard"}]
SiteRow    == [owner : Nat, conf : Confs \cup {NoConf}, targets : SUBSET Targets]

Tables == [panel    : [Names -> PanelRow],
           users    : [Names -> Nat],
           packages : [Packages -> PackageRow],
           assigned : [Ids -> Nat],
           sites    : [Domains -> SiteRow],
           last     : [panel : Nat, users : Nat, packages : Nat]]

HasId(panel, i) == \E n \in Names : panel[n].id = i /\ i # 0

\* Ids are unique and were given out; a link leads to a row; no row, no fields.
PanelKeys(panel, last) ==
    \A n \in Names :
        /\ panel[n].id <= last
        /\ \A m \in Names : panel[m].id = panel[n].id /\ panel[n].id # 0 => m = n
        /\ panel[n].id = 0 => panel[n] = NoPanelUser
        /\ panel[n].reseller = 0 \/ HasId(panel, panel[n].reseller)

UserKeys(users, last) ==
    \A n \in Names :
        /\ users[n] <= last
        /\ \A m \in Names : users[m] = users[n] /\ users[n] # 0 => m = n

PackageKeys(packages, last) ==
    \A p \in Packages :
        /\ packages[p].id <= last
        /\ \A q \in Packages : packages[q].id = packages[p].id /\ packages[p].id # 0 => q = p
        /\ packages[p].id = 0 <=> packages[p].limits = "none"

SiteKeys(sites, users) ==
    \A d \in Domains :
        /\ sites[d].owner = 0 => sites[d] = NoSite
        /\ sites[d].owner = 0 \/ \E n \in Names : users[n] = sites[d].owner

Sound(s) ==
    /\ s \in Tables
    /\ PanelKeys(s.panel, s.last.panel)
    /\ UserKeys(s.users, s.last.users)
    /\ PackageKeys(s.packages, s.last.packages)
    /\ SiteKeys(s.sites, s.users)

\* The ids tables have given, after at most one more in each.
Grown(s, t) == /\ t.last.panel \in s.last.panel .. s.last.panel + 1
               /\ t.last.users \in s.last.users .. s.last.users + 1
               /\ t.last.packages \in s.last.packages .. s.last.packages + 1

LEMMA FreshSound == Sound(Fresh)
  <1>1. Fresh \in Tables
    BY AccountsAssumption
       DEF Fresh, Tables, PanelRow, PackageRow, SiteRow, NoPanelUser, NoRowPackage, NoSite,
           RolesOrNone, Hashes
  <1>2. PanelKeys(Fresh.panel, Fresh.last.panel) /\ UserKeys(Fresh.users, Fresh.last.users)
    BY DEF Fresh, PanelKeys, UserKeys, NoPanelUser
  <1>3. PackageKeys(Fresh.packages, Fresh.last.packages)
    BY DEF Fresh, PackageKeys, NoRowPackage
  <1>4. SiteKeys(Fresh.sites, Fresh.users)
    BY DEF Fresh, SiteKeys, NoSite
  <1>5. QED
    BY <1>1, <1>2, <1>3, <1>4 DEF Sound

\* An upsert of a panel user: who has an id keeps it and its link.
LEMMA CreatedPanelUser ==
  ASSUME NEW s, Sound(s), NEW n \in Names, NEW hash \in Hashes,
         NEW role \in RolesOrNone
  PROVE  LET t == CreatePanelUser(s, n, hash, role)
         IN  /\ Sound(t)
             /\ t.panel[n].id # 0
             /\ t.panel[n].role = role /\ t.panel[n].hash = hash
             /\ t.panel[n].reseller = s.panel[n].reseller
             /\ s.panel[n].id # 0 => t.panel[n].id = s.panel[n].id
             /\ \A m \in Names : m # n => t.panel[m] = s.panel[m]
             /\ Grown(s, t)
             /\ t.users = s.users /\ t.packages = s.packages
             /\ t.assigned = s.assigned /\ t.sites = s.sites
  <1> DEFINE t == CreatePanelUser(s, n, hash, role)
  <1>1. CASE s.panel[n].id # 0
    <2>1. t = [s EXCEPT !.panel[n].hash = hash, !.panel[n].role = role]
      BY <1>1 DEF CreatePanelUser
    <2> DEFINE row   == [s.panel[n] EXCEPT !.hash = hash, !.role = role]
               panel == [s.panel EXCEPT ![n] = row]
    <2>2. t = [s EXCEPT !.panel = panel]
      BY <2>1 DEF Sound, Tables
    <2>3. /\ row \in PanelRow
          /\ row.id = s.panel[n].id /\ row.reseller = s.panel[n].reseller
          /\ row.role = role /\ row.hash = hash
      BY DEF Sound, Tables, PanelRow
    <2> HIDE DEF t, row
    <2>4. /\ t \in Tables /\ t.last = s.last
          /\ t.panel[n] = row
          /\ \A m \in Names : m # n => t.panel[m] = s.panel[m]
          /\ t.users = s.users /\ t.packages = s.packages
          /\ t.assigned = s.assigned /\ t.sites = s.sites
      BY <2>2, <2>3 DEF Sound, Tables
    <2>5. \A i : HasId(s.panel, i) => HasId(t.panel, i)
      BY <2>3, <2>4 DEF HasId
    <2>6. PanelKeys(t.panel, t.last.panel)
      BY <1>1, <2>3, <2>4, <2>5 DEF Sound, PanelKeys
    <2>7. Sound(t)
      BY <2>4, <2>6 DEF Sound
    <2>8. QED
      BY <1>1, <2>3, <2>4, <2>7 DEF t, Grown, Sound, Tables
  <1>2. CASE s.panel[n].id = 0
    <2>1. t = [s EXCEPT !.last.panel = @ + 1,
                        !.panel[n] = [id |-> s.last.panel + 1, role |-> role,
                                      hash |-> hash, reseller |-> 0]]
      BY <1>2 DEF CreatePanelUser
    <2> DEFINE row   == [id |-> s.last.panel + 1, role |-> role,
                         hash |-> hash, reseller |-> 0]
               panel == [s.panel EXCEPT ![n] = row]
               last  == [s.last EXCEPT !.panel = s.last.panel + 1]
    <2>2. t = [s EXCEPT !.last = last, !.panel = panel]
      BY <2>1 DEF Sound, Tables
    <2>3. panel \in [Names -> PanelRow]
      BY DEF Sound, Tables, PanelRow
    <2>4. /\ last \in [panel : Nat, users : Nat, packages : Nat]
          /\ last.panel = s.last.panel + 1 /\ last.users = s.last.users
          /\ last.packages = s.last.packages
      BY DEF Sound, Tables
    <2>5. /\ panel[n] = [id |-> s.last.panel + 1, role |-> role,
                           hash |-> hash, reseller |-> 0]
          /\ \A m \in Names : m # n => panel[m] = s.panel[m]
      BY DEF Sound, Tables
    <2> HIDE DEF t, panel, last
    <2>6. /\ t \in Tables
          /\ t.last.panel = s.last.panel + 1 /\ t.last.users = s.last.users
          /\ t.last.packages = s.last.packages
          /\ t.panel[n] = [id |-> s.last.panel + 1, role |-> role,
                           hash |-> hash, reseller |-> 0]
          /\ \A m \in Names : m # n => t.panel[m] = s.panel[m]
          /\ t.users = s.users /\ t.packages = s.packages
          /\ t.assigned = s.assigned /\ t.sites = s.sites
      BY <2>2, <2>3, <2>4, <2>5 DEF Sound, Tables
    <2>7. /\ \A m \in Names : s.panel[m].id \in Nat /\ s.panel[m].id <= s.last.panel
          /\ s.last.panel \in Nat
      BY DEF Sound, Tables, PanelRow, PanelKeys
    <2>8. s.panel[n].reseller = 0
      BY <1>2 DEF Sound, PanelKeys, NoPanelUser
    <2>9. PanelKeys(t.panel, t.last.panel)
      <3>1. \A i : HasId(s.panel, i) => HasId(t.panel, i)
        BY <1>2, <2>6 DEF HasId
      <3>2. QED
        BY <2>6, <2>7, <3>1 DEF Sound, PanelKeys
    <2>10. Sound(t)
      BY <2>6, <2>9 DEF Sound
    <2>11. QED
      <3>1. Grown(s, t)
        BY <2>6 DEF Grown, Sound, Tables
      <3>2. QED
        BY <1>2, <2>6, <2>7, <2>8, <2>10, <3>1 DEF t
  <1>3. QED
    BY <1>1, <1>2

\* A link to a row that is there.
LEMMA LinkedPanelUser ==
  ASSUME NEW s, Sound(s), NEW n \in Names, s.panel[n].id # 0,
         NEW r \in Nat, r = 0 \/ HasId(s.panel, r)
  PROVE  LET t == [s EXCEPT !.panel[n].reseller = r]
         IN  /\ Sound(t)
             /\ t.panel[n].id = s.panel[n].id
             /\ t.panel[n].role = s.panel[n].role /\ t.panel[n].hash = s.panel[n].hash
             /\ t.panel[n].reseller = r
             /\ \A m \in Names : m # n => t.panel[m] = s.panel[m]
             /\ t.last = s.last
             /\ t.users = s.users /\ t.packages = s.packages
             /\ t.assigned = s.assigned /\ t.sites = s.sites
  <1> DEFINE t == [s EXCEPT !.panel[n].reseller = r]
  <1>1. /\ t \in Tables /\ t.last = s.last
        /\ t.panel[n].id = s.panel[n].id
        /\ t.panel[n].role = s.panel[n].role /\ t.panel[n].hash = s.panel[n].hash
        /\ t.panel[n].reseller = r
        /\ \A m \in Names : m # n => t.panel[m] = s.panel[m]
        /\ t.users = s.users /\ t.packages = s.packages
        /\ t.assigned = s.assigned /\ t.sites = s.sites
    BY DEF Sound, Tables, PanelRow
  <1> HIDE DEF t
  <1>2. \A i : HasId(s.panel, i) => HasId(t.panel, i)
    BY <1>1 DEF HasId
  <1>3. PanelKeys(t.panel, t.last.panel)
    BY <1>1, <1>2 DEF Sound, PanelKeys
  <1>4. QED
    BY <1>1, <1>3 DEF Sound, t

\* user_packages is no key of anything.
LEMMA AssignedPackage ==
  ASSUME NEW s, Sound(s), NEW i, NEW p \in Nat
  PROVE  LET t == AssignPackage(s, i, p)
         IN  /\ Sound(t)
             /\ t.panel = s.panel /\ t.users = s.users
             /\ t.packages = s.packages /\ t.sites = s.sites
             /\ t.last = s.last
             /\ \A j \in Ids : t.assigned[j] \in {s.assigned[j], p}
  BY DEF AssignPackage, Sound, Tables

\* A name that is new among the owners of sites.
LEMMA EnsuredUser ==
  ASSUME NEW s, Sound(s), NEW n \in Names
  PROVE  LET t == EnsureUser(s, n)
         IN  /\ Sound(t)
             /\ t.users[n] # 0
             /\ s.users[n] # 0 => t.users[n] = s.users[n]
             /\ \A m \in Names : m # n => t.users[m] = s.users[m]
             /\ Grown(s, t)
             /\ t.panel = s.panel /\ t.packages = s.packages
             /\ t.assigned = s.assigned /\ t.sites = s.sites
  <1> DEFINE t == EnsureUser(s, n)
  <1>1. CASE s.users[n] # 0
    BY <1>1 DEF EnsureUser, Grown, Sound, Tables
  <1>2. CASE s.users[n] = 0
    <2>1. t = [s EXCEPT !.last.users = @ + 1, !.users[n] = s.last.users + 1]
      BY <1>2 DEF EnsureUser
    <2> DEFINE users == [s.users EXCEPT ![n] = s.last.users + 1]
               last  == [s.last EXCEPT !.users = s.last.users + 1]
    <2>2. t = [s EXCEPT !.last = last, !.users = users]
      BY <2>1 DEF Sound, Tables
    <2>3. /\ users \in [Names -> Nat]
          /\ last \in [panel : Nat, users : Nat, packages : Nat]
          /\ last.users = s.last.users + 1 /\ last.panel = s.last.panel
          /\ last.packages = s.last.packages
          /\ users[n] = s.last.users + 1
          /\ \A m \in Names : m # n => users[m] = s.users[m]
      BY DEF Sound, Tables
    <2> HIDE DEF t, users, last
    <2>4. /\ t \in Tables
          /\ t.last.users = s.last.users + 1 /\ t.last.panel = s.last.panel
          /\ t.last.packages = s.last.packages
          /\ t.users[n] = s.last.users + 1
          /\ \A m \in Names : m # n => t.users[m] = s.users[m]
          /\ t.panel = s.panel /\ t.packages = s.packages
          /\ t.assigned = s.assigned /\ t.sites = s.sites
      BY <2>2, <2>3 DEF Sound, Tables
    <2>5. /\ \A m \in Names : s.users[m] \in Nat /\ s.users[m] <= s.last.users
          /\ s.last.users \in Nat
      BY DEF Sound, Tables, UserKeys
    <2>6. UserKeys(t.users, t.last.users)
      BY <2>4, <2>5 DEF Sound, UserKeys
    <2>7. SiteKeys(t.sites, t.users)
      BY <1>2, <2>4 DEF Sound, SiteKeys
    <2>8. Sound(t)
      BY <2>4, <2>6, <2>7 DEF Sound
    <2>9. QED
      <3>1. Grown(s, t)
        BY <2>4 DEF Grown, Sound, Tables
      <3>2. QED
        BY <1>2, <2>4, <2>5, <2>8, <3>1 DEF t
  <1>3. QED
    BY <1>1, <1>2

\* The row of a site, for an owner who is there.
LEMMA UpsertedSite ==
  ASSUME NEW s, Sound(s), NEW d \in Domains, NEW n \in Names, s.users[n] # 0,
         NEW conf \in Confs \cup {NoConf}
  PROVE  LET t == UpsertSite(s, d, s.users[n], conf)
         IN  /\ Sound(t)
             /\ t.sites[d].owner = s.users[n] /\ t.sites[d].conf = conf
             /\ t.sites[d].targets = s.sites[d].targets
             /\ \A e \in Domains : e # d => t.sites[e] = s.sites[e]
             /\ t.panel = s.panel /\ t.users = s.users /\ t.packages = s.packages
             /\ t.assigned = s.assigned /\ t.last = s.last
  <1> DEFINE t == UpsertSite(s, d, s.users[n], conf)
  <1>1. /\ t \in Tables /\ t.last = s.last
        /\ t.sites[d].owner = s.users[n] /\ t.sites[d].conf = conf
        /\ t.sites[d].targets = s.sites[d].targets
        /\ \A e \in Domains : e # d => t.sites[e] = s.sites[e]
        /\ t.panel = s.panel /\ t.users = s.users /\ t.packages = s.packages
        /\ t.assigned = s.assigned
    BY DEF UpsertSite, Sound, Tables, SiteRow
  <1> HIDE DEF t
  <1>2. SiteKeys(t.sites, t.users)
    BY <1>1 DEF Sound, SiteKeys
  <1>3. QED
    BY <1>1, <1>2 DEF Sound, t

\* More targets for a site that is there.
WithTargets(s, d, T) == [s EXCEPT !.sites[d].targets = @ \cup T]

LEMMA TargetsAdded ==
  ASSUME NEW s, Sound(s), NEW d \in Domains, s.sites[d].owner # 0, NEW T, T \subseteq Targets
  PROVE  LET t == WithTargets(s, d, T)
         IN  /\ Sound(t)
             /\ t.sites[d].owner = s.sites[d].owner /\ t.sites[d].conf = s.sites[d].conf
             /\ t.sites[d].targets = s.sites[d].targets \cup T
             /\ \A e \in Domains : e # d => t.sites[e] = s.sites[e]
             /\ t.panel = s.panel /\ t.users = s.users /\ t.packages = s.packages
             /\ t.assigned = s.assigned /\ t.last = s.last
  <1> DEFINE t == WithTargets(s, d, T)
  <1>1. /\ t \in Tables /\ t.last = s.last
        /\ t.sites[d].owner = s.sites[d].owner /\ t.sites[d].conf = s.sites[d].conf
        /\ t.sites[d].targets = s.sites[d].targets \cup T
        /\ \A e \in Domains : e # d => t.sites[e] = s.sites[e]
        /\ t.panel = s.panel /\ t.users = s.users /\ t.packages = s.packages
        /\ t.assigned = s.assigned
    BY DEF WithTargets, Sound, Tables, SiteRow
  <1> HIDE DEF t
  <1>2. SiteKeys(t.sites, t.users)
    BY <1>1 DEF Sound, SiteKeys
  <1>3. QED
    BY <1>1, <1>2 DEF Sound, t

\* A package that is new, and other limits for one that is there.
LEMMA CreatedPackage ==
  ASSUME NEW s, Sound(s), NEW p \in Packages, NEW limits \in GivenLimits,
         s.packages[p].id = 0
  PROVE  LET t == CreatePackage(s, p, limits)
         IN  /\ Sound(t)
             /\ t.packages[p].id # 0 /\ t.packages[p].limits = limits
             /\ \A q \in Packages : q # p => t.packages[q] = s.packages[q]
             /\ t.panel = s.panel /\ t.users = s.users /\ t.sites = s.sites
             /\ t.assigned = s.assigned /\ Grown(s, t)
  <1> DEFINE t == CreatePackage(s, p, limits)
  <1> DEFINE row      == [id |-> s.last.packages + 1, limits |-> limits]
             packages == [s.packages EXCEPT ![p] = row]
             last     == [s.last EXCEPT !.packages = s.last.packages + 1]
  <1>1. t = [s EXCEPT !.last = last, !.packages = packages]
    BY DEF CreatePackage, Sound, Tables
  <1>2. /\ packages \in [Packages -> PackageRow]
        /\ last \in [panel : Nat, users : Nat, packages : Nat]
        /\ last.packages = s.last.packages + 1 /\ last.panel = s.last.panel
        /\ last.users = s.last.users
        /\ packages[p] = [id |-> s.last.packages + 1, limits |-> limits]
        /\ \A q \in Packages : q # p => packages[q] = s.packages[q]
    BY DEF Sound, Tables, PackageRow, GivenLimits
  <1> HIDE DEF t, packages, last
  <1>3. /\ t \in Tables
        /\ t.last.packages = s.last.packages + 1 /\ t.last.panel = s.last.panel
        /\ t.last.users = s.last.users
        /\ t.packages[p] = [id |-> s.last.packages + 1, limits |-> limits]
        /\ \A q \in Packages : q # p => t.packages[q] = s.packages[q]
        /\ t.panel = s.panel /\ t.users = s.users /\ t.sites = s.sites
        /\ t.assigned = s.assigned
    BY <1>1, <1>2 DEF Sound, Tables
  <1>4. /\ \A q \in Packages : s.packages[q].id \in Nat /\ s.packages[q].id <= s.last.packages
        /\ s.last.packages \in Nat
    BY DEF Sound, Tables, PackageRow, PackageKeys
  <1>5. PackageKeys(t.packages, t.last.packages)
    BY <1>3, <1>4 DEF Sound, PackageKeys, GivenLimits
  <1>6. QED
    <2>1. Grown(s, t)
      BY <1>3 DEF Grown, Sound, Tables
    <2>2. QED
      BY <1>3, <1>4, <1>5, <2>1 DEF Sound, t

LEMMA LimitedPackage ==
  ASSUME NEW s, Sound(s), NEW p \in Packages, NEW limits \in GivenLimits,
         s.packages[p].id # 0
  PROVE  LET t == [s EXCEPT !.packages[p].limits = limits]
         IN  /\ Sound(t)
             /\ t.packages[p].id = s.packages[p].id /\ t.packages[p].limits = limits
             /\ \A q \in Packages : q # p => t.packages[q] = s.packages[q]
             /\ t.panel = s.panel /\ t.users = s.users /\ t.sites = s.sites
             /\ t.assigned = s.assigned /\ t.last = s.last
  <1> DEFINE t == [s EXCEPT !.packages[p].limits = limits]
  <1>1. /\ t \in Tables /\ t.last = s.last
        /\ t.packages[p].id = s.packages[p].id /\ t.packages[p].limits = limits
        /\ \A q \in Packages : q # p => t.packages[q] = s.packages[q]
        /\ t.panel = s.panel /\ t.users = s.users /\ t.sites = s.sites
        /\ t.assigned = s.assigned
    BY DEF Sound, Tables, PackageRow, GivenLimits
  <1> HIDE DEF t
  <1>2. PackageKeys(t.packages, t.last.packages)
    BY <1>1 DEF Sound, PackageKeys, GivenLimits
  <1>3. QED
    BY <1>1, <1>2 DEF Sound, t

-----------------------------------------------------------------------------
(* Commands *)

\* A row goes when no other one leads to it.
LEMMA DeletedPanelUser ==
  ASSUME NEW s, Sound(s), NEW n \in Names, s.panel[n].id # 0
  PROVE  LET t == DeletePanelUser(UnassignPackage(s, s.panel[n].id), n)
         IN  /\ Sound(t)
             /\ \A m \in Names : t.panel[m] \in {s.panel[m], NoPanelUser}
             /\ t.last = s.last /\ t.packages = s.packages
             /\ \A j \in Ids : t.assigned[j] \in {s.assigned[j], 0}
  <1> DEFINE u == UnassignPackage(s, s.panel[n].id)
             t == DeletePanelUser(u, n)
             i == s.panel[n].id
             panel == [s.panel EXCEPT ![n] = NoPanelUser]
  <1>1. /\ Sound(u) /\ u.panel = s.panel /\ u.users = s.users
        /\ u.packages = s.packages /\ u.sites = s.sites /\ u.last = s.last
        /\ \A j \in Ids : u.assigned[j] \in {s.assigned[j], 0}
    BY DEF UnassignPackage, Sound, Tables
  <1> HIDE DEF u
  <1>2. ASSUME \E m \in Names \ {n} : u.panel[m].reseller = u.panel[n].id
        PROVE  /\ Sound(t) /\ \A m \in Names : t.panel[m] \in {s.panel[m], NoPanelUser}
               /\ t.last = s.last /\ t.packages = s.packages
               /\ \A j \in Ids : t.assigned[j] \in {s.assigned[j], 0}
    <2>1. t = u
      BY <1>2 DEF DeletePanelUser
    <2>2. QED
      BY <1>1, <2>1
  <1>3. ASSUME \A m \in Names \ {n} : u.panel[m].reseller # u.panel[n].id
        PROVE  /\ Sound(t) /\ \A m \in Names : t.panel[m] \in {s.panel[m], NoPanelUser}
               /\ t.last = s.last /\ t.packages = s.packages
               /\ \A j \in Ids : t.assigned[j] \in {s.assigned[j], 0}
    <2>1. t = [u EXCEPT !.panel[n] = NoPanelUser, !.assigned[u.panel[n].id] = 0]
      BY <1>3 DEF DeletePanelUser
    <2>2. /\ panel \in [Names -> PanelRow] /\ panel[n] = NoPanelUser
          /\ \A m \in Names : m # n => panel[m] = s.panel[m]
      BY <1>1 DEF Sound, Tables, PanelRow, NoPanelUser, RolesOrNone, Hashes
    <2>3. t = [u EXCEPT !.panel = panel, !.assigned = [u.assigned EXCEPT ![u.panel[n].id] = 0]]
      BY <1>1, <2>1 DEF Sound, Tables
    <2> HIDE DEF t, panel
    <2>4. /\ t \in Tables /\ t.panel = panel /\ t.last = u.last /\ t.users = u.users
          /\ t.packages = u.packages /\ t.sites = u.sites
          /\ \A j \in Ids : t.assigned[j] \in {u.assigned[j], 0}
      BY <1>1, <2>2, <2>3 DEF Sound, Tables
    <2>5. ASSUME NEW m \in Names, m # n, s.panel[m].reseller # 0
          PROVE  HasId(panel, s.panel[m].reseller)
      <3>1. PICK k \in Names : s.panel[k].id = s.panel[m].reseller
        BY <1>1, <2>5 DEF Sound, PanelKeys, HasId
      <3>2. k # n
        BY <1>1, <1>3, <2>5, <3>1
      <3>3. QED
        BY <2>2, <2>5, <3>1, <3>2 DEF HasId
    <2>6. PanelKeys(t.panel, t.last.panel)
      <3>1. /\ NoPanelUser.id = 0 /\ NoPanelUser.reseller = 0
            /\ u.last.panel \in Nat /\ \A m \in Names : s.panel[m].id \in Nat
        BY <1>1 DEF NoPanelUser, Sound, Tables, PanelRow
      <3>2. QED
        BY <1>1, <2>2, <2>4, <2>5, <3>1 DEF Sound, PanelKeys
    <2>7. QED
      BY <1>1, <2>2, <2>4, <2>6 DEF Sound
  <1>4. QED
    BY <1>2, <1>3 DEF u

Renamed(s, p, q) ==
    [s EXCEPT !.packages[q] = s.packages[p], !.packages[p] = NoRowPackage]

LEMMA RenamedPackage ==
  ASSUME NEW s, Sound(s), NEW p \in Packages, NEW q \in Packages,
         s.packages[p].id # 0, s.packages[q].id = 0
  PROVE  LET t == Renamed(s, p, q)
         IN  /\ Sound(t) /\ t.panel = s.panel
             /\ t.last = s.last /\ t.assigned = s.assigned
             /\ t.packages[q] = s.packages[p]
             /\ \A x \in Packages \ {p, q} : t.packages[x] = s.packages[x]
  <1> DEFINE t == Renamed(s, p, q)
             packages == [s.packages EXCEPT ![q] = s.packages[p], ![p] = NoRowPackage]
  <1>1. t = [s EXCEPT !.packages = packages]
    BY DEF Renamed, Sound, Tables
  <1>2. p # q
    OBVIOUS
  <1>3. /\ packages \in [Packages -> PackageRow]
        /\ packages[q] = s.packages[p] /\ packages[p] = NoRowPackage
        /\ \A x \in Packages \ {p, q} : packages[x] = s.packages[x]
    BY <1>2 DEF Sound, Tables, PackageRow, NoRowPackage
  <1> HIDE DEF t, packages
  <1>4. /\ t \in Tables /\ t.packages = packages /\ t.last = s.last
        /\ t.panel = s.panel /\ t.users = s.users /\ t.sites = s.sites
        /\ t.assigned = s.assigned
    BY <1>1, <1>3 DEF Sound, Tables
  <1>5. PackageKeys(t.packages, t.last.packages)
    <2>1. /\ NoRowPackage.id = 0 /\ NoRowPackage.limits = "none"
          /\ s.last.packages \in Nat /\ \A x \in Packages : s.packages[x].id \in Nat
      BY DEF NoRowPackage, Sound, Tables, PackageRow
    <2>2. QED
      BY <1>2, <1>3, <1>4, <2>1 DEF Sound, PackageKeys
  <1>6. QED
    BY <1>3, <1>4, <1>5 DEF Sound, t

LEMMA DeletedPackage ==
  ASSUME NEW s, Sound(s), NEW p \in Packages
  PROVE  LET t == [s EXCEPT !.packages[p] = NoRowPackage]
         IN  /\ Sound(t) /\ t.panel = s.panel
             /\ t.last = s.last /\ t.assigned = s.assigned
             /\ \A x \in Packages \ {p} : t.packages[x] = s.packages[x]
  <1> DEFINE t == [s EXCEPT !.packages[p] = NoRowPackage]
  <1>1. /\ t \in Tables /\ t.last = s.last
        /\ t.packages[p] = NoRowPackage
        /\ \A x \in Packages \ {p} : t.packages[x] = s.packages[x]
        /\ t.panel = s.panel /\ t.users = s.users /\ t.sites = s.sites
        /\ t.assigned = s.assigned
    BY DEF Sound, Tables, PackageRow, NoRowPackage
  <1> HIDE DEF t
  <1>2. PackageKeys(t.packages, t.last.packages)
    <2>1. /\ NoRowPackage.id = 0 /\ NoRowPackage.limits = "none"
          /\ s.last.packages \in Nat /\ \A x \in Packages : s.packages[x].id \in Nat
      BY DEF NoRowPackage, Sound, Tables, PackageRow
    <2>2. QED
      BY <1>1, <2>1 DEF Sound, PackageKeys
  <1>3. QED
    BY <1>1, <1>2 DEF Sound, t

LEMMA DeletedSite ==
  ASSUME NEW s, Sound(s), NEW d \in Domains
  PROVE  LET t == [s EXCEPT !.sites[d] = NoSite]
         IN  /\ Sound(t) /\ t.panel = s.panel
             /\ t.last = s.last /\ t.assigned = s.assigned /\ t.packages = s.packages
  <1> DEFINE t == [s EXCEPT !.sites[d] = NoSite]
  <1>1. /\ t \in Tables /\ t.last = s.last /\ t.sites[d] = NoSite
        /\ \A x \in Domains \ {d} : t.sites[x] = s.sites[x]
        /\ t.panel = s.panel /\ t.users = s.users /\ t.packages = s.packages
        /\ t.assigned = s.assigned
    BY DEF Sound, Tables, SiteRow, NoSite
  <1> HIDE DEF t
  <1>2. NoSite.owner = 0
    BY DEF NoSite
  <1>3. SiteKeys(t.sites, t.users)
    BY <1>1, <1>2 DEF Sound, SiteKeys
  <1>4. QED
    BY <1>1, <1>3 DEF Sound, t

\* The hash of a row is where its role says.
HashesFit(panel) ==
    \A n \in Names : panel[n].id # 0 =>
        panel[n].hash = HashFor(panel[n].role) /\ panel[n].role \in Roles

LEMMA AddKeeps ==
  ASSUME Sound(db), HashesFit(db.panel), NEW n \in Names, NEW role \in Roles,
         NEW r \in Nat, NEW p \in Nat, PanelUserAdd(n, role, r, p)
  PROVE  Sound(db') /\ HashesFit(db'.panel)
  <1> DEFINE created == CreatePanelUser(db, n, HashFor(role), role)
             linked  == IF role = "user" /\ r # 0
                        THEN [created EXCEPT !.panel[n].reseller = r] ELSE created
             assigned == AssignPackage(linked, linked.panel[n].id, p)
  <1>1. HashFor(role) \in Hashes /\ role \in RolesOrNone
    BY DEF HashFor, Hashes, RolesOrNone
  <1>2. /\ Sound(created) /\ created.panel[n].id # 0
        /\ created.panel[n].role = role /\ created.panel[n].hash = HashFor(role)
        /\ \A m \in Names : m # n => created.panel[m] = db.panel[m]
    BY <1>1, CreatedPanelUser
  <1> HIDE DEF created
  <1>3. HashesFit(created.panel)
    BY <1>2 DEF HashesFit
  <1>4. ASSUME role = "user" => MayRefer(created, r)
        PROVE  Sound(linked) /\ HashesFit(linked.panel)
    <2>1. CASE role = "user" /\ r # 0
      <3>1. HasId(created.panel, r)
        BY <1>4, <2>1 DEF MayRefer, IsPanelId, HasId
      <3>2. linked = [created EXCEPT !.panel[n].reseller = r]
        BY <2>1
      <3> HIDE DEF linked
      <3>3. /\ Sound(linked)
            /\ linked.panel[n].role = role /\ linked.panel[n].hash = HashFor(role)
            /\ \A m \in Names : m # n => linked.panel[m] = created.panel[m]
        BY <1>2, <3>1, <3>2, LinkedPanelUser
      <3>4. QED
        BY <1>3, <3>3 DEF HashesFit
    <2>2. CASE ~(role = "user" /\ r # 0)
      BY <1>2, <1>3, <2>2
    <2>3. QED
      BY <2>1, <2>2
  <1> HIDE DEF linked
  <1>5. ASSUME Sound(linked) PROVE Sound(assigned) /\ assigned.panel = linked.panel
    BY <1>5, AssignedPackage
  <1>6. \/ db' = created
        \/ (role = "user" => MayRefer(created, r)) /\ db' \in {linked, assigned}
    BY DEF PanelUserAdd, created, linked
  <1> HIDE DEF assigned
  <1>7. QED
    BY <1>2, <1>3, <1>4, <1>5, <1>6

LEMMA EditKeeps ==
  ASSUME Sound(db), HashesFit(db.panel), NEW n \in Names, NEW role \in Roles,
         NEW p \in Nat, PanelUserEdit(n, role, p)
  PROVE  Sound(db') /\ HashesFit(db'.panel)
  <1>1. PICK hash \in {"shadow", "bcrypt"} :
          LET saved == [db EXCEPT !.panel[n].role = role, !.panel[n].hash = hash]
          IN  /\ MayBecome(n, role, hash)
              /\ db' = IF p # 0 /\ MayAssign(saved, saved.panel[n].id, p)
                       THEN AssignPackage(saved, saved.panel[n].id, p) ELSE saved
    BY DEF PanelUserEdit
  <1> DEFINE saved == [db EXCEPT !.panel[n].role = role, !.panel[n].hash = hash]
  <1>2. db.panel[n].id # 0
    BY <1>1 DEF MayBecome
  <1>3. saved = CreatePanelUser(db, n, hash, role)
    BY <1>2 DEF CreatePanelUser, Sound, Tables, PanelRow
  <1> HIDE DEF saved
  <1>4. /\ Sound(saved)
        /\ saved.panel[n].role = role /\ saved.panel[n].hash = hash
        /\ \A m \in Names : m # n => saved.panel[m] = db.panel[m]
    <2>1. hash \in Hashes /\ role \in RolesOrNone
      BY DEF Hashes, RolesOrNone
    <2>2. QED
      BY <1>3, <2>1, CreatedPanelUser
  <1>5. hash = HashFor(role)
    BY <1>1, <1>2 DEF MayBecome, HashesFit, HashFor
  <1>6. HashesFit(saved.panel)
    BY <1>4, <1>5 DEF HashesFit
  <1>7. LET t == AssignPackage(saved, saved.panel[n].id, p)
        IN  Sound(t) /\ t.panel = saved.panel
    BY <1>4, AssignedPackage
  <1>8. db' \in {saved, AssignPackage(saved, saved.panel[n].id, p)}
    BY <1>1 DEF saved
  <1>9. QED
    BY <1>4, <1>6, <1>7, <1>8

LEMMA AddSiteKeeps ==
  ASSUME Sound(db), NEW n \in Names, NEW d \in Domains, NEW c \in Confs, SiteAdd(n, d, c)
  PROVE  Sound(db') /\ db'.panel = db.panel
  <1> DEFINE ensured == EnsureUser(db, n)
  <1>1. /\ Sound(ensured) /\ ensured.users[n] # 0 /\ ensured.panel = db.panel
    BY EnsuredUser
  <1>2. db' = ensured \/ db' = UpsertSite(ensured, d, ensured.users[n], c)
    BY DEF SiteAdd
  <1> HIDE DEF ensured
  <1>3. LET t == UpsertSite(ensured, d, ensured.users[n], c)
        IN  Sound(t) /\ t.panel = ensured.panel
    BY <1>1, UpsertedSite
  <1>4. QED
    BY <1>1, <1>2, <1>3

LEMMA CommandKeeps ==
  ASSUME Sound(db), HashesFit(db.panel), Command
  PROVE  Sound(db') /\ HashesFit(db'.panel)
  <1>1. db.last.panel \in Nat /\ db.last.packages \in Nat
    BY DEF Sound, Tables
  <1>2. ASSUME NEW n \in Names, NEW role \in Roles,
               \/ \E r \in 0 .. db.last.panel, p \in 0 .. db.last.packages :
                     PanelUserAdd(n, role, r, p)
               \/ \E p \in 0 .. db.last.packages : PanelUserEdit(n, role, p)
        PROVE  Sound(db') /\ HashesFit(db'.panel)
    BY <1>1, <1>2, AddKeeps, EditKeeps
  <1>3. ASSUME NEW n \in Names, PanelUserDel(n)
        PROVE  Sound(db') /\ HashesFit(db'.panel)
    <2>1. /\ Sound(db')
          /\ \A m \in Names : db'.panel[m] \in {db.panel[m], NoPanelUser}
      BY <1>3, DeletedPanelUser DEF PanelUserDel
    <2>2. NoPanelUser.id = 0
      BY DEF NoPanelUser
    <2>3. QED
      BY <2>1, <2>2 DEF HashesFit
  <1>4. ASSUME NEW p \in Packages, PackageAdd(p) \/ PackageDel(p)
        PROVE  Sound(db') /\ db'.panel = db.panel
    <2>1. CASE PackageAdd(p)
      <3>1. db.packages[p].id = 0 /\ db' = CreatePackage(db, p, "standard")
        BY <2>1 DEF PackageAdd
      <3>2. "standard" \in GivenLimits
        BY DEF GivenLimits
      <3>3. QED
        BY <3>1, <3>2, CreatedPackage
    <2>2. CASE PackageDel(p)
      BY <2>2, DeletedPackage DEF PackageDel
    <2>3. QED
      BY <1>4, <2>1, <2>2
  <1>5. ASSUME NEW p \in Packages, NEW q \in Packages, PackageEdit(p, q)
        PROVE  Sound(db') /\ db'.panel = db.panel
    BY <1>5, RenamedPackage DEF PackageEdit, Renamed
  <1>6. ASSUME NEW d \in Domains, NEW t \in Targets, ProxyTargetAdd(d, t)
        PROVE  Sound(db') /\ db'.panel = db.panel
    <2>1. db' = WithTargets(db, d, {t}) /\ db.sites[d].owner # 0
      BY <1>6 DEF ProxyTargetAdd, UpsertProxyTarget, WithTargets
    <2>2. {t} \subseteq Targets
      OBVIOUS
    <2>3. QED
      BY <2>1, <2>2, TargetsAdded
  <1>7. ASSUME NEW d \in Domains, SiteDelete(d)
        PROVE  Sound(db') /\ db'.panel = db.panel
    BY <1>7, DeletedSite DEF SiteDelete
  <1>8. QED
    BY <1>2, <1>3, <1>4, <1>5, <1>6, <1>7, AddSiteKeeps DEF Command

-----------------------------------------------------------------------------
(* The invariant of backups and restores                                     *)

\* What Create wrote: users and sites of the names that were included.
ArchiveFits ==
    /\ archive.names \subseteq Names
    /\ archive.content \in Named
    /\ \A n \in archive.names :
          /\ archive.content.panel[n].role \in Roles
          /\ archive.content.panel[n].hash = HashFor(archive.content.panel[n].role)
    /\ archive.content.users \subseteq archive.names
    /\ \A d \in DumpedSites(archive) :
          archive.content.sites[d].owner \in archive.content.users
    /\ archive.scope = "user" => archive.names = {archive.subject}
    /\ archive.good => archive.files = DumpedSites(archive)

RestoreTables == [state      : {"none", "running", "stopped", "done"},
                  new        : Names \cup {NoName},
                  packageIDs : [Packages -> Nat],
                  panelIDs   : [Names -> Nat],
                  userIDs    : [Names -> Nat],
                  assigned   : SUBSET Names,
                  sites      : SUBSET Domains,
                  targets    : SUBSET Domains,
                  warned     : BOOLEAN]

\* A new name is for one user.
OneRenamed == restore.new # NoName => archive.names = {archive.subject}

\* The reseller of m was restored before m.
Linked(m) ==
    /\ archive.content.panel[m].reseller \in archive.names
    /\ archive.content.panel[m].reseller < m

\* Panel users are restored in the order of their names.
InOrder ==
    /\ \A k \in Names : restore.panelIDs[k] # 0 => SavedAs(k) # {}
    /\ \A m, n \in archive.names :
          restore.panelIDs[RestoredAs(m)] # 0 /\ restore.panelIDs[RestoredAs(n)] = 0 => m < n

\* Rows that are not in the archive are as they were, links that are not brought
\* back too; a row whose id is known is the one of the archive.
PanelMerging ==
    /\ \A n \in Names : SavedAs(n) = {} =>
          /\ db.panel[n].role = before.panel[n].role
          /\ db.panel[n].hash = before.panel[n].hash
          /\ ResellerName(db, n) = before.panel[n].reseller
    /\ \A m \in archive.names :
          ~Linked(m) => ResellerName(db, RestoredAs(m)) = before.panel[RestoredAs(m)].reseller
    /\ \A m \in archive.names : restore.panelIDs[RestoredAs(m)] # 0 =>
          /\ restore.panelIDs[RestoredAs(m)] = db.panel[RestoredAs(m)].id
          /\ db.panel[RestoredAs(m)].role = archive.content.panel[m].role
          /\ db.panel[RestoredAs(m)].hash = archive.content.panel[m].hash
          /\ Linked(m) => ResellerName(db, RestoredAs(m))
                          = RestoredAs(archive.content.panel[m].reseller)

UsersMerging ==
    /\ \A n \in before.users : n \in Names /\ db.users[n] # 0
    /\ \A n \in Names : db.users[n] # 0 =>
          n \in before.users \/ \E m \in archive.content.users : RestoredAs(m) = n
    /\ \A n \in Names : restore.userIDs[n] # 0 => restore.userIDs[n] = db.users[n]

PackagesMerging ==
    \A p \in Packages :
        IF archive.content.packages[p] = "none"
        THEN db.packages[p].limits = before.packages[p]
        ELSE restore.packageIDs[p] # 0 =>
                /\ restore.packageIDs[p] = db.packages[p].id
                /\ db.packages[p].limits = archive.content.packages[p]

\* The targets a site had stay, the others are of the archive.
SitesMerging ==
    /\ \A d \in Domains \ DumpedSites(archive) :
          /\ NameOf(db.users, db.sites[d].owner) = before.sites[d].owner
          /\ db.sites[d].conf = before.sites[d].conf
          /\ db.sites[d].targets = before.sites[d].targets
    /\ \A d \in DumpedSites(archive) :
          /\ before.sites[d].targets \subseteq db.sites[d].targets
          /\ db.sites[d].targets \subseteq
                before.sites[d].targets \cup archive.content.sites[d].targets
          /\ d \in restore.sites =>
                /\ NameOf(db.users, db.sites[d].owner)
                   = RestoredAs(archive.content.sites[d].owner)
                /\ db.sites[d].conf = archive.content.sites[d].conf
          /\ d \in restore.targets =>
                archive.content.sites[d].targets \subseteq db.sites[d].targets

Merging == /\ OneRenamed /\ InOrder
           /\ PanelMerging /\ UsersMerging /\ PackagesMerging /\ SitesMerging

AllRestored == /\ PackagesLeft = {} /\ PanelLeft = {} /\ UsersLeft = {}
               /\ SitesLeft = {} /\ TargetsLeft = {}

Brought == archive.good /\ ~restore.warned => DumpedSites(archive) \subseteq trees

BackupInv ==
    /\ Sound(db) /\ HashesFit(db.panel)
    /\ ArchiveFits
    /\ restore \in RestoreTables
    /\ before \in Named
    /\ restores \in Nat /\ (restores = 0 => restore.state = "none")
    /\ restore.state # "none" => archive.scope # "none" /\ Merging
    /\ restore.state = "done" => AllRestored /\ Brought

\* A name stands for its id.
LEMMA NameOfId ==
  ASSUME NEW ids, NEW n \in Names, ids[n] # 0, \A m \in Names : ids[m] = ids[n] => m = n
  PROVE  NameOf(ids, ids[n]) = n
  BY DEF NameOf

LEMMA ResellerOf ==
  ASSUME NEW s, Sound(s), NEW n \in Names, NEW k \in Names, s.panel[k].id # 0,
         s.panel[n].reseller = s.panel[k].id
  PROVE  ResellerName(s, n) = k
  <1>1. \A m \in Names : PanelIds(s)[m] = s.panel[m].id
    BY DEF PanelIds
  <1>2. NameOf(PanelIds(s), PanelIds(s)[k]) = k
    BY <1>1, NameOfId DEF Sound, PanelKeys
  <1>3. QED
    BY <1>1, <1>2 DEF ResellerName

\* Rows that keep their ids keep the name of a link.
LEMMA ResellerStays ==
  ASSUME NEW s, NEW t, Sound(s), Sound(t),
         \A m \in Names : s.panel[m].id # 0 => t.panel[m].id = s.panel[m].id,
         NEW n \in Names, t.panel[n].reseller = s.panel[n].reseller
  PROVE  ResellerName(t, n) = ResellerName(s, n)
  <1>1. CASE s.panel[n].reseller = 0
    BY <1>1 DEF ResellerName, NameOf
  <1>2. CASE s.panel[n].reseller # 0
    <2>1. PICK k \in Names : s.panel[k].id = s.panel[n].reseller /\ s.panel[k].id # 0
      BY <1>2 DEF Sound, PanelKeys, HasId
    <2>2. QED
      BY <2>1, ResellerOf
  <1>3. QED
    BY <1>1, <1>2

LEMMA OwnerOf ==
  ASSUME NEW s, Sound(s), NEW k \in Names, s.users[k] # 0
  PROVE  NameOf(s.users, s.users[k]) = k
  BY NameOfId DEF Sound, UserKeys

LEMMA OwnerStays ==
  ASSUME NEW s, NEW t, Sound(s), Sound(t),
         \A m \in Names : s.users[m] # 0 => t.users[m] = s.users[m],
         NEW d \in Domains, t.sites[d].owner = s.sites[d].owner
  PROVE  NameOf(t.users, t.sites[d].owner) = NameOf(s.users, s.sites[d].owner)
  <1>1. CASE s.sites[d].owner = 0
    BY <1>1 DEF NameOf
  <1>2. CASE s.sites[d].owner # 0
    <2>1. PICK k \in Names : s.users[k] = s.sites[d].owner
      BY <1>2 DEF Sound, SiteKeys
    <2>2. QED
      BY <1>2, <2>1, OwnerOf
  <1>3. QED
    BY <1>1, <1>2

\* By names, a sound database has names where it had ids.
LEMMA ByNameTyped ==
  ASSUME NEW s, Sound(s)
  PROVE  /\ ByName(s) \in Named
         /\ \A n \in Names : /\ ByName(s).panel[n].role = s.panel[n].role
                             /\ ByName(s).panel[n].hash = s.panel[n].hash
                             /\ ByName(s).panel[n].reseller = ResellerName(s, n)
         /\ ByName(s).users = {n \in Names : s.users[n] # 0}
         /\ \A p \in Packages : ByName(s).packages[p] = s.packages[p].limits
         /\ \A d \in Domains : /\ ByName(s).sites[d].owner = NameOf(s.users, s.sites[d].owner)
                               /\ ByName(s).sites[d].conf = s.sites[d].conf
                               /\ ByName(s).sites[d].targets = s.sites[d].targets
  <1>1. \A n \in Names : ResellerName(s, n) \in Names \cup {NoName}
    <2>1. TAKE n \in Names
    <2>2. CASE s.panel[n].reseller = 0
      BY <2>2 DEF ResellerName, NameOf
    <2>3. CASE s.panel[n].reseller # 0
      <3>1. PICK k \in Names : s.panel[k].id = s.panel[n].reseller /\ s.panel[k].id # 0
        BY <2>3 DEF Sound, PanelKeys, HasId
      <3>2. QED
        BY <3>1, ResellerOf
    <2>4. QED
      BY <2>2, <2>3
  <1>2. \A d \in Domains : NameOf(s.users, s.sites[d].owner) \in Names \cup {NoName}
    <2>1. TAKE d \in Domains
    <2>2. CASE s.sites[d].owner = 0
      BY <2>2 DEF NameOf
    <2>3. CASE s.sites[d].owner # 0
      <3>1. PICK k \in Names : s.users[k] = s.sites[d].owner
        BY <2>3 DEF Sound, SiteKeys
      <3>2. QED
        BY <2>3, <3>1, OwnerOf
    <2>4. QED
      BY <2>2, <2>3
  <1> DEFINE row(n) == [role |-> s.panel[n].role, hash |-> s.panel[n].hash,
                        reseller |-> ResellerName(s, n)]
             site(d) == [s.sites[d] EXCEPT !.owner = NameOf(s.users, @)]
             panel == [n \in Names |-> row(n)]
             sites == [d \in Domains |-> site(d)]
             users == {n \in Names : s.users[n] # 0}
             packages == [p \in Packages |-> s.packages[p].limits]
  <1>3. ByName(s) = [panel |-> panel, users |-> users, packages |-> packages, sites |-> sites]
    BY DEF ByName
  <1>4. \A n \in Names : row(n) \in NamedUser
    BY <1>1 DEF NamedUser, Sound, Tables, PanelRow, RolesOrNone, Hashes
  <1>5. \A d \in Domains : /\ site(d) \in NamedSite
                           /\ site(d).owner = NameOf(s.users, s.sites[d].owner)
                           /\ site(d).conf = s.sites[d].conf
                           /\ site(d).targets = s.sites[d].targets
    BY <1>2 DEF NamedSite, Sound, Tables, SiteRow
  <1>6. packages \in [Packages -> {"none", "unlimited", "standard"}]
    BY DEF Sound, Tables, PackageRow
  <1>7. /\ panel \in [Names -> NamedUser] /\ sites \in [Domains -> NamedSite]
        /\ users \in SUBSET Names
        /\ \A n \in Names : panel[n] = row(n)
        /\ \A d \in Domains : sites[d] = site(d)
    BY <1>4, <1>5
  <1> HIDE DEF panel, sites, packages, site
  <1>8. ByName(s) \in Named
    BY <1>3, <1>6, <1>7 DEF Named
  <1>9. QED
    BY <1>3, <1>5, <1>7, <1>8 DEF packages

-----------------------------------------------------------------------------
(* Create *)

LEMMA FreshNames ==
  /\ ByName(Fresh) \in Named
  /\ \A d \in Domains : ByName(Fresh).sites[d].owner = NoName
  <1>1. \A d \in Domains : NameOf(Fresh.users, Fresh.sites[d].owner) = NoName
    BY DEF Fresh, NoSite, NameOf
  <1>2. QED
    BY <1>1, FreshSound, ByNameTyped

LEMMA DumpFits ==
  ASSUME Sound(db), HashesFit(db.panel), NEW names \in SUBSET Names,
         \A n \in names : db.panel[n].id # 0
  PROVE  LET content == Dumped(names).content
         IN  /\ content \in Named
             /\ \A n \in names : /\ content.panel[n].role \in Roles
                                 /\ content.panel[n].hash = HashFor(content.panel[n].role)
             /\ content.users \subseteq names
             /\ \A d \in Domains : content.sites[d].owner # NoName =>
                                      content.sites[d].owner \in content.users
  <1> DEFINE all     == ByName(db)
             none    == ByName(Fresh)
             owners  == names \cap all.users
             panel   == [n \in Names |-> IF n \in names THEN all.panel[n] ELSE none.panel[n]]
             sites   == [d \in Domains |-> IF all.sites[d].owner \in owners
                                           THEN all.sites[d] ELSE none.sites[d]]
             content == [panel |-> panel, users |-> owners, packages |-> all.packages,
                         sites |-> sites]
  <1>1. Dumped(names).content = content
    BY DEF Dumped
  <1>2. /\ all \in Named
        /\ \A n \in Names : all.panel[n].role = db.panel[n].role
                            /\ all.panel[n].hash = db.panel[n].hash
    BY ByNameTyped
  <1>3. none \in Named /\ \A d \in Domains : none.sites[d].owner = NoName
    BY FreshNames
  <1> HIDE DEF all, none
  <1>4. /\ panel \in [Names -> NamedUser] /\ sites \in [Domains -> NamedSite]
        /\ owners \in SUBSET Names
        /\ all.packages \in [Packages -> {"none", "unlimited", "standard"}]
    BY <1>2, <1>3 DEF Named
  <1>5. \A n \in names : panel[n] = all.panel[n]
    OBVIOUS
  <1>6. \A d \in Domains : sites[d].owner # NoName => sites[d].owner \in owners
    BY <1>3
  <1> HIDE DEF panel, sites, owners
  <1>7. content \in Named
    BY <1>4 DEF Named
  <1>8. \A n \in names : panel[n].role \in Roles /\ panel[n].hash = HashFor(panel[n].role)
    BY <1>2, <1>5 DEF HashesFit
  <1>9. owners \subseteq names
    BY DEF owners
  <1>10. QED
    BY <1>1, <1>6, <1>7, <1>8, <1>9

LEMMA IncludedExist ==
  ASSUME NEW scope \in Scopes, NEW subject, scope = "all" \/ subject \in Names, Sound(db)
  PROVE  /\ Included(scope, subject) \subseteq Names
         /\ \A n \in Included(scope, subject) : db.panel[n].id # 0
         /\ scope = "user" => Included(scope, subject) \subseteq {subject}
  <1>1. CASE scope = "all"
    BY <1>1 DEF Included
  <1>2. CASE scope = "user"
    BY <1>2 DEF Included
  <1>3. CASE scope = "reseller"
    <2>1. \A n \in Names : db.panel[n].role \in {"reseller", "user"} => db.panel[n].id # 0
      BY DEF Sound, PanelKeys, NoPanelUser
    <2>2. QED
      BY <1>3, <2>1 DEF Included
  <1>4. QED
    BY <1>1, <1>2, <1>3, BackupAssumption

LEMMA CreateFits ==
  ASSUME Sound(db), HashesFit(db.panel), NEW scope, NEW subject,
         scope = "all" \/ subject \in Names, Create(scope, subject)
  PROVE  ArchiveFits' /\ archive'.scope # "none"
  <1> DEFINE names == Included(scope, subject)
             dump  == Dumped(names)
  <1>1. PICK files \in SUBSET Domains, good \in BOOLEAN :
          /\ AddedTrees(dump, files, good)
          /\ archive' = [scope |-> scope, subject |-> subject, names |-> names,
                         content |-> dump.content, assigned |-> dump.assigned,
                         files |-> files, good |-> good]
    BY DEF Create
  <1>2. scope \in Scopes /\ (scope = "all" \/ names # {})
    BY DEF Create
  <1>3. /\ names \subseteq Names /\ \A n \in names : db.panel[n].id # 0
        /\ scope = "user" => names \subseteq {subject}
    BY <1>2, IncludedExist
  <1> HIDE DEF names
  <1>4. /\ dump.content \in Named
        /\ \A n \in names : /\ dump.content.panel[n].role \in Roles
                            /\ dump.content.panel[n].hash = HashFor(dump.content.panel[n].role)
        /\ dump.content.users \subseteq names
        /\ \A d \in Domains : dump.content.sites[d].owner # NoName =>
                                 dump.content.sites[d].owner \in dump.content.users
    BY <1>3, DumpFits
  <1>5. good => files = DumpedSites(dump)
    BY <1>1 DEF AddedTrees
  <1> HIDE DEF dump
  <1>6. /\ archive'.scope = scope /\ archive'.subject = subject /\ archive'.names = names
        /\ archive'.content = dump.content /\ archive'.files = files /\ archive'.good = good
    BY <1>1
  <1>7. DumpedSites(archive') = DumpedSites(dump)
    BY <1>6 DEF DumpedSites
  <1>8. scope = "user" => names = {subject}
    BY <1>2, <1>3
  <1>9. \A d \in DumpedSites(dump) : dump.content.sites[d].owner \in dump.content.users
    BY <1>4 DEF DumpedSites
  <1>10. QED
    BY <1>2, <1>3, <1>4, <1>5, <1>6, <1>7, <1>8, <1>9, BackupAssumption DEF ArchiveFits

-----------------------------------------------------------------------------
(* The statements of Restore                                                 *)

\* The names of the archive go to names of their own.
LEMMA MappedNames ==
  ASSUME ArchiveFits, OneRenamed, restore \in RestoreTables
  PROVE  /\ \A n \in archive.names : Mapped(n) = RestoredAs(n) /\ RestoredAs(n) \in Names
         /\ \A m, n \in archive.names : RestoredAs(m) = RestoredAs(n) => m = n
  <1>1. restore.new \in Names \cup {NoName} /\ archive.names \subseteq Names
    BY DEF RestoreTables, ArchiveFits
  <1>2. restore.new # NoName => archive.names = {archive.subject}
    BY DEF OneRenamed
  <1>3. QED
    BY <1>1, <1>2 DEF Mapped, mappedName, RestoredAs

\* A statement changes neither the names nor what they stand for.
SameRestore ==
    /\ archive' = archive /\ before' = before
    /\ restore' \in RestoreTables /\ restore'.new = restore.new

LEMMA SameNames ==
  ASSUME SameRestore
  PROVE  /\ \A n : SavedAs(n)' = SavedAs(n)
         /\ \A n : RestoredAs(n)' = RestoredAs(n)
         /\ \A m : Linked(m)' <=> Linked(m)
         /\ DumpedSites(archive)' = DumpedSites(archive)
         /\ OneRenamed' <=> OneRenamed
  BY DEF SameRestore, SavedAs, RestoredAs, Linked, DumpedSites, OneRenamed

LEMMA OrderStays ==
  ASSUME InOrder, SameRestore, restore'.panelIDs = restore.panelIDs
  PROVE  InOrder'
  BY SameNames DEF InOrder, SameRestore

LEMMA PanelStays ==
  ASSUME PanelMerging, SameRestore, restore'.panelIDs = restore.panelIDs,
         ArchiveFits, OneRenamed, restore \in RestoreTables,
         Sound(db), Sound(db'), db'.panel = db.panel
  PROVE  PanelMerging'
  <1>1. \A n \in Names : ResellerName(db', n) = ResellerName(db, n)
    BY ResellerStays
  <1>2. \A m \in archive.names : RestoredAs(m) \in Names
    BY MappedNames
  <1>3. QED
    BY <1>1, <1>2, SameNames DEF PanelMerging, SameRestore

LEMMA UsersStay ==
  ASSUME UsersMerging, SameRestore, restore'.userIDs = restore.userIDs, db'.users = db.users
  PROVE  UsersMerging'
  BY SameNames DEF UsersMerging, SameRestore

LEMMA PackagesStay ==
  ASSUME PackagesMerging, SameRestore, restore'.packageIDs = restore.packageIDs,
         db'.packages = db.packages
  PROVE  PackagesMerging'
  BY DEF PackagesMerging, SameRestore

LEMMA SitesStay ==
  ASSUME SitesMerging, SameRestore,
         restore'.sites = restore.sites, restore'.targets = restore.targets,
         Sound(db), Sound(db'), db'.sites = db.sites,
         \A m \in Names : db.users[m] # 0 => db'.users[m] = db.users[m]
  PROVE  SitesMerging'
  <1>1. \A d \in Domains : NameOf(db'.users, db'.sites[d].owner) = NameOf(db.users, db.sites[d].owner)
    BY OwnerStays
  <1>2. DumpedSites(archive) \subseteq Domains
    BY DEF DumpedSites
  <1>3. QED
    BY <1>1, <1>2, SameNames DEF SitesMerging, SameRestore

\* What the statements need, and what they keep: the state of the restore
\* changes to "stopped" at most, which no part of Merging looks at.
Base == Sound(db) /\ HashesFit(db.panel) /\ ArchiveFits /\ restore \in RestoreTables /\ Merging

LEMMA StopKeeps ==
  ASSUME Base, restore' = [restore EXCEPT !.state = "stopped"],
         UNCHANGED <<db, archive, before>>
  PROVE  Base'
  <1>1. /\ SameRestore /\ restore'.panelIDs = restore.panelIDs
        /\ restore'.userIDs = restore.userIDs /\ restore'.packageIDs = restore.packageIDs
        /\ restore'.sites = restore.sites /\ restore'.targets = restore.targets
    BY DEF Base, RestoreTables, SameRestore
  <1>2. Sound(db') /\ HashesFit(db'.panel) /\ restore' \in RestoreTables
    BY <1>1 DEF Base, SameRestore
  <1>3. ArchiveFits'
    BY DEF Base, ArchiveFits, DumpedSites
  <1>4. OneRenamed' /\ InOrder'
    BY <1>1, SameNames, OrderStays DEF Base, Merging
  <1>5. PanelMerging' /\ UsersMerging' /\ PackagesMerging' /\ SitesMerging'
    BY <1>1, <1>2, PanelStays, UsersStay, PackagesStay, SitesStay DEF Base, Merging
  <1>6. QED
    BY <1>2, <1>3, <1>4, <1>5 DEF Base, Merging

LEMMA PackageKeeps ==
  ASSUME Base, RestorePackage, UNCHANGED <<archive, before>>
  PROVE  Base' /\ restore'.state = restore.state
  <1> DEFINE p      == Next_left(PackagesLeft)
             limits == archive.content.packages[p]
  <1>1. /\ p \in Packages /\ limits \in GivenLimits
    <2>1. PackagesLeft \subseteq Nat /\ PackagesLeft # {}
      BY AccountsAssumption DEF PackagesLeft, RestorePackage
    <2>2. p \in PackagesLeft
      BY <2>1, LeastLeft
    <2>3. archive.content.packages \in [Packages -> {"none", "unlimited", "standard"}]
      BY DEF Base, ArchiveFits, Named
    <2>4. QED
      BY <2>2, <2>3 DEF PackagesLeft, GivenLimits
  <1>2. /\ db' = IF db.packages[p].id # 0 THEN [db EXCEPT !.packages[p].limits = limits]
                 ELSE CreatePackage(db, p, limits)
        /\ restore' = [restore EXCEPT !.packageIDs[p] = db'.packages[p].id]
    BY DEF RestorePackage
  <1> HIDE DEF p, limits
  <1>3. /\ Sound(db')
        /\ db'.packages[p].id # 0 /\ db'.packages[p].limits = limits
        /\ \A q \in Packages : q # p => db'.packages[q] = db.packages[q]
        /\ db'.panel = db.panel /\ db'.users = db.users /\ db'.sites = db.sites
    <2>1. CASE db.packages[p].id # 0
      <3>1. db' = [db EXCEPT !.packages[p].limits = limits]
        BY <1>2, <2>1
      <3>2. QED
        BY <1>1, <2>1, <3>1, LimitedPackage DEF Base
    <2>2. CASE db.packages[p].id = 0
      <3>1. db' = CreatePackage(db, p, limits)
        BY <1>2, <2>2
      <3>2. QED
        BY <1>1, <2>2, <3>1, CreatedPackage DEF Base
    <2>3. QED
      BY <2>1, <2>2
  <1>4. /\ SameRestore /\ restore'.panelIDs = restore.panelIDs
        /\ restore'.userIDs = restore.userIDs
        /\ restore'.sites = restore.sites /\ restore'.targets = restore.targets
        /\ restore'.state = restore.state
        /\ restore'.packageIDs[p] = db'.packages[p].id
        /\ \A q \in Packages : q # p => restore'.packageIDs[q] = restore.packageIDs[q]
    <2>1. db'.packages[p].id \in Nat
      BY <1>1, <1>3 DEF Sound, Tables, PackageRow
    <2>2. QED
      BY <1>1, <1>2, <2>1 DEF Base, RestoreTables, SameRestore
  <1>5. ArchiveFits'
    BY DEF Base, ArchiveFits, DumpedSites
  <1>6. OneRenamed' /\ InOrder'
    BY <1>4, SameNames, OrderStays DEF Base, Merging
  <1>7. PackagesMerging'
    <2>1. \A q \in Packages : q # p => db'.packages[q] = db.packages[q]
                                       /\ restore'.packageIDs[q] = restore.packageIDs[q]
      BY <1>3, <1>4
    <2>2. archive.content.packages[p] # "none"
      BY <1>1 DEF limits, GivenLimits
    <2>3. QED
      BY <1>3, <1>4, <2>1, <2>2 DEF Base, Merging, PackagesMerging, SameRestore, limits
  <1>8. PanelMerging' /\ UsersMerging' /\ SitesMerging'
    BY <1>3, <1>4, PanelStays, UsersStay, SitesStay DEF Base, Merging
  <1>9. QED
    BY <1>3, <1>4, <1>5, <1>6, <1>7, <1>8 DEF Base, Merging, SameRestore

LEMMA UserKeeps ==
  ASSUME Base, RestoreUser, UNCHANGED <<archive, before>>
  PROVE  Base' /\ restore'.state = restore.state
  <1> DEFINE n == Next_left(UsersLeft)
             k == Mapped(n)
  <1>1. /\ n \in archive.content.users /\ n \in archive.names
        /\ k = RestoredAs(n) /\ k \in Names
    <2>1. UsersLeft \subseteq archive.names /\ archive.names \subseteq Nat /\ UsersLeft # {}
      BY AccountsAssumption DEF UsersLeft, RestoreUser, Base, ArchiveFits
    <2>2. n \in UsersLeft
      BY <2>1, LeastLeft
    <2>3. QED
      BY <2>1, <2>2, MappedNames DEF UsersLeft, Base, Merging
  <1>2. /\ db' = EnsureUser(db, k)
        /\ restore' = [restore EXCEPT !.userIDs[k] = db'.users[k]]
    BY DEF RestoreUser
  <1> HIDE DEF n, k
  <1>3. /\ Sound(db')
        /\ db'.users[k] # 0
        /\ \A m \in Names : db.users[m] # 0 => db'.users[m] = db.users[m]
        /\ \A m \in Names : m # k => db'.users[m] = db.users[m]
        /\ db'.panel = db.panel /\ db'.packages = db.packages /\ db'.sites = db.sites
    BY <1>1, <1>2, EnsuredUser DEF Base
  <1>4. /\ SameRestore /\ restore'.panelIDs = restore.panelIDs
        /\ restore'.packageIDs = restore.packageIDs
        /\ restore'.sites = restore.sites /\ restore'.targets = restore.targets
        /\ restore'.state = restore.state
        /\ restore'.userIDs[k] = db'.users[k]
        /\ \A m \in Names : m # k => restore'.userIDs[m] = restore.userIDs[m]
    <2>1. db'.users[k] \in Nat
      BY <1>1, <1>3 DEF Sound, Tables
    <2>2. QED
      BY <1>1, <1>2, <2>1 DEF Base, RestoreTables, SameRestore
  <1>5. ArchiveFits'
    BY DEF Base, ArchiveFits, DumpedSites
  <1>6. OneRenamed' /\ InOrder'
    BY <1>4, SameNames, OrderStays DEF Base, Merging
  <1>7. UsersMerging'
    BY <1>1, <1>3, <1>4, SameNames DEF Base, Merging, UsersMerging, SameRestore
  <1>8. PanelMerging' /\ PackagesMerging' /\ SitesMerging'
    BY <1>3, <1>4, PanelStays, PackagesStay, SitesStay DEF Base, Merging
  <1>9. QED
    BY <1>3, <1>4, <1>5, <1>6, <1>7, <1>8 DEF Base, Merging, SameRestore

LEMMA AssignmentKeeps ==
  ASSUME Base, RestoreAssignment, UNCHANGED <<archive, before>>
  PROVE  Base' /\ restore'.state \in {restore.state, "stopped"}
  <1>1. PICK n \in AssignLeft :
          LET i == restore.userIDs[Mapped(n)]
              p == restore.packageIDs[archive.assigned[n]] IN
          IF MayAssign(db, i, p)
          THEN /\ db' = AssignPackage(db, i, p)
               /\ restore' = [restore EXCEPT !.assigned = @ \cup {n}]
          ELSE /\ restore' = [restore EXCEPT !.state = "stopped"]
               /\ UNCHANGED db
    BY DEF RestoreAssignment
  <1> DEFINE i == restore.userIDs[Mapped(n)]
             p == restore.packageIDs[archive.assigned[n]]
  <1>2. CASE ~MayAssign(db, i, p)
    BY <1>1, <1>2, StopKeeps DEF Base, RestoreTables
  <1>3. CASE MayAssign(db, i, p)
    <2>1. /\ db' = AssignPackage(db, i, p)
          /\ restore' = [restore EXCEPT !.assigned = @ \cup {n}]
      BY <1>1, <1>3
    <2>2. p \in Nat /\ n \in Names
      <3>1. PICK q \in Packages : db.packages[q].id = p
        BY <1>3 DEF MayAssign, IsPackageId
      <3>2. QED
        BY <3>1 DEF Base, Sound, Tables, PackageRow, AssignLeft
    <2> HIDE DEF i, p
    <2>3. /\ Sound(db') /\ db'.panel = db.panel /\ db'.users = db.users
          /\ db'.packages = db.packages /\ db'.sites = db.sites
      BY <2>1, <2>2, AssignedPackage DEF Base
    <2>4. /\ SameRestore /\ restore'.panelIDs = restore.panelIDs
          /\ restore'.userIDs = restore.userIDs /\ restore'.packageIDs = restore.packageIDs
          /\ restore'.sites = restore.sites /\ restore'.targets = restore.targets
          /\ restore'.state = restore.state
      BY <2>1, <2>2 DEF Base, RestoreTables, SameRestore
    <2>5. ArchiveFits'
      BY DEF Base, ArchiveFits, DumpedSites
    <2>6. OneRenamed' /\ InOrder'
      BY <2>4, SameNames, OrderStays DEF Base, Merging
    <2>7. PanelMerging' /\ UsersMerging' /\ PackagesMerging' /\ SitesMerging'
      BY <2>3, <2>4, PanelStays, UsersStay, PackagesStay, SitesStay DEF Base, Merging
    <2>8. QED
      BY <2>3, <2>4, <2>5, <2>6, <2>7 DEF Base, Merging, SameRestore
  <1>4. QED
    BY <1>2, <1>3

\* The panel user that is next, the row it gets, and whether it is linked: its
\* reseller is in the archive and was restored just when it sorts before it.
LEMMA NextPanelUser ==
  ASSUME Base, PanelLeft # {}
  PROVE  LET n == Next_left(PanelLeft)
             saved == archive.content.panel[n]
             r == IF saved.reseller = NoName THEN NoName ELSE Mapped(saved.reseller)
         IN  /\ n \in archive.names /\ RestoredAs(n) \in Names
             /\ Mapped(n) = RestoredAs(n) /\ restore.panelIDs[RestoredAs(n)] = 0
             /\ \A m \in archive.names :
                   restore.panelIDs[RestoredAs(m)] = 0 => n <= m
             /\ saved.role \in Roles /\ saved.hash = HashFor(saved.role)
             /\ r # NoName /\ restore.panelIDs[r] # 0 <=> Linked(n)
             /\ Linked(n) => /\ r = RestoredAs(saved.reseller) /\ r \in Names
                             /\ restore.panelIDs[r] = db.panel[r].id
  <1> DEFINE n == Next_left(PanelLeft)
             saved == archive.content.panel[n]
             r == IF saved.reseller = NoName THEN NoName ELSE Mapped(saved.reseller)
  <1>1. /\ ArchiveFits /\ OneRenamed /\ InOrder /\ PanelMerging
        /\ restore \in RestoreTables
    BY DEF Base, Merging
  <1>2. /\ archive.names \subseteq Names /\ archive.names \subseteq Nat
        /\ NoName \notin Names
    BY <1>1, AccountsAssumption DEF ArchiveFits
  <1>3. /\ \A m \in archive.names : Mapped(m) = RestoredAs(m) /\ RestoredAs(m) \in Names
        /\ \A l, m \in archive.names : RestoredAs(l) = RestoredAs(m) => l = m
    BY <1>1, MappedNames
  <1>4. n \in PanelLeft /\ \A m \in PanelLeft : n <= m
    BY <1>2, LeastLeft DEF PanelLeft
  <1> HIDE DEF n
  <1>5. /\ n \in archive.names /\ restore.panelIDs[RestoredAs(n)] = 0
        /\ \A m \in archive.names : restore.panelIDs[RestoredAs(m)] = 0 => n <= m
    BY <1>3, <1>4 DEF PanelLeft
  <1>6. /\ saved.role \in Roles /\ saved.hash = HashFor(saved.role)
        /\ saved.reseller \in Names \cup {NoName}
    BY <1>1, <1>2, <1>5 DEF ArchiveFits, Named, NamedUser
  <1>7. ASSUME Linked(n)
        PROVE  /\ r # NoName /\ restore.panelIDs[r] # 0
               /\ r = RestoredAs(saved.reseller) /\ r \in Names
               /\ restore.panelIDs[r] = db.panel[r].id
    <2>1. saved.reseller \in archive.names /\ saved.reseller < n
      BY <1>7 DEF Linked
    <2>2. r = RestoredAs(saved.reseller) /\ r \in Names /\ r # NoName
      BY <1>2, <1>3, <2>1
    <2>3. restore.panelIDs[r] # 0
      BY <1>2, <1>5, <2>1, <2>2
    <2>4. QED
      BY <1>1, <2>1, <2>2, <2>3 DEF PanelMerging
  <1>8. ASSUME r # NoName, restore.panelIDs[r] # 0
        PROVE  Linked(n)
    <2>1. saved.reseller \in Names /\ r = Mapped(saved.reseller)
      BY <1>6, <1>8
    <2>2. r \in Names
      BY <1>1, <2>1 DEF Mapped, mappedName, RestoreTables
    <2>3. PICK m \in archive.names : RestoredAs(m) = r
      BY <1>1, <1>8, <2>2 DEF InOrder, SavedAs
    <2>4. restore.new = NoName
      <3>1. SUFFICES ASSUME restore.new # NoName PROVE FALSE
        OBVIOUS
      <3>2. m = n
        BY <1>1, <1>5, <3>1 DEF OneRenamed
      <3>3. QED
        BY <1>5, <1>8, <2>3, <3>2
    <2>5. r = saved.reseller /\ m = saved.reseller
      BY <2>1, <2>3, <2>4 DEF Mapped, mappedName, RestoredAs
    <2>6. m < n
      BY <1>1, <1>5, <1>8, <2>3 DEF InOrder
    <2>7. QED
      BY <2>5, <2>6 DEF Linked
  <1>9. QED
    BY <1>3, <1>5, <1>6, <1>7, <1>8 DEF n

LEMMA PanelUserKeeps ==
  ASSUME Base, RestorePanelUser, UNCHANGED <<archive, before>>
  PROVE  Base' /\ restore'.state \in {restore.state, "stopped"}
  <1> DEFINE n       == Next_left(PanelLeft)
             k       == RestoredAs(n)
             saved   == archive.content.panel[n]
             created == CreatePanelUser(db, k, saved.hash, saved.role)
             r == IF saved.reseller = NoName THEN NoName ELSE Mapped(saved.reseller)
  <1>1. /\ n \in archive.names /\ k \in Names
        /\ Mapped(n) = k /\ restore.panelIDs[k] = 0
        /\ \A m \in archive.names : restore.panelIDs[RestoredAs(m)] = 0 => n <= m
        /\ saved.role \in Roles /\ saved.hash = HashFor(saved.role)
        /\ r # NoName /\ restore.panelIDs[r] # 0 <=> Linked(n)
        /\ Linked(n) => /\ r = RestoredAs(saved.reseller) /\ r \in Names
                        /\ restore.panelIDs[r] = db.panel[r].id
    BY NextPanelUser DEF RestorePanelUser
  <1>2. \/ /\ db' = LinkedTo(created, k, r)
           /\ restore' = [restore EXCEPT !.panelIDs[k] = db'.panel[k].id]
        \/ /\ db' = created
           /\ restore' = [restore EXCEPT !.state = "stopped"]
    BY <1>1 DEF RestorePanelUser
  <1>3. /\ ArchiveFits /\ OneRenamed /\ InOrder /\ PanelMerging
        /\ restore \in RestoreTables
        /\ archive.names \subseteq Names /\ archive.names \subseteq Nat
    BY AccountsAssumption DEF Base, Merging, ArchiveFits
  <1>4. /\ \A m \in archive.names : RestoredAs(m) \in Names
        /\ \A m \in archive.names : RestoredAs(m) = k => m = n
        /\ SavedAs(k) # {}
    BY <1>1, <1>3, MappedNames DEF SavedAs
  <1> HIDE DEF n, k, r
  <1>5. /\ Sound(created) /\ created.panel[k].id # 0
        /\ created.panel[k].role = saved.role /\ created.panel[k].hash = saved.hash
        /\ created.panel[k].reseller = db.panel[k].reseller
        /\ db.panel[k].id # 0 => created.panel[k].id = db.panel[k].id
        /\ \A m \in Names : m # k => created.panel[m] = db.panel[m]
        /\ created.users = db.users /\ created.packages = db.packages
        /\ created.sites = db.sites
    <2>1. saved.role \in RolesOrNone /\ saved.hash \in Hashes
      BY <1>1 DEF RolesOrNone, Hashes, HashFor
    <2>2. QED
      BY <1>1, <2>1, CreatedPanelUser DEF Base
  <1> HIDE DEF created
  <1>6. /\ HashesFit(created.panel)
        /\ \A m \in Names : db.panel[m].id # 0 => created.panel[m].id = db.panel[m].id
        /\ \A m \in Names : created.panel[m].reseller = db.panel[m].reseller
    BY <1>1, <1>5 DEF HashesFit, Base
  <1>7. \A m \in Names : ResellerName(created, m) = ResellerName(db, m)
    BY <1>5, <1>6, ResellerStays DEF Base
  <1>8. ArchiveFits'
    BY DEF Base, ArchiveFits, DumpedSites
  <1>9. ASSUME db' = created, restore' = [restore EXCEPT !.state = "stopped"]
        PROVE  Base' /\ restore'.state = "stopped"
    <2>1. /\ SameRestore /\ restore'.panelIDs = restore.panelIDs
          /\ restore'.userIDs = restore.userIDs /\ restore'.packageIDs = restore.packageIDs
          /\ restore'.sites = restore.sites /\ restore'.targets = restore.targets
          /\ restore'.state = "stopped"
      BY <1>9 DEF Base, RestoreTables, SameRestore
    <2>2. OneRenamed' /\ InOrder'
      BY <1>3, <2>1, SameNames, OrderStays
    <2>3. PanelMerging'
      <3>1. \A m \in archive.names : restore.panelIDs[RestoredAs(m)] # 0 => RestoredAs(m) # k
        BY <1>1
      <3>2. \A m \in Names : SavedAs(m) = {} => m # k
        BY <1>4
      <3>3. QED
        BY <1>3, <1>4, <1>5, <1>7, <1>9, <2>1, <3>1, <3>2, SameNames
           DEF PanelMerging, SameRestore
    <2>4. UsersMerging' /\ PackagesMerging' /\ SitesMerging'
      BY <1>5, <1>9, <2>1, UsersStay, PackagesStay, SitesStay DEF Base, Merging
    <2>5. QED
      BY <1>5, <1>6, <1>8, <1>9, <2>1, <2>2, <2>3, <2>4 DEF Base, Merging, SameRestore
  <1>10. ASSUME db' = LinkedTo(created, k, r),
                restore' = [restore EXCEPT !.panelIDs[k] = db'.panel[k].id]
         PROVE  Base' /\ restore'.state = restore.state
    <2>1. /\ Sound(db') /\ db'.panel[k].id = created.panel[k].id
          /\ db'.panel[k].role = saved.role /\ db'.panel[k].hash = saved.hash
          /\ \A m \in Names : m # k => db'.panel[m] = created.panel[m]
          /\ db'.users = db.users /\ db'.packages = db.packages /\ db'.sites = db.sites
          /\ Linked(n) => ResellerName(db', k) = r
          /\ ~Linked(n) => ResellerName(db', k) = ResellerName(db, k)
      <3>1. CASE ~Linked(n)
        <4>1. db' = created
          BY <1>1, <1>10, <3>1 DEF LinkedTo
        <4>2. QED
          BY <1>1, <1>5, <1>7, <3>1, <4>1
      <3>2. CASE Linked(n)
        <4>1. db' = [created EXCEPT !.panel[k].reseller = restore.panelIDs[r]]
          BY <1>1, <1>10, <3>2 DEF LinkedTo
        <4>2. /\ r \in Names /\ r # k /\ restore.panelIDs[r] # 0
              /\ restore.panelIDs[r] = db.panel[r].id
              /\ created.panel[r] = db.panel[r]
          BY <1>1, <1>5, <3>2
        <4>3. restore.panelIDs[r] \in Nat /\ HasId(created.panel, restore.panelIDs[r])
          BY <1>3, <4>2 DEF HasId, RestoreTables
        <4>4. /\ Sound(db') /\ db'.panel[k].id = created.panel[k].id
              /\ db'.panel[k].role = created.panel[k].role
              /\ db'.panel[k].hash = created.panel[k].hash
              /\ db'.panel[k].reseller = restore.panelIDs[r]
              /\ \A m \in Names : m # k => db'.panel[m] = created.panel[m]
              /\ db'.users = created.users /\ db'.packages = created.packages
              /\ db'.sites = created.sites
          BY <1>1, <1>5, <4>1, <4>3, LinkedPanelUser
        <4>5. ResellerName(db', k) = r
          BY <1>1, <4>2, <4>4, ResellerOf
        <4>6. QED
          BY <1>5, <3>2, <4>4, <4>5
      <3>3. QED
        BY <3>1, <3>2
    <2>2. /\ HashesFit(db'.panel)
          /\ \A m \in Names : db.panel[m].id # 0 => db'.panel[m].id = db.panel[m].id
          /\ \A m \in Names : m # k => db'.panel[m] = db.panel[m]
      BY <1>1, <1>5, <1>6, <2>1 DEF HashesFit
    <2>3. \A m \in Names : m # k => ResellerName(db', m) = ResellerName(db, m)
      BY <2>1, <2>2, ResellerStays DEF Base
    <2>4. /\ SameRestore
          /\ restore'.userIDs = restore.userIDs /\ restore'.packageIDs = restore.packageIDs
          /\ restore'.sites = restore.sites /\ restore'.targets = restore.targets
          /\ restore'.state = restore.state
          /\ restore'.panelIDs[k] = db'.panel[k].id
          /\ \A m \in Names : m # k => restore'.panelIDs[m] = restore.panelIDs[m]
      <3>1. db'.panel[k].id \in Nat
        BY <1>1, <2>1 DEF Sound, Tables, PanelRow
      <3>2. QED
        BY <1>1, <1>3, <1>10, <3>1 DEF Base, RestoreTables, SameRestore
    <2>5. db'.panel[k].id # 0
      BY <1>5, <2>1
    <2>6. OneRenamed'
      BY <1>3, <2>4, SameNames
    <2>7. InOrder'
      <3>1. \A j \in Names : restore'.panelIDs[j] # 0 => SavedAs(j) # {}
        BY <1>3, <1>4, <2>4 DEF InOrder
      <3>2. ASSUME NEW l \in archive.names, NEW m \in archive.names,
                   restore'.panelIDs[RestoredAs(l)] # 0, restore'.panelIDs[RestoredAs(m)] = 0
            PROVE  l < m
        <4>1. RestoredAs(m) # k /\ m # n /\ restore.panelIDs[RestoredAs(m)] = 0
          BY <1>4, <2>4, <2>5, <3>2 DEF k
        <4>2. CASE l = n
          BY <1>1, <1>3, <4>1, <4>2
        <4>3. CASE l # n
          <5>1. restore.panelIDs[RestoredAs(l)] # 0
            BY <1>4, <2>4, <3>2, <4>3
          <5>2. QED
            BY <1>3, <4>1, <5>1 DEF InOrder
        <4>4. QED
          BY <4>2, <4>3
      <3>3. QED
        BY <2>4, <3>1, <3>2, SameNames DEF InOrder, SameRestore
    <2>8. PanelMerging'
      <3>1. ASSUME NEW m \in Names, SavedAs(m) = {}
            PROVE  /\ db'.panel[m].role = before.panel[m].role
                   /\ db'.panel[m].hash = before.panel[m].hash
                   /\ ResellerName(db', m) = before.panel[m].reseller
        BY <1>3, <1>4, <2>2, <2>3, <3>1 DEF PanelMerging
      <3>2. ASSUME NEW m \in archive.names, ~Linked(m)
            PROVE  ResellerName(db', RestoredAs(m)) = before.panel[RestoredAs(m)].reseller
        BY <1>3, <1>4, <2>1, <2>3, <3>2 DEF PanelMerging
      <3>3. ASSUME NEW m \in archive.names, restore'.panelIDs[RestoredAs(m)] # 0
            PROVE  /\ restore'.panelIDs[RestoredAs(m)] = db'.panel[RestoredAs(m)].id
                   /\ db'.panel[RestoredAs(m)].role = archive.content.panel[m].role
                   /\ db'.panel[RestoredAs(m)].hash = archive.content.panel[m].hash
                   /\ Linked(m) => ResellerName(db', RestoredAs(m))
                                   = RestoredAs(archive.content.panel[m].reseller)
        <4>1. CASE RestoredAs(m) = k
          BY <1>1, <1>4, <2>1, <2>4, <4>1
        <4>2. CASE RestoredAs(m) # k
          BY <1>3, <1>4, <2>2, <2>3, <2>4, <3>3, <4>2 DEF PanelMerging
        <4>3. QED
          BY <4>1, <4>2
      <3>4. QED
        BY <2>4, <3>1, <3>2, <3>3, SameNames DEF PanelMerging, SameRestore
    <2>9. UsersMerging' /\ PackagesMerging' /\ SitesMerging'
      BY <2>1, <2>4, UsersStay, PackagesStay, SitesStay DEF Base, Merging
    <2>10. QED
      BY <1>8, <2>1, <2>2, <2>4, <2>6, <2>7, <2>8, <2>9 DEF Base, Merging, SameRestore
  <1>11. QED
    BY <1>2, <1>9, <1>10

LEMMA SiteKeeps ==
  ASSUME Base, RestoreSite, UNCHANGED <<archive, before>>
  PROVE  Base' /\ restore'.state = restore.state
  <1>1. PICK d \in SitesLeft :
          LET saved == archive.content.sites[d] IN
          /\ db' = UpsertSite(db, d, restore.userIDs[Mapped(saved.owner)], saved.conf)
          /\ restore' = [restore EXCEPT !.sites = @ \cup {d}]
    BY DEF RestoreSite
  <1> DEFINE saved == archive.content.sites[d]
             k     == RestoredAs(saved.owner)
  <1>2. /\ ArchiveFits /\ OneRenamed /\ SitesMerging /\ UsersMerging
        /\ restore \in RestoreTables
    BY DEF Base, Merging
  <1>3. /\ d \in DumpedSites(archive) /\ d \in Domains
        /\ saved.owner \in archive.content.users /\ saved.owner \in archive.names
        /\ saved.conf \in Confs \cup {NoConf}
    BY <1>2 DEF SitesLeft, DumpedSites, ArchiveFits, Named, NamedSite
  <1>4. k \in Names /\ Mapped(saved.owner) = k
    BY <1>2, <1>3, MappedNames
  <1>5. restore.userIDs[k] = db.users[k] /\ db.users[k] # 0
    <2>1. restore.userIDs[k] # 0
      BY <1>3, <1>4 DEF RestoreSite, AccountsRestored, UsersLeft
    <2>2. QED
      BY <1>2, <1>4, <2>1 DEF UsersMerging
  <1>6. db' = UpsertSite(db, d, db.users[k], saved.conf)
    BY <1>1, <1>4, <1>5
  <1> HIDE DEF saved, k
  <1>7. /\ Sound(db')
        /\ db'.sites[d].owner = db.users[k] /\ db'.sites[d].conf = saved.conf
        /\ db'.sites[d].targets = db.sites[d].targets
        /\ \A e \in Domains : e # d => db'.sites[e] = db.sites[e]
        /\ db'.panel = db.panel /\ db'.users = db.users /\ db'.packages = db.packages
    BY <1>3, <1>4, <1>5, <1>6, UpsertedSite DEF Base
  <1>8. /\ SameRestore /\ restore'.panelIDs = restore.panelIDs
        /\ restore'.userIDs = restore.userIDs /\ restore'.packageIDs = restore.packageIDs
        /\ restore'.sites = restore.sites \cup {d} /\ restore'.targets = restore.targets
        /\ restore'.state = restore.state
    BY <1>1, <1>3 DEF Base, RestoreTables, SameRestore
  <1>9. ArchiveFits'
    BY DEF Base, ArchiveFits, DumpedSites
  <1>10. OneRenamed' /\ InOrder'
    BY <1>8, SameNames, OrderStays DEF Base, Merging
  <1>11. SitesMerging'
    <2>1. NameOf(db'.users, db'.sites[d].owner) = k
      BY <1>4, <1>5, <1>7, OwnerOf
    <2>2. \A e \in Domains : e # d => NameOf(db'.users, db'.sites[e].owner)
                                      = NameOf(db.users, db.sites[e].owner)
      BY <1>7
    <2>3. DumpedSites(archive) \subseteq Domains
      BY DEF DumpedSites
    <2>4. ASSUME NEW e \in Domains \ DumpedSites(archive)
          PROVE  /\ NameOf(db'.users, db'.sites[e].owner) = before.sites[e].owner
                 /\ db'.sites[e].conf = before.sites[e].conf
                 /\ db'.sites[e].targets = before.sites[e].targets
      BY <1>2, <1>3, <1>7, <2>2 DEF SitesMerging
    <2>5. ASSUME NEW e \in DumpedSites(archive)
          PROVE  /\ before.sites[e].targets \subseteq db'.sites[e].targets
                 /\ db'.sites[e].targets \subseteq
                       before.sites[e].targets \cup archive.content.sites[e].targets
                 /\ e \in restore'.sites =>
                       /\ NameOf(db'.users, db'.sites[e].owner)
                          = RestoredAs(archive.content.sites[e].owner)
                       /\ db'.sites[e].conf = archive.content.sites[e].conf
                 /\ e \in restore'.targets =>
                       archive.content.sites[e].targets \subseteq db'.sites[e].targets
      <3>1. CASE e = d
        BY <1>2, <1>7, <1>8, <2>1, <3>1 DEF SitesMerging, saved, k
      <3>2. CASE e # d
        BY <1>2, <1>7, <1>8, <2>2, <2>3, <3>2 DEF SitesMerging
      <3>3. QED
        BY <3>1, <3>2
    <2>6. QED
      BY <1>8, <2>4, <2>5, SameNames DEF SitesMerging, SameRestore
  <1>12. PanelMerging' /\ UsersMerging' /\ PackagesMerging'
    BY <1>7, <1>8, PanelStays, UsersStay, PackagesStay DEF Base, Merging
  <1>13. QED
    BY <1>7, <1>8, <1>9, <1>10, <1>11, <1>12 DEF Base, Merging, SameRestore

LEMMA TargetsKeep ==
  ASSUME Base, RestoreTargets, UNCHANGED <<archive, before>>
  PROVE  Base' /\ restore'.state = restore.state
  <1>1. PICK d \in TargetsLeft :
          /\ db' = [db EXCEPT !.sites[d].targets = @ \cup archive.content.sites[d].targets]
          /\ restore' = [restore EXCEPT !.targets = @ \cup {d}]
    BY DEF RestoreTargets
  <1> DEFINE T == archive.content.sites[d].targets
  <1>2. /\ ArchiveFits /\ OneRenamed /\ SitesMerging /\ restore \in RestoreTables
        /\ NoName \notin Names
    BY AccountsAssumption DEF Base, Merging
  <1>3. /\ d \in DumpedSites(archive) /\ d \in Domains /\ T \subseteq Targets
        /\ archive.content.sites[d].owner \in archive.names
        /\ d \in restore.sites
    BY <1>2 DEF TargetsLeft, SitesLeft, RestoreTargets, DumpedSites, ArchiveFits, Named, NamedSite
  <1>4. db.sites[d].owner # 0
    <2>1. NameOf(db.users, db.sites[d].owner) \in Names
      BY <1>2, <1>3, MappedNames DEF SitesMerging
    <2>2. QED
      BY <1>2, <2>1 DEF NameOf
  <1>5. db' = WithTargets(db, d, T)
    BY <1>1 DEF WithTargets
  <1> HIDE DEF T
  <1>6. /\ Sound(db')
        /\ db'.sites[d].owner = db.sites[d].owner /\ db'.sites[d].conf = db.sites[d].conf
        /\ db'.sites[d].targets = db.sites[d].targets \cup T
        /\ \A e \in Domains : e # d => db'.sites[e] = db.sites[e]
        /\ db'.panel = db.panel /\ db'.users = db.users /\ db'.packages = db.packages
    <2>1. Sound(db)
      BY DEF Base
    <2>2. QED
      BY <1>3, <1>4, <1>5, <2>1, TargetsAdded
  <1>7. /\ SameRestore /\ restore'.panelIDs = restore.panelIDs
        /\ restore'.userIDs = restore.userIDs /\ restore'.packageIDs = restore.packageIDs
        /\ restore'.sites = restore.sites /\ restore'.targets = restore.targets \cup {d}
        /\ restore'.state = restore.state
    BY <1>1, <1>3 DEF Base, RestoreTables, SameRestore
  <1>8. ArchiveFits'
    BY DEF Base, ArchiveFits, DumpedSites
  <1>9. OneRenamed' /\ InOrder'
    BY <1>7, SameNames, OrderStays DEF Base, Merging
  <1>10. SitesMerging'
    <2>1. DumpedSites(archive) \subseteq Domains
      BY DEF DumpedSites
    <2>2. ASSUME NEW e \in Domains \ DumpedSites(archive)
          PROVE  db'.sites[e] = db.sites[e]
      BY <1>3, <1>6
    <2>3. ASSUME NEW e \in DumpedSites(archive)
          PROVE  /\ db'.sites[e].owner = db.sites[e].owner
                 /\ db'.sites[e].conf = db.sites[e].conf
                 /\ before.sites[e].targets \subseteq db'.sites[e].targets
                 /\ db'.sites[e].targets \subseteq
                       before.sites[e].targets \cup archive.content.sites[e].targets
                 /\ e \in restore'.targets =>
                       archive.content.sites[e].targets \subseteq db'.sites[e].targets
      <3>1. CASE e = d
        BY <1>2, <1>6, <3>1 DEF SitesMerging, T
      <3>2. CASE e # d
        BY <1>2, <1>6, <1>7, <2>1, <3>2 DEF SitesMerging
      <3>3. QED
        BY <3>1, <3>2
    <2>4. QED
      BY <1>2, <1>6, <1>7, <2>2, <2>3, SameNames DEF SitesMerging, SameRestore
  <1>11. PanelMerging' /\ UsersMerging' /\ PackagesMerging'
    BY <1>6, <1>7, PanelStays, UsersStay, PackagesStay DEF Base, Merging
  <1>12. QED
    BY <1>6, <1>7, <1>8, <1>9, <1>10, <1>11 DEF Base, Merging, SameRestore

LEMMA FilesKeep ==
  ASSUME Base, RestoreFiles, UNCHANGED <<archive, before>>
  PROVE  Base' /\ AllRestored' /\ Brought'
  <1>1. PICK copied \in SUBSET archive.files :
          /\ trees' = trees \cup copied
          /\ restore' = [restore EXCEPT !.state = "done", !.warned = (copied # archive.files)]
    BY DEF RestoreFiles
  <1>2. db' = db
    BY DEF RestoreFiles
  <1>3. /\ SameRestore /\ restore'.panelIDs = restore.panelIDs
        /\ restore'.userIDs = restore.userIDs /\ restore'.packageIDs = restore.packageIDs
        /\ restore'.sites = restore.sites /\ restore'.targets = restore.targets
        /\ restore'.warned = (copied # archive.files)
    BY <1>1 DEF Base, RestoreTables, SameRestore
  <1>4. ArchiveFits'
    BY DEF Base, ArchiveFits, DumpedSites
  <1>5. OneRenamed' /\ InOrder'
    BY <1>3, SameNames, OrderStays DEF Base, Merging
  <1>6. PanelMerging' /\ UsersMerging' /\ PackagesMerging' /\ SitesMerging'
    BY <1>2, <1>3, PanelStays, UsersStay, PackagesStay, SitesStay DEF Base, Merging
  <1>7. Base'
    BY <1>2, <1>3, <1>4, <1>5, <1>6 DEF Base, Merging, SameRestore
  <1>8. AllRestored
    BY DEF RestoreFiles, AccountsRestored, AllRestored
  <1>9. AllRestored'
    BY <1>3, <1>8 DEF SameRestore, AllRestored, PackagesLeft, PanelLeft, UsersLeft,
                      SitesLeft, TargetsLeft, DumpedSites, Mapped, mappedName
  <1>10. Brought'
    BY <1>1, <1>3 DEF Brought, Base, ArchiveFits, SameRestore
  <1>11. QED
    BY <1>7, <1>9, <1>10

LEMMA StepKeeps ==
  ASSUME BackupInv, RestoreStep
  PROVE  BackupInv'
  <1>1. /\ Running /\ UNCHANGED <<archive, before, restores>>
        /\ Base /\ archive.scope # "none" /\ before \in Named
        /\ restores \in Nat /\ restores # 0
    BY DEF RestoreStep, Running, BackupInv, Base
  <1>2. CASE RestoreFiles
    <2>1. Base' /\ AllRestored' /\ Brought'
      BY <1>1, <1>2, FilesKeep
    <2>2. QED
      BY <1>1, <2>1 DEF BackupInv, Base
  <1>3. CASE /\ \/ RestorePackage \/ RestorePanelUser \/ RestoreUser \/ RestoreAssignment
                \/ RestoreSite \/ RestoreTargets \/ RestoreStops
             /\ UNCHANGED trees
    <2>1. Base' /\ restore'.state \in {"running", "stopped"}
      <3>1. CASE RestoreStops
        BY <1>1, <3>1, StopKeeps DEF RestoreStops, Base, RestoreTables
      <3>2. CASE ~RestoreStops
        BY <1>1, <1>3, <3>2, PackageKeeps, PanelUserKeeps, UserKeeps, AssignmentKeeps,
           SiteKeeps, TargetsKeep DEF Running
      <3>3. QED
        BY <3>1, <3>2
    <2>2. QED
      BY <1>1, <2>1 DEF BackupInv, Base
  <1>4. QED
    BY <1>2, <1>3 DEF RestoreStep

-----------------------------------------------------------------------------
(* The other steps, and the theorems                                         *)

\* A restore begins with nothing found: on the names of the restore it goes on
\* with, or on those the database has now.
LEMMA StartKeeps ==
  ASSUME BackupInv, NEW new \in Names \cup {NoName}, StartRestore(new)
  PROVE  BackupInv'
  <1>1. /\ Sound(db) /\ HashesFit(db.panel) /\ ArchiveFits /\ restore \in RestoreTables
        /\ UNCHANGED <<db, archive>> /\ archive.scope # "none"
        /\ restores \in Nat /\ restores' = restores + 1
        /\ restore' = [NoRestore EXCEPT !.state = "running", !.new = new]
        /\ before' = IF restore.state = "stopped" /\ restore.new = new THEN before ELSE ByName(db)
        /\ new # NoName => archive.scope = "user"
    BY DEF BackupInv, StartRestore
  <1>2. /\ restore' \in RestoreTables /\ restore'.state = "running" /\ restore'.new = new
        /\ \A n \in Names : restore'.panelIDs[n] = 0 /\ restore'.userIDs[n] = 0
        /\ \A p \in Packages : restore'.packageIDs[p] = 0
        /\ restore'.sites = {} /\ restore'.targets = {}
    BY <1>1 DEF NoRestore, RestoreTables
  <1>3. OneRenamed' /\ ArchiveFits'
    BY <1>1, <1>2 DEF OneRenamed, ArchiveFits, DumpedSites
  <1>4. \A m \in archive'.names : RestoredAs(m)' \in Names
    BY <1>1, <1>2, <1>3 DEF RestoredAs, ArchiveFits
  <1>5. InOrder'
    BY <1>2, <1>4 DEF InOrder
  <1>6. ASSUME restore.state = "stopped", restore.new = new
        PROVE  before' \in Named /\ PanelMerging' /\ UsersMerging' /\ PackagesMerging' /\ SitesMerging'
    <2>1. /\ before' = before /\ before \in Named /\ SameRestore
          /\ PanelMerging /\ UsersMerging /\ PackagesMerging /\ SitesMerging
      BY <1>1, <1>2, <1>6 DEF BackupInv, Merging, SameRestore
    <2>2. PanelMerging'
      <3>1. \A m \in archive.names : RestoredAs(m) \in Names
        BY <1>1, <1>4, <2>1, SameNames
      <3>2. QED
        BY <1>1, <1>2, <2>1, <3>1, SameNames DEF PanelMerging
    <2>3. UsersMerging'
      BY <1>1, <1>2, <2>1, SameNames DEF UsersMerging
    <2>4. PackagesMerging'
      BY <1>1, <1>2, <2>1 DEF PackagesMerging
    <2>5. SitesMerging'
      BY <1>1, <1>2, <2>1, SameNames DEF SitesMerging
    <2>6. QED
      BY <2>1, <2>2, <2>3, <2>4, <2>5
  <1>7. ASSUME before' = ByName(db)
        PROVE  before' \in Named /\ PanelMerging' /\ UsersMerging' /\ PackagesMerging' /\ SitesMerging'
    <2>1. /\ before' \in Named
          /\ \A n \in Names : /\ before'.panel[n].role = db'.panel[n].role
                              /\ before'.panel[n].hash = db'.panel[n].hash
                              /\ before'.panel[n].reseller = ResellerName(db', n)
          /\ before'.users = {n \in Names : db'.users[n] # 0}
          /\ \A p \in Packages : before'.packages[p] = db'.packages[p].limits
          /\ \A d \in Domains : /\ before'.sites[d].owner = NameOf(db'.users, db'.sites[d].owner)
                                /\ before'.sites[d].conf = db'.sites[d].conf
                                /\ before'.sites[d].targets = db'.sites[d].targets
      BY <1>1, <1>7, ByNameTyped
    <2>2. PanelMerging'
      BY <1>2, <1>4, <2>1 DEF PanelMerging
    <2>3. UsersMerging'
      BY <1>2, <2>1 DEF UsersMerging
    <2>4. PackagesMerging'
      BY <1>2, <2>1 DEF PackagesMerging
    <2>5. SitesMerging'
      BY <1>2, <2>1 DEF SitesMerging, DumpedSites
    <2>6. QED
      BY <2>1, <2>2, <2>3, <2>4, <2>5
  <1>8. before' \in Named /\ PanelMerging' /\ UsersMerging' /\ PackagesMerging' /\ SitesMerging'
    BY <1>1, <1>6, <1>7
  <1>9. QED
    BY <1>1, <1>2, <1>3, <1>5, <1>8 DEF BackupInv, Merging

\* Between restores: the database is written, and the restore before is over.
LEMMA CommandsKeep ==
  ASSUME BackupInv, Operate \/ LoseTree \/ Reinstall
  PROVE  BackupInv'
  <1>1. NoRestore \in RestoreTables /\ NoRestore.state = "none"
    BY DEF NoRestore, RestoreTables
  <1>2. UNCHANGED <<archive, before, restores>> /\ restore'.state = "none" /\ restore' \in RestoreTables
    BY <1>1 DEF Operate, LoseTree, Reinstall, BackupInv
  <1>3. Sound(db') /\ HashesFit(db'.panel)
    <2>1. CASE Operate
      BY <2>1, CommandKeeps DEF Operate, BackupInv
    <2>2. CASE LoseTree
      BY <2>2 DEF LoseTree, BackupInv
    <2>3. CASE Reinstall
      BY <2>3, FreshSound DEF Reinstall, HashesFit, Fresh, NoPanelUser
    <2>4. QED
      BY <2>1, <2>2, <2>3
  <1>4. ArchiveFits'
    BY <1>2 DEF BackupInv, ArchiveFits, DumpedSites
  <1>5. QED
    BY <1>2, <1>3, <1>4 DEF BackupInv

LEMMA CreateKeeps ==
  ASSUME BackupInv, NEW scope, NEW subject, scope = "all" \/ subject \in Names,
         Create(scope, subject)
  PROVE  BackupInv'
  <1>1. ArchiveFits'
    BY CreateFits DEF BackupInv
  <1>2. restore.state = "none" /\ UNCHANGED <<db, restore, before, restores>>
    BY DEF Create, BackupInv
  <1>3. QED
    BY <1>1, <1>2 DEF BackupInv

LEMMA InitFits ==
  ASSUME Init
  PROVE  BackupInv
  <1>1. Sound(db) /\ HashesFit(db.panel)
    BY FreshSound DEF Init, HashesFit, Fresh, NoPanelUser
  <1>2. ByName(Fresh).users = {}
    BY FreshSound, ByNameTyped DEF Fresh
  <1>3. DumpedSites(NoArchive) = {}
    BY FreshNames DEF DumpedSites, NoArchive
  <1>4. ArchiveFits
    BY <1>2, <1>3, FreshNames DEF Init, ArchiveFits, NoArchive
  <1>5. restore \in RestoreTables /\ restore.state = "none"
    BY DEF Init, NoRestore, RestoreTables
  <1>6. QED
    BY <1>1, <1>4, <1>5, FreshNames DEF Init, BackupInv

\* The invariant of backups and restores holds in every state.
THEOREM Invariant == Spec => []BackupInv
  <1>1. Init => BackupInv
    BY InitFits
  <1>2. BackupInv /\ [Next]_vars => BackupInv'
    <2>1. SUFFICES ASSUME BackupInv, [Next]_vars PROVE BackupInv'
      OBVIOUS
    <2>2. CASE Operate \/ LoseTree \/ Reinstall
      BY <2>1, <2>2, CommandsKeep
    <2>3. CASE \E n \in Names : Create("user", n) \/ Create("reseller", n)
      BY <2>1, <2>3, CreateKeeps
    <2>4. CASE Create("all", NoName)
      BY <2>1, <2>4, CreateKeeps
    <2>5. CASE \E n \in Names \cup {NoName} : StartRestore(n)
      BY <2>1, <2>5, StartKeeps
    <2>6. CASE RestoreStep
      BY <2>1, <2>6, StepKeeps
    <2>7. CASE UNCHANGED vars
      BY <2>1, <2>7 DEF vars, BackupInv, ArchiveFits, DumpedSites, Merging, OneRenamed, InOrder,
         PanelMerging, UsersMerging, PackagesMerging, SitesMerging, SavedAs, RestoredAs, Linked,
         AllRestored, PackagesLeft, PanelLeft, UsersLeft, SitesLeft, TargetsLeft, Mapped,
         mappedName, Brought
    <2>8. QED
      BY <2>1, <2>2, <2>3, <2>4, <2>5, <2>6, <2>7 DEF Next
  <1>3. QED
    BY <1>1, <1>2, PTL DEF Spec

\* Whoever logs in with a password of the database has a hash there, and whoever
\* logs in with that of a Linux account has none, after any commands, backups and
\* restores.
THEOREM HashesAreForRoles == Spec => []RoleDecidesHash
  <1>1. BackupInv => RoleDecidesHash
    BY DEF BackupInv, HashesFit, RoleDecidesHash
  <1>2. QED
    BY <1>1, Invariant, PTL

\* A good archive brings back the files of all its sites, unless Restore warns.
THEOREM FilesReturn == Spec => []FilesComeBack
  <1>1. BackupInv => FilesComeBack
    BY DEF BackupInv, Brought, FilesComeBack
  <1>2. QED
    BY <1>1, Invariant, PTL

\* The rows of other names, in all tables but user_packages.
OtherRowsAreBefore ==
    LET now == ByName(db) IN
    /\ \A n \in Names : SavedAs(n) = {} => now.panel[n] = before.panel[n]
    /\ now.users \subseteq before.users \cup {RestoredAs(m) : m \in archive.content.users}
    /\ \A p \in Packages : archive.content.packages[p] = "none"
                           => now.packages[p] = before.packages[p]
    /\ \A d \in Domains : d \notin DumpedSites(archive) => now.sites[d] = before.sites[d]

LEMMA OthersAreBefore ==
  ASSUME BackupInv, restore.state # "none"
  PROVE  OtherRowsAreBefore
  <1> DEFINE now == ByName(db)
  <1>2. /\ Sound(db) /\ PanelMerging /\ UsersMerging /\ PackagesMerging /\ SitesMerging
        /\ before \in Named
    BY DEF BackupInv, Merging
  <1>3. /\ now \in Named
        /\ \A n \in Names : /\ now.panel[n].role = db.panel[n].role
                            /\ now.panel[n].hash = db.panel[n].hash
                            /\ now.panel[n].reseller = ResellerName(db, n)
        /\ now.users = {n \in Names : db.users[n] # 0}
        /\ \A p \in Packages : now.packages[p] = db.packages[p].limits
        /\ \A d \in Domains : /\ now.sites[d].owner = NameOf(db.users, db.sites[d].owner)
                              /\ now.sites[d].conf = db.sites[d].conf
                              /\ now.sites[d].targets = db.sites[d].targets
    BY <1>2, ByNameTyped
  <1> HIDE DEF now
  <1>4. \A n \in Names : SavedAs(n) = {} => now.panel[n] = before.panel[n]
    <2>1. TAKE n \in Names
    <2>2. now.panel[n] \in NamedUser /\ before.panel[n] \in NamedUser
      BY <1>2, <1>3 DEF Named
    <2>3. QED
      BY <1>2, <1>3, <2>2 DEF PanelMerging, NamedUser
  <1>5. now.users \subseteq before.users \cup {RestoredAs(m) : m \in archive.content.users}
    BY <1>2, <1>3 DEF UsersMerging
  <1>6. \A p \in Packages : archive.content.packages[p] = "none"
                            => now.packages[p] = before.packages[p]
    BY <1>2, <1>3 DEF PackagesMerging
  <1>7. \A d \in Domains : d \notin DumpedSites(archive) => now.sites[d] = before.sites[d]
    <2>1. TAKE d \in Domains
    <2>2. now.sites[d] \in NamedSite /\ before.sites[d] \in NamedSite
      BY <1>2, <1>3 DEF Named
    <2>3. QED
      BY <1>2, <1>3, <2>2 DEF SitesMerging, NamedSite
  <1>8. QED
    BY <1>4, <1>5, <1>6, <1>7 DEF OtherRowsAreBefore, now

LEMMA DoneIsMerged ==
  ASSUME BackupInv, restore.state = "done"
  PROVE  ByName(db) = Merged(before)
  <1> DEFINE now == ByName(db)
             row(n) == LET m     == CHOOSE m \in SavedAs(n) : TRUE
                           saved == archive.content.panel[m]
                           r     == saved.reseller IN
                       [saved EXCEPT !.reseller =
                          IF r \in archive.names /\ r < m THEN RestoredAs(r)
                          ELSE before.panel[n].reseller]
             limits(p) == IF archive.content.packages[p] = "none" THEN before.packages[p]
                          ELSE archive.content.packages[p]
             site(d) == LET saved == archive.content.sites[d] IN
                        [owner |-> RestoredAs(saved.owner), conf |-> saved.conf,
                         targets |-> before.sites[d].targets \cup saved.targets]
             users == before.users \cup {RestoredAs(m) : m \in archive.content.users}
  <1>1. /\ Sound(db) /\ ArchiveFits /\ OneRenamed /\ restore \in RestoreTables
        /\ PanelMerging /\ UsersMerging /\ PackagesMerging /\ SitesMerging
        /\ before \in Named /\ AllRestored /\ OtherRowsAreBefore
    BY OthersAreBefore DEF BackupInv, Merging
  <1>2. /\ now \in Named
        /\ \A n \in Names : /\ now.panel[n].role = db.panel[n].role
                            /\ now.panel[n].hash = db.panel[n].hash
                            /\ now.panel[n].reseller = ResellerName(db, n)
        /\ now.users = {n \in Names : db.users[n] # 0}
        /\ \A p \in Packages : now.packages[p] = db.packages[p].limits
        /\ \A d \in Domains : /\ now.sites[d].owner = NameOf(db.users, db.sites[d].owner)
                              /\ now.sites[d].conf = db.sites[d].conf
                              /\ now.sites[d].targets = db.sites[d].targets
    BY <1>1, ByNameTyped
  <1>3. /\ \A n \in Names : SavedAs(n) = {} => now.panel[n] = before.panel[n]
        /\ \A d \in Domains : d \notin DumpedSites(archive) => now.sites[d] = before.sites[d]
        /\ now.users \subseteq users
    BY <1>1 DEF OtherRowsAreBefore
  <1>4. /\ \A m \in archive.names : Mapped(m) = RestoredAs(m) /\ RestoredAs(m) \in Names
        /\ \A l, m \in archive.names : RestoredAs(l) = RestoredAs(m) => l = m
    BY <1>1, MappedNames
  <1> HIDE DEF now
  <1>5. ASSUME NEW n \in Names, SavedAs(n) # {}
        PROVE  now.panel[n] = row(n)
    <2> DEFINE m     == CHOOSE m \in SavedAs(n) : TRUE
               saved == archive.content.panel[m]
               r     == IF saved.reseller \in archive.names /\ saved.reseller < m
                        THEN RestoredAs(saved.reseller) ELSE before.panel[n].reseller
    <2>1. m \in archive.names /\ RestoredAs(m) = n
      BY <1>5 DEF SavedAs
    <2> HIDE DEF m
    <2>2. restore.panelIDs[n] # 0
      BY <1>1, <1>4, <2>1 DEF AllRestored, PanelLeft
    <2>3. /\ now.panel[n].role = saved.role /\ now.panel[n].hash = saved.hash
          /\ now.panel[n].reseller = r
      BY <1>1, <1>2, <2>1, <2>2 DEF PanelMerging, Linked
    <2>4. saved \in NamedUser /\ now.panel[n] \in NamedUser
      BY <1>1, <1>2, <2>1 DEF ArchiveFits, Named
    <2> HIDE DEF saved, r
    <2>5. now.panel[n] = [saved EXCEPT !.reseller = r]
      BY <2>3, <2>4 DEF NamedUser
    <2>6. QED
      BY <2>5 DEF saved, r, m
  <1>6. now.panel = [n \in Names |-> IF SavedAs(n) = {} THEN before.panel[n] ELSE row(n)]
    <2>1. now.panel \in [Names -> NamedUser]
      BY <1>2 DEF Named
    <2> HIDE DEF row
    <2>2. QED
      BY <1>3, <1>5, <2>1
  <1>7. now.users = users
    <2>1. ASSUME NEW m \in archive.content.users
          PROVE  RestoredAs(m) \in now.users
      <3>1. m \in archive.names /\ restore.userIDs[RestoredAs(m)] # 0
        BY <1>1, <1>4, <2>1 DEF AllRestored, UsersLeft, ArchiveFits
      <3>2. QED
        BY <1>1, <1>2, <1>4, <3>1 DEF UsersMerging
    <2>2. before.users \subseteq now.users
      BY <1>1, <1>2 DEF UsersMerging
    <2>3. QED
      BY <1>3, <2>1, <2>2
  <1>8. now.packages = [p \in Packages |-> limits(p)]
    <2>1. \A p \in Packages : now.packages[p] = limits(p)
      BY <1>1, <1>2 DEF PackagesMerging, AllRestored, PackagesLeft
    <2>2. now.packages \in [Packages -> {"none", "unlimited", "standard"}]
      BY <1>2 DEF Named
    <2> HIDE DEF limits
    <2>3. QED
      BY <2>1, <2>2
  <1>9. ASSUME NEW d \in DumpedSites(archive)
        PROVE  now.sites[d] = site(d)
    <2>1. d \in Domains /\ d \in restore.sites /\ d \in restore.targets
      BY <1>1, <1>9 DEF AllRestored, SitesLeft, TargetsLeft, DumpedSites
    <2>2. /\ now.sites[d].owner = RestoredAs(archive.content.sites[d].owner)
          /\ now.sites[d].conf = archive.content.sites[d].conf
          /\ now.sites[d].targets
             = before.sites[d].targets \cup archive.content.sites[d].targets
      BY <1>1, <1>2, <1>9, <2>1 DEF SitesMerging
    <2>3. now.sites[d] \in NamedSite
      BY <1>2, <2>1 DEF Named
    <2>4. QED
      BY <2>2, <2>3 DEF NamedSite
  <1>10. now.sites = [d \in Domains |-> IF d \notin DumpedSites(archive) THEN before.sites[d]
                                        ELSE site(d)]
    <2>1. now.sites \in [Domains -> NamedSite]
      BY <1>2 DEF Named
    <2> HIDE DEF site
    <2>2. QED
      BY <1>3, <1>9, <2>1
  <1>11. Merged(before) = [panel |-> [n \in Names |-> IF SavedAs(n) = {} THEN before.panel[n]
                                                      ELSE row(n)],
                           users |-> users,
                           packages |-> [p \in Packages |-> limits(p)],
                           sites |-> [d \in Domains |-> IF d \notin DumpedSites(archive)
                                                        THEN before.sites[d] ELSE site(d)]]
    BY DEF Merged
  <1>12. now = [panel |-> now.panel, users |-> now.users, packages |-> now.packages,
                sites |-> now.sites]
    BY <1>2 DEF Named
  <1> HIDE DEF row, users, limits, site
  <1>13. now = Merged(before)
    BY <1>6, <1>7, <1>8, <1>10, <1>11, <1>12
  <1>14. QED
    BY <1>13 DEF now

\* A restore that is done has merged the archive into the database as it was when
\* the restore first began, by names, however often it was stopped and started.
THEOREM Merges == Spec => []RestoreMerges
  <1>1. BackupInv => RestoreMerges
    BY DoneIsMerged DEF RestoreMerges
  <1>2. QED
    BY <1>1, Invariant, PTL

-----------------------------------------------------------------------------
(* Type correctness                                                          *)

\* Ids are within their bound, and an assignment is one of a package.
Bounded(s) ==
    /\ s.last.panel <= MaxId /\ s.last.users <= MaxId /\ s.last.packages <= MaxId
    /\ \A i \in Ids : s.assigned[i] = 0 \/ IsPackageId(s, s.assigned[i])

LEMMA BoundedTyped ==
  ASSUME NEW s, Sound(s), Bounded(s)
  PROVE  s \in Database
  <1>1. /\ MaxId \in Nat /\ s.last \in [panel : Nat, users : Nat, packages : Nat]
        /\ s.last.panel <= MaxId /\ s.last.users <= MaxId /\ s.last.packages <= MaxId
    BY AccountsAssumption DEF Bounded, Sound, Tables
  <1>2. s.panel \in [Names -> PanelUser]
    <2>1. ASSUME NEW n \in Names
          PROVE  s.panel[n] \in PanelUser
      <3>1. s.panel[n] \in PanelRow /\ s.panel[n].id <= s.last.panel
        BY DEF Sound, Tables, PanelKeys
      <3>2. s.panel[n].reseller <= s.last.panel
        <4>1. CASE s.panel[n].reseller = 0
          BY <1>1, <4>1
        <4>2. CASE s.panel[n].reseller # 0
          BY <4>2 DEF Sound, PanelKeys, HasId
        <4>3. QED
          BY <4>1, <4>2
      <3>3. s.panel[n].id \in 0 .. MaxId /\ s.panel[n].reseller \in 0 .. MaxId
        BY <1>1, <3>1, <3>2 DEF PanelRow
      <3>4. QED
        BY <3>1, <3>3 DEF PanelRow, PanelUser, RolesOrNone, Hashes
    <2>2. QED
      BY <2>1 DEF Sound, Tables
  <1>3. s.users \in [Names -> 0 .. MaxId]
    BY <1>1 DEF Sound, Tables, UserKeys
  <1>4. \A p \in Packages : s.packages[p].id \in 0 .. MaxId
    BY <1>1 DEF Sound, Tables, PackageRow, PackageKeys
  <1>5. s.packages \in [Packages -> Package]
    BY <1>4 DEF Sound, Tables, PackageRow, Package
  <1>6. s.assigned \in [Ids -> 0 .. MaxId]
    BY <1>1, <1>4 DEF Sound, Tables, Bounded, IsPackageId
  <1>7. s.sites \in [Domains -> Site]
    <2>1. ASSUME NEW d \in Domains
          PROVE  s.sites[d] \in Site
      <3>1. s.sites[d] \in SiteRow
        BY DEF Sound, Tables
      <3>2. s.sites[d].owner \in 0 .. MaxId
        BY <1>1, <1>3 DEF Sound, SiteKeys
      <3>3. QED
        BY <3>1, <3>2 DEF SiteRow, Site
    <2>2. QED
      BY <2>1 DEF Sound, Tables
  <1>8. s.last \in [panel : 0 .. MaxId, users : 0 .. MaxId, packages : 0 .. MaxId]
    BY <1>1
  <1>9. QED
    BY <1>2, <1>3, <1>5, <1>6, <1>7, <1>8 DEF Database, Sound, Tables

\* A statement that gives at most one id in each table, assigns no package that
\* is not there and removes none that is assigned.
LEMMA BoundedStays ==
  ASSUME NEW s, NEW t, Sound(s), Bounded(s), t.last = s.last \/ Grown(s, t),
         s.last.panel < MaxId, s.last.users < MaxId, s.last.packages < MaxId,
         \A i \in Ids : t.assigned[i] \in {s.assigned[i], 0} \/ IsPackageId(t, t.assigned[i]),
         \A i : IsPackageId(s, i) => IsPackageId(t, i)
  PROVE  Bounded(t)
  <1>1. MaxId \in Nat /\ s.last.panel \in Nat /\ s.last.users \in Nat /\ s.last.packages \in Nat
    BY AccountsAssumption DEF Sound, Tables
  <1>2. t.last.panel <= MaxId /\ t.last.users <= MaxId /\ t.last.packages <= MaxId
    BY <1>1 DEF Grown
  <1>3. QED
    BY <1>2 DEF Bounded

LEMMA AddBounded ==
  ASSUME Sound(db), Bounded(db), IdsLeft, NEW n \in Names, NEW role \in Roles,
         NEW r \in Nat, NEW p \in Nat, PanelUserAdd(n, role, r, p)
  PROVE  Bounded(db')
  <1> DEFINE created == CreatePanelUser(db, n, HashFor(role), role)
             linked  == IF role = "user" /\ r # 0
                        THEN [created EXCEPT !.panel[n].reseller = r] ELSE created
             assigned == AssignPackage(linked, linked.panel[n].id, p)
  <1>1. HashFor(role) \in Hashes /\ role \in RolesOrNone
    BY DEF HashFor, Hashes, RolesOrNone
  <1>2. /\ Sound(created) /\ created.panel[n].id # 0 /\ Grown(db, created)
        /\ created.packages = db.packages /\ created.assigned = db.assigned
    BY <1>1, CreatedPanelUser
  <1> HIDE DEF created
  <1>3. ASSUME role = "user" => MayRefer(created, r)
        PROVE  /\ Sound(linked) /\ linked.last = created.last
               /\ linked.packages = db.packages /\ linked.assigned = db.assigned
    <2>1. CASE role = "user" /\ r # 0
      <3>1. HasId(created.panel, r)
        BY <1>3, <2>1 DEF MayRefer, IsPanelId, HasId
      <3>2. linked = [created EXCEPT !.panel[n].reseller = r]
        BY <2>1
      <3> HIDE DEF linked
      <3>3. QED
        BY <1>2, <3>1, <3>2, LinkedPanelUser
    <2>2. CASE ~(role = "user" /\ r # 0)
      BY <1>2, <2>2
    <2>3. QED
      BY <2>1, <2>2
  <1> HIDE DEF linked
  <1>4. ASSUME Sound(linked)
        PROVE  /\ assigned.last = linked.last /\ assigned.packages = linked.packages
               /\ \A j \in Ids : assigned.assigned[j] \in {linked.assigned[j], p}
    BY <1>4, AssignedPackage
  <1>5. \/ db' = created
        \/ (role = "user" => MayRefer(created, r)) /\ db' = linked
        \/ /\ role = "user" => MayRefer(created, r)
           /\ db' = assigned /\ IsPackageId(linked, p)
    BY DEF PanelUserAdd, MayAssign, created, linked
  <1> HIDE DEF assigned
  <1>6. /\ Grown(db, db') /\ db'.packages = db.packages
        /\ \A j \in Ids : db'.assigned[j] = db.assigned[j] \/ IsPackageId(db', db'.assigned[j])
    <2>1. CASE db' = created
      BY <1>2, <2>1
    <2>2. CASE (role = "user" => MayRefer(created, r)) /\ db' = linked
      BY <1>2, <1>3, <2>2 DEF Grown
    <2>3. CASE /\ role = "user" => MayRefer(created, r)
               /\ db' = assigned /\ IsPackageId(linked, p)
      BY <1>2, <1>3, <1>4, <2>3 DEF Grown, IsPackageId
    <2>4. QED
      BY <1>5, <2>1, <2>2, <2>3
  <1>7. \A i : IsPackageId(db, i) => IsPackageId(db', i)
    BY <1>6 DEF IsPackageId
  <1>8. QED
    BY <1>6, <1>7, BoundedStays DEF IdsLeft

LEMMA EditBounded ==
  ASSUME Sound(db), Bounded(db), IdsLeft, NEW n \in Names, NEW role \in Roles,
         NEW p \in Nat, PanelUserEdit(n, role, p)
  PROVE  Bounded(db')
  <1>1. PICK hash \in {"shadow", "bcrypt"} :
          LET saved == [db EXCEPT !.panel[n].role = role, !.panel[n].hash = hash]
          IN  /\ MayBecome(n, role, hash)
              /\ db' = IF p # 0 /\ MayAssign(saved, saved.panel[n].id, p)
                       THEN AssignPackage(saved, saved.panel[n].id, p) ELSE saved
    BY DEF PanelUserEdit
  <1> DEFINE saved == [db EXCEPT !.panel[n].role = role, !.panel[n].hash = hash]
             assigned == AssignPackage(saved, saved.panel[n].id, p)
  <1>2. /\ saved.last = db.last /\ saved.packages = db.packages
        /\ saved.assigned = db.assigned
    BY DEF Sound, Tables
  <1>3. \/ db' = saved
        \/ db' = assigned /\ IsPackageId(saved, p)
    BY <1>1 DEF MayAssign
  <1> HIDE DEF saved
  <1>4. /\ assigned.last = saved.last /\ assigned.packages = saved.packages
        /\ \A j \in Ids : assigned.assigned[j] \in {saved.assigned[j], p}
    <2>1. saved.assigned \in [Ids -> Nat]
      BY <1>2 DEF Sound, Tables
    <2>2. saved = [saved EXCEPT !.assigned = saved.assigned]
      BY DEF Sound, Tables, saved
    <2>3. QED
      BY <2>1, <2>2 DEF AssignPackage
  <1> HIDE DEF assigned
  <1>5. /\ db'.last = db.last /\ db'.packages = db.packages
        /\ \A j \in Ids : db'.assigned[j] = db.assigned[j] \/ IsPackageId(db', db'.assigned[j])
    BY <1>2, <1>3, <1>4 DEF IsPackageId
  <1>6. \A i : IsPackageId(db, i) => IsPackageId(db', i)
    BY <1>5 DEF IsPackageId
  <1>7. QED
    BY <1>5, <1>6, BoundedStays DEF IdsLeft

\* The other statements of commands: no assignment but those that go.
LEMMA PackagesBounded ==
  ASSUME Sound(db), Bounded(db), IdsLeft, NEW p \in Packages, NEW q \in Packages,
         PackageAdd(p) \/ PackageEdit(p, q) \/ PackageDel(p)
  PROVE  Bounded(db')
  <1>1. CASE PackageAdd(p)
    <2>1. db.packages[p].id = 0 /\ db' = CreatePackage(db, p, "standard")
      BY <1>1 DEF PackageAdd
    <2>2. "standard" \in GivenLimits
      BY DEF GivenLimits
    <2>3. /\ Grown(db, db') /\ db'.assigned = db.assigned
          /\ \A x \in Packages : x # p => db'.packages[x] = db.packages[x]
      BY <2>1, <2>2, CreatedPackage
    <2>4. \A i : IsPackageId(db, i) => IsPackageId(db', i)
      BY <2>1, <2>3 DEF IsPackageId
    <2>5. QED
      BY <2>3, <2>4, BoundedStays DEF IdsLeft, Bounded
  <1>2. CASE PackageEdit(p, q)
    <2>1. db.packages[p].id # 0 /\ db.packages[q].id = 0 /\ db' = Renamed(db, p, q)
      BY <1>2 DEF PackageEdit, Renamed
    <2>2. /\ db'.last = db.last /\ db'.assigned = db.assigned
          /\ db'.packages[q] = db.packages[p]
          /\ \A x \in Packages \ {p, q} : db'.packages[x] = db.packages[x]
      BY <2>1, RenamedPackage
    <2>3. \A i : IsPackageId(db, i) => IsPackageId(db', i)
      BY <2>1, <2>2 DEF IsPackageId
    <2>4. QED
      BY <2>2, <2>3, BoundedStays DEF IdsLeft, Bounded
  <1>3. CASE PackageDel(p)
    <2>1. /\ \A i \in Ids : db.assigned[i] # db.packages[p].id
          /\ db' = [db EXCEPT !.packages[p] = NoRowPackage]
      BY <1>3 DEF PackageDel
    <2>2. /\ db'.last = db.last /\ db'.assigned = db.assigned
          /\ \A x \in Packages \ {p} : db'.packages[x] = db.packages[x]
      BY <2>1, DeletedPackage
    <2>3. QED
      BY <2>1, <2>2 DEF Bounded, IsPackageId
  <1>4. QED
    BY <1>1, <1>2, <1>3

LEMMA SiteBounded ==
  ASSUME Sound(db), Bounded(db), IdsLeft, NEW d \in Domains,
         \/ \E n \in Names, c \in Confs : SiteAdd(n, d, c)
         \/ \E t \in Targets : ProxyTargetAdd(d, t)
         \/ SiteDelete(d)
  PROVE  Bounded(db')
  <1>1. ASSUME NEW n \in Names, NEW c \in Confs, SiteAdd(n, d, c)
        PROVE  /\ Grown(db, db') /\ db'.packages = db.packages /\ db'.assigned = db.assigned
    <2> DEFINE ensured == EnsureUser(db, n)
    <2>1. /\ Sound(ensured) /\ ensured.users[n] # 0 /\ Grown(db, ensured)
          /\ ensured.packages = db.packages /\ ensured.assigned = db.assigned
      BY EnsuredUser
    <2>2. db' = ensured \/ db' = UpsertSite(ensured, d, ensured.users[n], c)
      BY <1>1 DEF SiteAdd
    <2> HIDE DEF ensured
    <2>3. LET t == UpsertSite(ensured, d, ensured.users[n], c)
          IN  t.last = ensured.last /\ t.packages = ensured.packages
              /\ t.assigned = ensured.assigned
      BY <2>1, UpsertedSite
    <2>4. QED
      BY <2>1, <2>2, <2>3 DEF Grown
  <1>2. ASSUME NEW t \in Targets, ProxyTargetAdd(d, t)
        PROVE  /\ db'.last = db.last /\ db'.packages = db.packages /\ db'.assigned = db.assigned
    BY <1>2 DEF ProxyTargetAdd, UpsertProxyTarget, Sound, Tables
  <1>3. ASSUME SiteDelete(d)
        PROVE  /\ db'.last = db.last /\ db'.packages = db.packages /\ db'.assigned = db.assigned
    BY <1>3 DEF SiteDelete, Sound, Tables
  <1>4. /\ Grown(db, db') \/ db'.last = db.last
        /\ db'.packages = db.packages /\ db'.assigned = db.assigned
    BY <1>1, <1>2, <1>3
  <1>5. \A i : IsPackageId(db, i) => IsPackageId(db', i)
    BY <1>4 DEF IsPackageId
  <1>6. QED
    BY <1>4, <1>5, BoundedStays DEF IdsLeft, Bounded

LEMMA DelBounded ==
  ASSUME Sound(db), Bounded(db), IdsLeft, NEW n \in Names, PanelUserDel(n)
  PROVE  Bounded(db')
  <1>1. /\ db'.last = db.last /\ db'.packages = db.packages
        /\ \A j \in Ids : db'.assigned[j] \in {db.assigned[j], 0}
    BY DeletedPanelUser DEF PanelUserDel
  <1>2. \A i : IsPackageId(db, i) => IsPackageId(db', i)
    BY <1>1 DEF IsPackageId
  <1>3. QED
    BY <1>1, <1>2, BoundedStays DEF IdsLeft, Bounded

LEMMA CommandBounded ==
  ASSUME Sound(db), Bounded(db), IdsLeft, Command
  PROVE  Bounded(db')
  <1>1. db.last.panel \in Nat /\ db.last.packages \in Nat
    BY DEF Sound, Tables
  <1>2. ASSUME NEW n \in Names, NEW role \in Roles,
               \/ \E r \in 0 .. db.last.panel, p \in 0 .. db.last.packages :
                     PanelUserAdd(n, role, r, p)
               \/ \E p \in 0 .. db.last.packages : PanelUserEdit(n, role, p)
        PROVE  Bounded(db')
    BY <1>1, <1>2, AddBounded, EditBounded
  <1>3. QED
    BY <1>2, DelBounded, PackagesBounded, SiteBounded DEF Command

LEMMA RestoreBounded ==
  ASSUME BackupInv, Bounded(db), RestoreStep
  PROVE  Bounded(db')
  <1>1. /\ Base /\ Sound(db) /\ IdsLeft /\ ArchiveFits /\ OneRenamed
        /\ restore \in RestoreTables
    BY DEF BackupInv, Base, Merging, RestoreStep, Running
  <1>2. CASE RestorePackage
    <2> DEFINE p      == Next_left(PackagesLeft)
               limits == archive.content.packages[p]
    <2>1. p \in Packages /\ limits \in GivenLimits
      <3>1. PackagesLeft \subseteq Nat /\ PackagesLeft # {}
        BY <1>2, AccountsAssumption DEF PackagesLeft, RestorePackage
      <3>2. p \in PackagesLeft
        BY <3>1, LeastLeft
      <3>3. archive.content.packages \in [Packages -> {"none", "unlimited", "standard"}]
        BY <1>1 DEF ArchiveFits, Named
      <3>4. QED
        BY <3>2, <3>3 DEF PackagesLeft, GivenLimits
    <2>2. db' = IF db.packages[p].id # 0 THEN [db EXCEPT !.packages[p].limits = limits]
                ELSE CreatePackage(db, p, limits)
      BY <1>2 DEF RestorePackage
    <2> HIDE DEF p, limits
    <2>3. CASE db.packages[p].id # 0
      <3>1. db' = [db EXCEPT !.packages[p].limits = limits]
        BY <2>2, <2>3
      <3>2. /\ db'.packages[p].id = db.packages[p].id
            /\ \A q \in Packages : q # p => db'.packages[q] = db.packages[q]
            /\ db'.assigned = db.assigned /\ db'.last = db.last
        BY <1>1, <2>1, <2>3, <3>1, LimitedPackage
      <3>3. \A i : IsPackageId(db, i) => IsPackageId(db', i)
        BY <3>2 DEF IsPackageId
      <3>4. QED
        BY <1>1, <3>2, <3>3, BoundedStays DEF IdsLeft, Bounded
    <2>4. CASE db.packages[p].id = 0
      <3>1. db' = CreatePackage(db, p, limits)
        BY <2>2, <2>4
      <3>2. /\ Grown(db, db') /\ db'.assigned = db.assigned
            /\ \A q \in Packages : q # p => db'.packages[q] = db.packages[q]
        BY <1>1, <2>1, <2>4, <3>1, CreatedPackage
      <3>3. \A i : IsPackageId(db, i) => IsPackageId(db', i)
        BY <2>4, <3>2 DEF IsPackageId
      <3>4. QED
        BY <1>1, <3>2, <3>3, BoundedStays DEF IdsLeft, Bounded
    <2>5. QED
      BY <2>3, <2>4
  <1>3. CASE RestorePanelUser
    <2> DEFINE n       == Next_left(PanelLeft)
               k       == RestoredAs(n)
               saved   == archive.content.panel[n]
               created == CreatePanelUser(db, k, saved.hash, saved.role)
               r == IF saved.reseller = NoName THEN NoName ELSE Mapped(saved.reseller)
    <2>1. /\ k \in Names /\ Mapped(n) = k
          /\ saved.role \in RolesOrNone /\ saved.hash \in Hashes
      BY <1>1, <1>3, NextPanelUser DEF RestorePanelUser, RolesOrNone, Hashes, HashFor
    <2>2. db' = LinkedTo(created, k, r) \/ db' = created
      BY <1>3, <2>1 DEF RestorePanelUser
    <2> HIDE DEF n, k, saved, r
    <2>3. /\ Sound(created) /\ Grown(db, created)
          /\ created.packages = db.packages /\ created.assigned = db.assigned
      BY <1>1, <2>1, CreatedPanelUser
    <2> HIDE DEF created
    <2>4. /\ db'.last = created.last /\ db'.packages = created.packages
          /\ db'.assigned = created.assigned
      BY <2>2, <2>3 DEF LinkedTo, Sound, Tables
    <2>5. Grown(db, db') /\ \A i : IsPackageId(db, i) => IsPackageId(db', i)
      BY <2>3, <2>4 DEF Grown, IsPackageId
    <2>6. QED
      BY <1>1, <2>3, <2>4, <2>5, BoundedStays DEF IdsLeft, Bounded
  <1>4. CASE RestoreUser
    <2>1. Mapped(Next_left(UsersLeft)) \in Names
      <3>1. UsersLeft \subseteq archive.names /\ archive.names \subseteq Nat /\ UsersLeft # {}
        BY <1>1, <1>4, AccountsAssumption DEF UsersLeft, RestoreUser, ArchiveFits
      <3>2. QED
        BY <1>1, <3>1, LeastLeft, MappedNames
    <2>2. /\ Grown(db, db') /\ db'.packages = db.packages /\ db'.assigned = db.assigned
      BY <1>1, <1>4, <2>1, EnsuredUser DEF RestoreUser
    <2>3. \A i : IsPackageId(db, i) => IsPackageId(db', i)
      BY <2>2 DEF IsPackageId
    <2>4. QED
      BY <1>1, <2>2, <2>3, BoundedStays DEF IdsLeft, Bounded
  <1>5. CASE RestoreAssignment
    <2>1. PICK i, p : \/ db' = AssignPackage(db, i, p) /\ MayAssign(db, i, p)
                      \/ db' = db
      BY <1>5 DEF RestoreAssignment
    <2>2. CASE db' = db
      BY <2>2 DEF Bounded, IsPackageId
    <2>3. CASE db' = AssignPackage(db, i, p) /\ MayAssign(db, i, p)
      <3>1. p \in Nat /\ IsPackageId(db, p)
        BY <1>1, <2>3 DEF MayAssign, IsPackageId, Sound, Tables, PackageRow
      <3>2. /\ db'.last = db.last /\ db'.packages = db.packages
            /\ \A j \in Ids : db'.assigned[j] \in {db.assigned[j], p}
        BY <1>1, <2>3, <3>1, AssignedPackage
      <3>3. \A j : IsPackageId(db, j) => IsPackageId(db', j)
        BY <3>2 DEF IsPackageId
      <3>4. QED
        BY <1>1, <3>1, <3>2, <3>3, BoundedStays DEF IdsLeft, Bounded
    <2>4. QED
      BY <2>1, <2>2, <2>3
  <1>6. CASE RestoreSite \/ RestoreTargets \/ RestoreFiles \/ RestoreStops
    <2>1. /\ db'.last = db.last /\ db'.packages = db.packages /\ db'.assigned = db.assigned
      BY <1>1, <1>6 DEF RestoreSite, RestoreTargets, RestoreFiles, RestoreStops,
         UpsertSite, Sound, Tables
    <2>2. QED
      BY <2>1 DEF Bounded, IsPackageId
  <1>7. QED
    BY <1>2, <1>3, <1>4, <1>5, <1>6 DEF RestoreStep

LEMMA RestoreStepTyped ==
  ASSUME BackupInv, restore \in Restore, db' \in Database, RestoreStep
  PROVE  restore' \in Restore
  <1>1. /\ Base /\ Sound(db) /\ ArchiveFits /\ OneRenamed
        /\ restore \in RestoreTables /\ MaxId \in Nat
    BY AccountsAssumption DEF BackupInv, Base, Merging, RestoreStep, Running
  <1>2. CASE RestorePackage
    <2> DEFINE p == Next_left(PackagesLeft)
    <2>1. p \in Packages
      <3>1. PackagesLeft \subseteq Nat /\ PackagesLeft # {} /\ PackagesLeft \subseteq Packages
        BY <1>2, AccountsAssumption DEF PackagesLeft, RestorePackage
      <3>2. QED
        BY <3>1, LeastLeft
    <2>2. restore' = [restore EXCEPT !.packageIDs[p] = db'.packages[p].id]
      BY <1>2 DEF RestorePackage
    <2> HIDE DEF p
    <2>3. db'.packages[p].id \in 0 .. MaxId
      BY <2>1 DEF Database, Package
    <2>4. QED
      BY <2>2, <2>3 DEF Restore
  <1>3. CASE RestorePanelUser
    <2> DEFINE k == Mapped(Next_left(PanelLeft))
    <2>1. k \in Names
      BY <1>1, <1>3, NextPanelUser DEF RestorePanelUser
    <2>2. \/ restore' = [restore EXCEPT !.panelIDs[k] = db'.panel[k].id]
          \/ restore' = [restore EXCEPT !.state = "stopped"]
      BY <1>3 DEF RestorePanelUser
    <2> HIDE DEF k
    <2>3. db'.panel[k].id \in 0 .. MaxId
      BY <2>1 DEF Database, PanelUser
    <2>4. QED
      BY <2>2, <2>3 DEF Restore
  <1>4. CASE RestoreUser
    <2> DEFINE k == Mapped(Next_left(UsersLeft))
    <2>1. k \in Names
      <3>1. UsersLeft \subseteq archive.names /\ archive.names \subseteq Nat /\ UsersLeft # {}
        BY <1>1, <1>4, AccountsAssumption DEF UsersLeft, RestoreUser, ArchiveFits
      <3>2. QED
        BY <1>1, <3>1, LeastLeft, MappedNames
    <2>2. restore' = [restore EXCEPT !.userIDs[k] = db'.users[k]]
      BY <1>4 DEF RestoreUser
    <2> HIDE DEF k
    <2>3. db'.users[k] \in 0 .. MaxId
      BY <2>1 DEF Database
    <2>4. QED
      BY <2>2, <2>3 DEF Restore
  <1>5. CASE RestoreAssignment
    <2>1. PICK n \in Names : \/ restore' = [restore EXCEPT !.assigned = @ \cup {n}]
                             \/ restore' = [restore EXCEPT !.state = "stopped"]
      BY <1>5 DEF RestoreAssignment, AssignLeft
    <2>2. QED
      BY <2>1 DEF Restore
  <1>6. CASE RestoreSite \/ RestoreTargets
    <2>1. PICK d \in Domains : \/ restore' = [restore EXCEPT !.sites = @ \cup {d}]
                               \/ restore' = [restore EXCEPT !.targets = @ \cup {d}]
      BY <1>6 DEF RestoreSite, RestoreTargets, SitesLeft, TargetsLeft, DumpedSites
    <2>2. QED
      BY <2>1 DEF Restore
  <1>7. CASE RestoreFiles \/ RestoreStops
    BY <1>7 DEF RestoreFiles, RestoreStops, Restore
  <1>8. QED
    BY <1>2, <1>3, <1>4, <1>5, <1>6, <1>7 DEF RestoreStep

\* An assignment that is there has the name of a package.
LEMMA PackageNamed ==
  ASSUME Bounded(db), NEW i \in Ids
  PROVE  PackageName(db, db.assigned[i]) \in Packages \cup {NoPackage}
  BY DEF Bounded, IsPackageId, PackageName

LEMMA CreateTyped ==
  ASSUME BackupInv, Bounded(db), TypeOK, NEW scope, NEW subject,
         (scope = "all" /\ subject = NoName) \/ subject \in Names, Create(scope, subject)
  PROVE  archive' \in Archive /\ had' \in [Names -> Packages \cup {NoPackage}]
  <1> DEFINE names == Included(scope, subject)
             dump  == Dumped(names)
  <1>1. PICK files \in SUBSET Domains, good \in BOOLEAN :
          /\ AddedTrees(dump, files, good)
          /\ archive' = [scope |-> scope, subject |-> subject, names |-> names,
                         content |-> dump.content, assigned |-> dump.assigned,
                         files |-> files, good |-> good]
    BY DEF Create
  <1>2. /\ scope \in Scopes
        /\ had' = [n \in Names |-> IF n \in names THEN PackageOf(db, n) ELSE NoPackage]
    BY DEF Create
  <1>3. names \subseteq Names /\ \A n \in names : db.panel[n].id # 0
    BY <1>2, IncludedExist DEF BackupInv
  <1> HIDE DEF names
  <1>4. dump.content \in Named
    BY <1>3, DumpFits DEF BackupInv
  <1>5. \A n \in Names : /\ db.users[n] # 0 => db.users[n] \in Ids
                         /\ db.panel[n].id # 0 => db.panel[n].id \in Ids
    BY AccountsAssumption DEF TypeOK, Database, PanelUser, Ids
  <1>6. dump.assigned \in [Names -> Packages \cup {NoPackage}]
    <2>1. dump.assigned = [n \in Names |-> IF n \in names \cap ByName(db).users
                                           THEN PackageName(db, db.assigned[db.users[n]])
                                           ELSE NoPackage]
      BY DEF Dumped
    <2>2. ByName(db).users = {n \in Names : db.users[n] # 0}
      BY ByNameTyped DEF BackupInv
    <2>3. QED
      BY <1>5, <2>1, <2>2, PackageNamed
  <1>7. had' \in [Names -> Packages \cup {NoPackage}]
    <2>1. \A n \in Names : PackageOf(db, n) \in Packages \cup {NoPackage}
      BY <1>5, PackageNamed DEF PackageOf
    <2>2. QED
      BY <1>2, <2>1
  <1> HIDE DEF dump
  <1>8. archive' \in Archive
    BY <1>1, <1>2, <1>3, <1>4, <1>6 DEF Archive
  <1>9. QED
    BY <1>7, <1>8

\* TypeOK needs the rest: ids that are unique and were given out.
TypeInv == BackupInv /\ Bounded(db) /\ TypeOK

LEMMA TypeInit ==
  ASSUME Init
  PROVE  TypeInv
  <1>1. Bounded(db)
    BY AccountsAssumption DEF Init, Bounded, Fresh
  <1>2. archive \in Archive
    BY FreshNames DEF Init, Archive, NoArchive
  <1>3. restore \in Restore
    BY AccountsAssumption DEF Init, Restore, NoRestore
  <1>4. held \in [Names -> 0 .. MaxId]
    BY AccountsAssumption DEF Init
  <1>5. QED
    BY <1>1, <1>2, <1>3, <1>4, InitFits, BoundedTyped, BackupAssumption, FreshNames
       DEF Init, TypeInv, TypeOK, BackupInv

LEMMA TypeStep ==
  ASSUME TypeInv, Next, BackupInv'
  PROVE  TypeInv'
  <1>1. /\ BackupInv /\ Bounded(db) /\ TypeOK /\ Sound(db) /\ Sound(db')
        /\ before' \in Named /\ MaxOps \in Nat /\ MaxLater \in Nat /\ MaxRestores \in Nat
    BY BackupAssumption DEF TypeInv, BackupInv
  <1>2. NoRestore \in Restore
    BY AccountsAssumption DEF NoRestore, Restore
  <1>3. CASE Operate
    <2>1. Bounded(db')
      BY <1>1, <1>3, CommandBounded DEF Operate
    <2>2. ops' \in 0 .. MaxOps \cup 0 .. MaxLater
      BY <1>1, <1>3 DEF Operate, Spend, TypeOK
    <2>3. db' \in Database
      BY <1>1, <2>1, BoundedTyped
    <2>4. QED
      BY <1>1, <1>2, <1>3, <2>1, <2>2, <2>3 DEF Operate, TypeOK, TypeInv
  <1>4. CASE LoseTree
    <2>1. ops' \in 0 .. MaxOps \cup 0 .. MaxLater
      BY <1>1, <1>4 DEF LoseTree, Spend, TypeOK
    <2>2. Bounded(db') /\ db' = db
      BY <1>1, <1>4 DEF LoseTree, Bounded, IsPackageId
    <2>3. QED
      BY <1>1, <1>2, <1>4, <2>1, <2>2 DEF LoseTree, TypeOK, TypeInv
  <1>5. CASE Reinstall
    <2>1. Bounded(db')
      BY <1>5, AccountsAssumption DEF Reinstall, Bounded, Fresh
    <2>2. db' \in Database
      BY <1>1, <2>1, BoundedTyped
    <2>3. QED
      BY <1>1, <1>5, <2>1, <2>2 DEF Reinstall, TypeOK, TypeInv
  <1>6. ASSUME NEW scope, NEW subject, (scope = "all" /\ subject = NoName) \/ subject \in Names,
               Create(scope, subject)
        PROVE  TypeInv'
    <2>1. archive' \in Archive /\ had' \in [Names -> Packages \cup {NoPackage}]
      BY <1>1, <1>6, CreateTyped
    <2>2. Bounded(db') /\ ops' \in 0 .. MaxOps \cup 0 .. MaxLater
      BY <1>1, <1>6 DEF Create, Bounded, IsPackageId
    <2>3. QED
      BY <1>1, <1>6, <2>1, <2>2 DEF Create, TypeOK, TypeInv
  <1>7. ASSUME NEW new \in Names \cup {NoName}, StartRestore(new)
        PROVE  TypeInv'
    <2>1. restore' \in Restore
      BY <1>2, <1>7 DEF StartRestore, Restore
    <2>2. restores' \in 0 .. MaxRestores
      BY <1>1, <1>7 DEF StartRestore, TypeOK
    <2>3. Bounded(db')
      BY <1>1, <1>7 DEF StartRestore, Bounded, IsPackageId
    <2>4. held' \in [Names -> 0 .. MaxId]
      <3>1. \A n \in Names : PackageIdOf(db, n) \in 0 .. MaxId
        BY <1>1, AccountsAssumption DEF TypeOK, Database, PanelUser, PackageIdOf, Ids
      <3>2. QED
        BY <1>1, <1>7, <3>1 DEF StartRestore, TypeOK
    <2>5. QED
      BY <1>1, <1>7, <2>1, <2>2, <2>3, <2>4 DEF StartRestore, TypeOK, TypeInv
  <1>8. CASE RestoreStep
    <2>1. Bounded(db')
      BY <1>1, <1>8, RestoreBounded
    <2>2. db' \in Database
      BY <1>1, <2>1, BoundedTyped
    <2>3. restore' \in Restore
      BY <1>1, <1>8, <2>2, RestoreStepTyped DEF TypeOK
    <2>4. trees' \subseteq Domains
      BY <1>1, <1>8 DEF RestoreStep, RestoreFiles, TypeOK, Archive
    <2>5. QED
      BY <1>1, <1>8, <2>1, <2>2, <2>3, <2>4 DEF RestoreStep, TypeOK, TypeInv
  <1>9. QED
    BY <1>3, <1>4, <1>5, <1>6, <1>7, <1>8 DEF Next

LEMMA TypesHold == Spec => []TypeInv
  <1>1. Init => TypeInv
    BY TypeInit
  <1>2. TypeInv /\ BackupInv' /\ [Next]_vars => TypeInv'
    <2>1. SUFFICES ASSUME TypeInv, BackupInv', [Next]_vars PROVE TypeInv'
      OBVIOUS
    <2>2. CASE UNCHANGED vars
      BY <2>1, <2>2 DEF vars, TypeInv, TypeOK, Bounded, IsPackageId
    <2>3. QED
      BY <2>1, <2>2, TypeStep
  <1>3. QED
    BY <1>1, <1>2, Invariant, PTL DEF Spec

\* Every reachable state is well typed: every id, in a table, a map of Restore or
\* the archive, is one that was given out, and every assignment has a package.
THEOREM TypeCorrect == Spec => []TypeOK
  <1>1. TypeInv => TypeOK
    BY DEF TypeInv
  <1>2. QED
    BY <1>1, TypesHold, PTL

-----------------------------------------------------------------------------
(* The packages of other panel users                                         *)

\* Only owners of the archive have an assignment there.
AssignFits == \A n \in Names : archive.assigned[n] # NoPackage => n \in archive.content.users

\* A panel user outside the archive has the package it had, unless its id is one
\* an owner of the archive has in users.
PackagesHeld ==
    restore.state # "none" =>
        \A n \in Names : SavedAs(n) = {} =>
            \/ PackageIdOf(db, n) = held[n]
            \/ db.panel[n].id # 0 /\ TakenFor(n) # {}

HeldInv == AssignFits /\ PackagesHeld

\* A statement that gives rows ids, but changes none, and assigns packages to
\* the ids in users of owners of the archive only.
LEMMA StatementHolds ==
  ASSUME TypeInv, HeldInv, SameRestore, held' = held, restore.state # "none",
         \A n \in Names : SavedAs(n) = {} => db'.panel[n] = db.panel[n],
         \A n \in Names : db.users[n] # 0 => db'.users[n] = db.users[n],
         \A i \in Ids : \/ db'.assigned[i] = db.assigned[i]
                        \/ \E m \in archive.content.users :
                              archive.assigned[m] # NoPackage /\ db.users[RestoredAs(m)] = i
  PROVE  HeldInv'
  <1>1. AssignFits'
    BY DEF HeldInv, AssignFits, SameRestore
  <1>2. \A m \in archive.content.users : RestoredAs(m) \in Names
    BY MappedNames DEF TypeInv, BackupInv, Merging, ArchiveFits
  <1>3. ASSUME NEW n \in Names, SavedAs(n)' = {}
        PROVE  \/ PackageIdOf(db', n) = held'[n]
               \/ db'.panel[n].id # 0 /\ TakenFor(n)' # {}
    <2>1. /\ SavedAs(n) = {} /\ db'.panel[n] = db.panel[n]
          /\ PackageIdOf(db, n) = held[n] \/ (db.panel[n].id # 0 /\ TakenFor(n) # {})
      BY <1>3, SameNames DEF HeldInv, PackagesHeld
    <2>2. CASE db.panel[n].id = 0
      BY <2>1, <2>2 DEF PackageIdOf
    <2>3. ASSUME db.panel[n].id # 0, NEW m \in archive.content.users,
                 archive.assigned[m] # NoPackage, db.users[RestoredAs(m)] = db.panel[n].id
          PROVE  TakenFor(n)' # {}
      <3>1. db'.users[RestoredAs(m)] = db'.panel[n].id
        BY <1>2, <2>1, <2>3
      <3>2. m \in TakenFor(n)'
        BY <2>3, <3>1, SameNames DEF TakenFor, SameRestore
      <3>3. QED
        BY <3>2
    <2>4. CASE db.panel[n].id # 0 /\ TakenFor(n) # {}
      BY <2>1, <2>3, <2>4 DEF TakenFor
    <2>5. CASE db.panel[n].id # 0 /\ TakenFor(n) = {}
      <3>1. db.panel[n].id \in Ids
        BY <2>5, AccountsAssumption DEF TypeInv, TypeOK, Database, PanelUser, Ids
      <3>2. CASE db'.assigned[db.panel[n].id] = db.assigned[db.panel[n].id]
        BY <2>1, <2>5, <3>2 DEF PackageIdOf
      <3>3. CASE \E m \in archive.content.users :
                    /\ archive.assigned[m] # NoPackage
                    /\ db.users[RestoredAs(m)] = db.panel[n].id
        BY <2>1, <2>3, <2>5, <3>3
      <3>4. QED
        BY <3>1, <3>2, <3>3
    <2>6. QED
      BY <2>2, <2>4, <2>5
  <1>4. PackagesHeld'
    BY <1>3 DEF PackagesHeld
  <1>5. QED
    BY <1>1, <1>4 DEF HeldInv

LEMMA RestoreHolds ==
  ASSUME TypeInv, BackupInv', HeldInv, RestoreStep
  PROVE  HeldInv'
  <1>1. /\ Base /\ Sound(db) /\ ArchiveFits /\ OneRenamed /\ UsersMerging
        /\ restore \in RestoreTables /\ restore.state # "none"
        /\ archive' = archive /\ before' = before /\ held' = held
        /\ restore' \in RestoreTables
    BY DEF TypeInv, BackupInv, Base, Merging, RestoreStep, Running
  <1>2. CASE RestorePackage
    <2> DEFINE p      == Next_left(PackagesLeft)
               limits == archive.content.packages[p]
    <2>1. p \in Packages /\ limits \in GivenLimits
      <3>1. PackagesLeft \subseteq Nat /\ PackagesLeft # {}
        BY <1>2, AccountsAssumption DEF PackagesLeft, RestorePackage
      <3>2. p \in PackagesLeft
        BY <3>1, LeastLeft
      <3>3. archive.content.packages \in [Packages -> {"none", "unlimited", "standard"}]
        BY <1>1 DEF ArchiveFits, Named
      <3>4. QED
        BY <3>2, <3>3 DEF PackagesLeft, GivenLimits
    <2>2. /\ db' = IF db.packages[p].id # 0 THEN [db EXCEPT !.packages[p].limits = limits]
                   ELSE CreatePackage(db, p, limits)
          /\ restore' = [restore EXCEPT !.packageIDs[p] = db'.packages[p].id]
      BY <1>2 DEF RestorePackage
    <2> HIDE DEF p, limits
    <2>3. db'.panel = db.panel /\ db'.users = db.users /\ db'.assigned = db.assigned
      BY <1>1, <2>2 DEF CreatePackage, Sound, Tables
    <2>4. SameRestore
      BY <1>1, <2>2 DEF SameRestore, RestoreTables
    <2>5. QED
      BY <1>1, <2>3, <2>4, StatementHolds
  <1>3. CASE RestorePanelUser
    <2> DEFINE n       == Next_left(PanelLeft)
               k       == RestoredAs(n)
               saved   == archive.content.panel[n]
               created == CreatePanelUser(db, k, saved.hash, saved.role)
               r == IF saved.reseller = NoName THEN NoName ELSE Mapped(saved.reseller)
    <2>1. /\ n \in archive.names /\ k \in Names /\ Mapped(n) = k
          /\ saved.role \in RolesOrNone /\ saved.hash \in Hashes
      BY <1>1, <1>3, NextPanelUser DEF RestorePanelUser, RolesOrNone, Hashes, HashFor
    <2>2. SavedAs(k) # {}
      BY <2>1 DEF SavedAs
    <2>3. /\ db' = LinkedTo(created, k, r) \/ db' = created
          /\ \/ restore' = [restore EXCEPT !.panelIDs[k] = db'.panel[k].id]
             \/ restore' = [restore EXCEPT !.state = "stopped"]
      BY <1>3, <2>1 DEF RestorePanelUser
    <2> HIDE DEF n, k, saved, r
    <2>4. /\ Sound(created)
          /\ \A m \in Names : m # k => created.panel[m] = db.panel[m]
          /\ created.users = db.users /\ created.assigned = db.assigned
      BY <1>1, <2>1, CreatedPanelUser
    <2> HIDE DEF created
    <2>5. /\ \A m \in Names : m # k => db'.panel[m] = created.panel[m]
          /\ db'.users = created.users /\ db'.assigned = created.assigned
      BY <2>1, <2>3, <2>4 DEF LinkedTo, Sound, Tables
    <2>6. SameRestore
      BY <1>1, <2>3 DEF SameRestore, RestoreTables
    <2>7. QED
      BY <1>1, <2>2, <2>4, <2>5, <2>6, StatementHolds
  <1>4. CASE RestoreUser
    <2> DEFINE k == Mapped(Next_left(UsersLeft))
    <2>1. k \in Names
      <3>1. UsersLeft \subseteq archive.names /\ archive.names \subseteq Nat /\ UsersLeft # {}
        BY <1>1, <1>4, AccountsAssumption DEF UsersLeft, RestoreUser, ArchiveFits
      <3>2. QED
        BY <1>1, <3>1, LeastLeft, MappedNames
    <2>2. /\ db' = EnsureUser(db, k)
          /\ restore' = [restore EXCEPT !.userIDs[k] = db'.users[k]]
      BY <1>4 DEF RestoreUser
    <2> HIDE DEF k
    <2>3. /\ \A m \in Names : db.users[m] # 0 => db'.users[m] = db.users[m]
          /\ db'.panel = db.panel /\ db'.assigned = db.assigned
      BY <1>1, <2>1, <2>2, EnsuredUser
    <2>4. SameRestore
      BY <1>1, <2>2 DEF SameRestore, RestoreTables
    <2>5. QED
      BY <1>1, <2>3, <2>4, StatementHolds
  <1>5. CASE RestoreAssignment
    <2>1. PICK n \in AssignLeft :
            LET i == restore.userIDs[Mapped(n)]
                p == restore.packageIDs[archive.assigned[n]] IN
            \/ /\ MayAssign(db, i, p) /\ db' = AssignPackage(db, i, p)
               /\ restore' = [restore EXCEPT !.assigned = @ \cup {n}]
            \/ restore' = [restore EXCEPT !.state = "stopped"] /\ db' = db
      BY <1>5 DEF RestoreAssignment
    <2> DEFINE i == restore.userIDs[Mapped(n)]
               p == restore.packageIDs[archive.assigned[n]]
    <2>2. /\ n \in Names /\ archive.assigned[n] # NoPackage /\ n \in archive.content.users
          /\ n \in archive.names
      BY <1>1 DEF AssignLeft, HeldInv, AssignFits, ArchiveFits
    <2>3. Mapped(n) = RestoredAs(n) /\ RestoredAs(n) \in Names
      BY <1>1, <2>2, MappedNames
    <2>4. i # 0 => db.users[RestoredAs(n)] = i
      BY <1>1, <2>3 DEF UsersMerging
    <2>5. SameRestore
      BY <1>1, <2>1 DEF SameRestore, RestoreTables
    <2>6. \/ i # 0 /\ db' = AssignPackage(db, i, p)
          \/ db' = db
      BY <2>1 DEF MayAssign, IsPanelId
    <2> HIDE DEF i, p
    <2>7. /\ db'.panel = db.panel /\ db'.users = db.users
          /\ \A j \in Ids : db'.assigned[j] = db.assigned[j] \/ (i # 0 /\ j = i)
      BY <1>1, <2>6 DEF AssignPackage, Sound, Tables
    <2>8. QED
      BY <1>1, <2>2, <2>4, <2>5, <2>7, StatementHolds
  <1>6. CASE RestoreSite \/ RestoreTargets \/ RestoreFiles \/ RestoreStops
    <2>1. db'.panel = db.panel /\ db'.users = db.users /\ db'.assigned = db.assigned
      BY <1>1, <1>6 DEF RestoreSite, RestoreTargets, RestoreFiles, RestoreStops,
         UpsertSite, Sound, Tables
    <2>2. SameRestore
      BY <1>1, <1>6 DEF RestoreSite, RestoreTargets, RestoreFiles, RestoreStops,
         SameRestore, RestoreTables
    <2>3. QED
      BY <1>1, <2>1, <2>2, StatementHolds
  <1>7. QED
    BY <1>2, <1>3, <1>4, <1>5, <1>6 DEF RestoreStep

LEMMA CreateAssigns ==
  ASSUME BackupInv, NEW scope, NEW subject, Create(scope, subject)
  PROVE  AssignFits'
  <1> DEFINE names == Included(scope, subject)
             dump  == Dumped(names)
  <1>1. archive'.content = dump.content /\ archive'.assigned = dump.assigned
    BY DEF Create
  <1> HIDE DEF names
  <1>2. \A n \in Names : dump.assigned[n] # NoPackage => n \in dump.content.users
    BY DEF Dumped
  <1>3. QED
    BY <1>1, <1>2 DEF AssignFits

\* What a restore holds of the packages of others, from its first statement on.
LEMMA HeldStep ==
  ASSUME TypeInv, BackupInv', HeldInv, [Next]_vars
  PROVE  HeldInv'
  <1>1. CASE Operate \/ LoseTree
    <2>1. archive' = archive /\ restore'.state = "none"
      BY <1>1 DEF Operate, LoseTree, NoRestore
    <2>2. QED
      BY <2>1 DEF HeldInv, AssignFits, PackagesHeld
  <1>2. CASE Reinstall
    <2>1. archive' = archive /\ restore'.state = "none"
      BY <1>2 DEF Reinstall, TypeInv, BackupInv
    <2>2. QED
      BY <2>1 DEF HeldInv, AssignFits, PackagesHeld
  <1>3. ASSUME NEW scope, NEW subject, Create(scope, subject)
        PROVE  HeldInv'
    <2>1. restore'.state = "none"
      BY <1>3 DEF Create, TypeInv, BackupInv
    <2>2. QED
      BY <1>3, <2>1, CreateAssigns DEF HeldInv, PackagesHeld, TypeInv
  <1>4. ASSUME NEW new \in Names \cup {NoName}, StartRestore(new)
        PROVE  HeldInv'
    <2>1. /\ archive' = archive /\ db' = db
          /\ restore' = [NoRestore EXCEPT !.state = "running", !.new = new]
          /\ \/ restore.state = "stopped" /\ restore.new = new /\ before' = before /\ held' = held
             \/ held' = [n \in Names |-> PackageIdOf(db, n)]
      BY <1>4 DEF StartRestore
    <2>2. restore'.new = new /\ restore' \in RestoreTables
      BY <2>1 DEF NoRestore, BackupInv
    <2>3. CASE held' = [n \in Names |-> PackageIdOf(db, n)]
      BY <2>1, <2>3 DEF HeldInv, AssignFits, PackagesHeld
    <2>4. CASE restore.state = "stopped" /\ restore.new = new /\ before' = before /\ held' = held
      <3>1. SameRestore /\ restore.state # "none"
        BY <2>1, <2>2, <2>4 DEF SameRestore
      <3>2. QED
        BY <2>1, <2>4, <3>1, StatementHolds
    <2>5. QED
      BY <2>1, <2>3, <2>4
  <1>5. CASE RestoreStep
    BY <1>5, RestoreHolds
  <1>6. CASE UNCHANGED vars
    BY <1>6 DEF vars, HeldInv, AssignFits, PackagesHeld, SavedAs, RestoredAs, TakenFor
  <1>7. QED
    BY <1>1, <1>2, <1>3, <1>4, <1>5, <1>6 DEF Next

\* A restore, at whatever statement it is or was stopped, leaves the rows that are
\* not in the archive as they were, and the packages of the panel users that are
\* not there too, but for those whose id in panel_users is the id in users of an
\* owner whose package it restores.
THEOREM OthersStay == Spec => []OthersUntouched
  <1>1. Init => HeldInv
    BY DEF Init, NoArchive, NoRestore, HeldInv, AssignFits, PackagesHeld
  <1>2. TypeInv /\ BackupInv' /\ HeldInv /\ [Next]_vars => HeldInv'
    BY HeldStep
  <1>3. Spec => []TypeInv
    BY TypesHold
  <1>4. BackupInv /\ HeldInv => OthersUntouched
    <2>1. SUFFICES ASSUME BackupInv, HeldInv, restore.state # "none" PROVE OthersUntouched
      BY DEF OthersUntouched
    <2>2. OtherRowsAreBefore
      BY <2>1, OthersAreBefore
    <2>3. QED
      BY <2>1, <2>2 DEF OtherRowsAreBefore, HeldInv, PackagesHeld, OthersUntouched
  <1>5. QED
    BY <1>1, <1>2, <1>3, <1>4, Invariant, PTL DEF Spec

=============================================================================
