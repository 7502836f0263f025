---------------------------- MODULE NgmProvision ----------------------------
(***************************************************************************)
(* Provisioning: the master configuration of nginx and the marker that     *)
(* says it was tested, which CertIssue asks for.  Source:                  *)
(* internal/bootstrap and cmdProvision of cmd/ngm/main.go.  The operations *)
(* are steps of the requests of NgmHost.                                   *)
(*                                                                         *)
(* Abstractions.                                                           *)
(*  - The text of the master configuration is one of Masters, chosen by    *)
(*    the settings `ngm provision init' finds when it starts; its hash is  *)
(*    the text itself.  The path is always the same one.                   *)
(*  - EnsureLayout, the cache directories and the global self-signed       *)
(*    certificate only fail or not: a failure ends the command before it   *)
(*    wrote anything that is modelled.                                     *)
(***************************************************************************)
CONSTANTS
    Masters,     \* texts of the master configuration
    GoodMasters, \* those nginx accepts
    NoMaster     \* no file

ASSUME ProvisionAssumption ==
    /\ GoodMasters \subseteq Masters
    /\ NoMaster \notin Masters

VARIABLES
    master,   \* the master configuration on disk
    marker,   \* the configuration the marker is for, NoMaster: no marker
    prov      \* the `ngm provision init' that is running

provVars == <<master, marker, prov>>

NoInit == [pc |-> "idle", text |-> NoMaster]

ProvisionTypeOK ==
    /\ master \in Masters \cup {NoMaster}
    /\ marker \in Masters \cup {NoMaster}
    /\ prov \in [pc : {"idle", "install", "test", "mark"},
                 text : Masters \cup {NoMaster}]

\* A host that was never provisioned, or one that was.
ProvisionInit ==
    /\ master \in GoodMasters \cup {NoMaster}
    /\ marker = master
    /\ prov = NoInit

\* One command at a time: two of them, or a hand edit of the file between the
\* test and the marker, are what ReadyMeansTested does not cover.  A run that
\* finds its file and the marker for it writes both again as they were: it is
\* left out.
StartProvision(t) ==
    /\ prov.pc = "idle" /\ (t = master => marker # master)
    /\ prov' = [pc |-> "install", text |-> t]
    /\ UNCHANGED <<master, marker>>

\* A bug: the marker is written with the file, before it is tested.
InstallMasterConfig_marks(ok) ==
    /\ prov.pc = "install"
    /\ master' = IF ok THEN prov.text ELSE master
    /\ marker' = IF ok THEN prov.text ELSE marker
    /\ prov' = IF ok THEN [prov EXCEPT !.pc = "test"] ELSE NoInit

\* EnsureLayout, EnsureNginxCacheDirs, EnsureGlobalSelfSigned, and then
\* InstallMasterConfig, which keeps no copy of the file it replaces.
InstallMasterConfig(ok) ==
    /\ prov.pc = "install"
    /\ master' = IF ok THEN prov.text ELSE master
    /\ prov' = IF ok THEN [prov EXCEPT !.pc = "test"] ELSE NoInit
    /\ UNCHANGED marker

\* nginx -t, whose answer is ok; the new file stays when it fails.
TestMaster(ok) ==
    /\ prov.pc = "test"
    /\ prov' = IF ok THEN [prov EXCEPT !.pc = "mark"] ELSE NoInit
    /\ UNCHANGED <<master, marker>>

\* The file is read again for the marker.
WriteProvisionReadyMarker(ok) ==
    /\ prov.pc = "mark"
    /\ marker' = IF ok THEN master ELSE marker
    /\ prov' = NoInit
    /\ UNCHANGED master

EnsureProvisionReady == master # NoMaster /\ marker = master

\* `ngm provision init' is killed.
KillProvision ==
    /\ prov.pc # "idle"
    /\ prov' = NoInit
    /\ UNCHANGED <<master, marker>>

=============================================================================
