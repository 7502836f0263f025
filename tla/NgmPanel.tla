------------------------------ MODULE NgmPanel ------------------------------
(***************************************************************************)
(* Panel users, their Linux accounts and their logins: the handlers for    *)
(* users, resellers and login of internal/web/server.go over the           *)
(* panel_users table of internal/store/sqlite and the account commands of  *)
(* internal/users.  A handler takes no lock and spreads its work over      *)
(* several statements and commands, so each of those is a step.            *)
(*                                                                         *)
(* Abstractions.                                                           *)
(*  - An id is one of a set from which every new row takes an unused one   *)
(*    (AUTOINCREMENT); Ids bounds how many rows a run creates.             *)
(*  - Passwords are right or wrong.  What an account's entry in the shadow *)
(*    file lets through is in accounts: only an open one can be logged in  *)
(*    to, chpasswd opens any, usermod -L and -U go between locked and      *)
(*    open and leave an account that never had a password alone.           *)
(*  - The owner of a site may have got a Linux account before it becomes a *)
(*    panel user: accounts start with none or one without a password.      *)
(*  - failed_attempts is compared with 5 only: it is not counted beyond.   *)
(*  - Admins are always there and logged in; no request uses an admin's    *)
(*    name.  Of the sessions only those of resellers are kept: nothing     *)
(*    here is open to the others.                                          *)
(*  - Suspend and enable are edits without a password, disabling and       *)
(*    enabling a reseller likewise.  Packages, pages and the command line  *)
(*    are left out.                                                        *)
(*                                                                         *)
(* A definition marked "a bug" is not the code: it is a mistake someone    *)
(* could make there, kept to show which property would notice it.          *)
(***************************************************************************)
EXTENDS Integers, FiniteSets

CONSTANTS
    Names,          \* usernames
    NoName,         \* the name of a row that does not exist
    Ids,            \* panel_users.id
    NoId,           \* reseller_id NULL
    Requests,       \* what the panel is asked: members of AllRequests
    WrongPasswords, \* are some passwords wrong
    CommandsFail,   \* can useradd, chpasswd, usermod and userdel fail
    Workers         \* requests served at the same time

AllRequests ==
    [kind : {"user new", "user edit", "user delete", "reseller new",
             "reseller edit", "reseller delete", "login"}, name : Names]

ASSUME PanelAssumption ==
    /\ NoName \notin Names
    /\ NoId \notin Ids
    /\ Requests \subseteq AllRequests
    /\ WrongPasswords \in BOOLEAN
    /\ CommandsFail \in BOOLEAN
    /\ IsFiniteSet(Workers) /\ Workers # {}

VARIABLES
    rows,      \* panel_users
    used,      \* the ids given out so far
    accounts,  \* the Linux account of each name
    sessions,  \* the resellers that have a session
    calls,     \* per worker, the handler it runs
    tries      \* history, per id: passwords found wrong since the counter of
               \* the row was last set anew (by a lock, a login or a save)

vars == <<rows, used, accounts, sessions, calls, tries>>

-----------------------------------------------------------------------------
(* Types and initial state *)

\* The wrong passwords that lock a row.
MaxAttempts == 5

Row == [name : Names \cup {NoName}, role : {"user", "reseller"},
        enabled : BOOLEAN, reseller : Ids \cup {NoId},
        failed : 0 .. MaxAttempts, locked : BOOLEAN]

NoRow == [name |-> NoName, role |-> "user", enabled |-> FALSE,
          reseller |-> NoId, failed |-> 0, locked |-> FALSE]

Accounts == {"none", "no password", "open", "locked"}

\* Where a handler can stand between its request and its answer.
Steps == {"create", "reread", "save", "users", "delete", "useradd", "chpasswd",
          "usermod", "userdel", "verify", "count", "lock", "session", "reset"}

Call == [pc       : Steps \cup {"idle", "done"},
         kind     : {"", "user new", "user edit", "user delete",
                     "reseller new", "reseller edit", "reseller delete",
                     "login"},
         name     : Names \cup {NoName},
         enabled  : BOOLEAN,           \* the form's enabled
         owner    : Ids \cup {NoId},   \* the form's reseller
         id       : Ids \cup {NoId},   \* the row read ...
         row      : Row,               \* ... as it was then
         ok       : BOOLEAN,           \* done: the request did what it says
         clean    : BOOLEAN]           \* history: no command failed and no
                                       \* other request for that name overlapped

NoCall == [pc |-> "idle", kind |-> "", name |-> NoName, enabled |-> FALSE,
           owner |-> NoId, id |-> NoId, row |-> NoRow, ok |-> FALSE,
           clean |-> FALSE]

\* Every variable has its type.
TypeOK ==
    /\ rows \in [Ids -> Row]
    /\ used \subseteq Ids
    /\ accounts \in [Names -> Accounts]
    /\ sessions \subseteq Ids
    /\ calls \in [Workers -> Call]
    /\ tries \in [Ids -> Nat]

Init ==
    /\ rows = [i \in Ids |-> NoRow]
    /\ used = {}
    /\ accounts \in [Names -> {"none", "no password"}]
    /\ sessions = {}
    /\ calls = [w \in Workers |-> NoCall]
    /\ tries = [i \in Ids |-> 0]

-----------------------------------------------------------------------------
(* Helpers *)

Exists(i) == rows[i].name # NoName

Called(n) == {i \in Ids : rows[i].name = n}

\* A database that does not enforce its foreign keys.
Referred_unenforced(i) == FALSE \* a bug

\* Foreign keys: a reseller_id must be there when a row is saved, and a row
\* that one refers to is not deleted.
MayRefer(i) == i = NoId \/ Exists(i)

Referred(i) == \E j \in Ids \ {i} : Exists(j) /\ rows[j].reseller = i

\* canManagePanelUser.
CanManage(actor, row) ==
    actor = NoId \/ (row.role = "user" /\ row.reseller = actor)

At(w, step) == calls[w].pc = step

Goto(w, step) == calls' = [calls EXCEPT ![w].pc = step]

Finish(w, ok) == calls' = [calls EXCEPT ![w].pc = "done", ![w].ok = ok]

\* The handler c starts on w.  Requests that manage the same user meanwhile
\* overlap with it; logins do not count.
Begin(w, c) ==
    LET same  == {v \in Workers \ {w} : calls[v].name = c.name}
        alone == \A v \in same : calls[v].pc = "done" \/ calls[v].kind = "login"
    IN  calls' = IF c.kind = "login" THEN [calls EXCEPT ![w] = c]
                 ELSE [v \in Workers |->
                         IF v = w THEN [c EXCEPT !.clean = alone]
                         ELSE IF v \in same THEN [calls[v] EXCEPT !.clean = FALSE]
                         ELSE calls[v]]

\* A command gives the account of the user of w its new state, or it fails,
\* before or after doing so: the handlers ignore that and go on.
Command(w, account, next) ==
    LET n == calls[w].name
        c == [calls[w] EXCEPT !.pc = next, !.ok = (next = "done")]
    IN  /\ \/ /\ accounts' = [accounts EXCEPT ![n] = account]
              /\ calls' = [calls EXCEPT ![w] = c]
           \/ /\ CommandsFail
              /\ \E a \in {account, accounts[n]} :
                    accounts' = [accounts EXCEPT ![n] = a]
              /\ calls' = [calls EXCEPT ![w] = [c EXCEPT !.clean = FALSE]]
        /\ UNCHANGED <<rows, used, sessions, tries>>

-----------------------------------------------------------------------------
(* Requests *)

Asked(kind, n) == [kind |-> kind, name |-> n] \in Requests

\* The form for a new user lists resellers, some of which may be gone by now.
Listed == {i \in used : Exists(i) => rows[i].role = "reseller"}

\* A reseller is the owner of the users it makes.
AskUserNew(w) ==
    \E n \in Names, actor \in sessions \cup {NoId}, enabled \in BOOLEAN :
    \E owner \in IF actor = NoId THEN Listed \cup {NoId} ELSE {actor} :
         /\ Asked("user new", n)
         /\ Begin(w, [NoCall EXCEPT !.pc = "create", !.kind = "user new",
                        !.name = n, !.enabled = enabled, !.owner = owner])

AskResellerNew(w) ==
    \E n \in Names, enabled \in BOOLEAN :
         /\ Asked("reseller new", n)
         /\ Begin(w, [NoCall EXCEPT !.pc = "create", !.kind = "reseller new",
                        !.name = n, !.enabled = enabled])

\* The row is read and must be a user this actor manages; enabled is the
\* only field of it an edit changes.
AskUserEdit(w) ==
    \E i \in Ids, actor \in sessions \cup {NoId}, enabled, pass \in BOOLEAN :
         /\ Exists(i) /\ rows[i].role = "user" /\ CanManage(actor, rows[i])
         /\ Asked("user edit", rows[i].name)
         /\ Begin(w, [NoCall EXCEPT !.pc = IF pass THEN "chpasswd" ELSE "save",
                        !.kind = "user edit", !.name = rows[i].name,
                        !.enabled = enabled, !.id = i,
                        !.row = [rows[i] EXCEPT !.enabled = enabled]])

AskResellerEdit(w) ==
    \E i \in Ids, enabled \in BOOLEAN :
         /\ Exists(i) /\ rows[i].role = "reseller"
         /\ Asked("reseller edit", rows[i].name)
         /\ Begin(w, [NoCall EXCEPT !.pc = "save", !.kind = "reseller edit",
                        !.name = rows[i].name, !.enabled = enabled, !.id = i,
                        !.row = [rows[i] EXCEPT !.enabled = enabled]])

AskUserDelete(w) ==
    \E i \in Ids, actor \in sessions \cup {NoId} :
         /\ Exists(i) /\ rows[i].role = "user" /\ CanManage(actor, rows[i])
         /\ Asked("user delete", rows[i].name)
         /\ Begin(w, [NoCall EXCEPT !.pc = "delete", !.kind = "user delete",
                        !.name = rows[i].name, !.id = i])

AskResellerDelete(w) ==
    \E i \in Ids :
         /\ Exists(i) /\ rows[i].role = "reseller"
         /\ Asked("reseller delete", rows[i].name)
         /\ Begin(w, [NoCall EXCEPT !.pc = "users", !.kind = "reseller delete",
                        !.name = rows[i].name, !.id = i])

\* handleLogin reads the row: it must be enabled and not locked.
AskLogin(w) ==
    \E i \in Ids :
         /\ rows[i].enabled /\ ~rows[i].locked
         /\ Asked("login", rows[i].name)
         /\ Begin(w, [NoCall EXCEPT !.pc = "verify", !.kind = "login",
                        !.name = rows[i].name, !.id = i, !.row = rows[i]])

\* Requests for a user that is not there, or not theirs, change nothing and
\* are left out.
Request(w) ==
    /\ At(w, "idle")
    /\ \/ AskUserNew(w) \/ AskUserEdit(w) \/ AskUserDelete(w)
       \/ AskResellerNew(w) \/ AskResellerEdit(w) \/ AskResellerDelete(w)
       \/ AskLogin(w)
    /\ UNCHANGED <<rows, used, accounts, sessions, tries>>

Return(w) ==
    /\ At(w, "done")
    /\ calls' = [calls EXCEPT ![w] = NoCall]
    /\ UNCHANGED <<rows, used, accounts, sessions, tries>>

-----------------------------------------------------------------------------
(* Rows *)

\* The upsert of CreatePanelUser: an existing row changes role and enabled.
CreateRow(w) ==
    LET c    == calls[w]
        role == IF c.kind = "user new" THEN "user" ELSE "reseller"
    IN  /\ At(w, "create")
        /\ \/ \E i \in Ids \ used :
                 /\ Called(c.name) = {}
                 /\ used' = used \cup {i}
                 /\ rows' = [rows EXCEPT ![i] =
                        [NoRow EXCEPT !.name = c.name, !.role = role,
                                      !.enabled = c.enabled]]
           \/ \E i \in Called(c.name) :
                 /\ used' = used
                 /\ rows' = [rows EXCEPT ![i].role = role,
                                         ![i].enabled = c.enabled]
        /\ Goto(w, "reread")
        /\ UNCHANGED <<accounts, sessions, tries>>

\* The read that ends CreatePanelUser; a new user gets its owner.
Reread(w) ==
    LET c == calls[w]
        Changed(r) == [r EXCEPT !.enabled = c.enabled,
                          !.reseller = IF c.owner = NoId THEN r.reseller
                                                         ELSE c.owner]
    IN  /\ At(w, "reread")
        /\ IF Called(c.name) = {} THEN Finish(w, FALSE)
           ELSE IF c.kind = "reseller new" THEN Finish(w, TRUE)
           ELSE \E i \in Called(c.name) :
                   calls' = [calls EXCEPT ![w].pc = "save", ![w].id = i,
                                          ![w].row = Changed(rows[i])]
        /\ UNCHANGED <<rows, used, accounts, sessions, tries>>

Saved(kind) == CASE kind = "user new"  -> "useradd"
                 [] kind = "user edit" -> "usermod"
                 [] OTHER              -> "done"

\* UpdatePanelUser writes the whole row, as it was read but for the change,
\* and reads it again: it must be there.  The handler is done with its copy.
Save(w) ==
    LET c == calls[w]
    IN  /\ At(w, "save")
        /\ IF Exists(c.id) /\ MayRefer(c.row.reseller)
           THEN /\ rows' = [rows EXCEPT ![c.id] = c.row]
                /\ tries' = [tries EXCEPT ![c.id] = 0]
                /\ calls' = [calls EXCEPT ![w].pc = Saved(c.kind),
                                          ![w].row = NoRow,
                                          ![w].ok = Saved(c.kind) = "done"]
           ELSE /\ Finish(w, FALSE)
                /\ UNCHANGED <<rows, tries>>
        /\ UNCHANGED <<used, accounts, sessions>>

\* handleResellerDelete looks for users of the reseller.
CheckUsers(w) ==
    /\ At(w, "users")
    /\ IF \E i \in Ids : /\ rows[i].role = "user"
                         /\ rows[i].reseller = calls[w].id
       THEN Finish(w, FALSE)
       ELSE Goto(w, "delete")
    /\ UNCHANGED <<rows, used, accounts, sessions, tries>>

\* DeletePanelUser, which nobody may refer to; a row that is gone already is
\* no error.
DeleteRow(w) ==
    LET c == calls[w]
    IN  /\ At(w, "delete")
        /\ IF Referred(c.id)
           THEN Finish(w, FALSE) /\ UNCHANGED <<rows, tries>>
           ELSE /\ rows' = [rows EXCEPT ![c.id] = NoRow]
                /\ tries' = [tries EXCEPT ![c.id] = 0]
                /\ IF c.kind = "user delete" THEN Goto(w, "userdel")
                                             ELSE Finish(w, TRUE)
        /\ UNCHANGED <<used, accounts, sessions>>

-----------------------------------------------------------------------------
(* Accounts *)

\* CreateSystemUser, which is content with an account that is there.
UserAdd(w) ==
    LET a == accounts[calls[w].name]
    IN  /\ At(w, "useradd")
        /\ Command(w, IF a = "none" THEN "no password" ELSE a, "chpasswd")

\* A new user is not suspended.
ChPasswd_noSuspend(w) == \* a bug
    LET c == calls[w]
    IN  /\ At(w, "chpasswd")
        /\ Command(w, IF accounts[c.name] = "none" THEN "none" ELSE "open",
                   IF c.kind = "user edit" THEN "save" ELSE "done")

\* SetSystemPassword: a new user is done unless it starts suspended, an edit
\* goes on to save the row.
ChPasswd(w) ==
    LET c == calls[w]
    IN  /\ At(w, "chpasswd")
        /\ Command(w, IF accounts[c.name] = "none" THEN "none" ELSE "open",
                   IF c.kind = "user edit" THEN "save"
                   ELSE IF c.enabled THEN "done" ELSE "usermod")

\* UnsuspendSystemUser or SuspendSystemUser.
UserMod(w) ==
    LET c == calls[w]
        a == accounts[c.name]
    IN  /\ At(w, "usermod")
        /\ Command(w, IF c.enabled /\ a = "locked" THEN "open"
                      ELSE IF ~c.enabled /\ a = "open" THEN "locked"
                      ELSE a, "done")

\* DeleteSystemUser.
UserDel(w) ==
    /\ At(w, "userdel")
    /\ Command(w, "none", "done")

-----------------------------------------------------------------------------
(* Login *)

\* A user's password is checked against the shadow file, a reseller's against
\* the hash in the row.
Verify(w) ==
    LET c == calls[w]
    IN  /\ At(w, "verify")
        /\ \/ /\ c.row.role = "user" => accounts[c.name] = "open"
              /\ Goto(w, "session")
              /\ tries' = tries
           \/ /\ WrongPasswords
              /\ Goto(w, "count")
              /\ tries' = [tries EXCEPT ![c.id] = @ + 1]
        /\ UNCHANGED <<rows, used, accounts, sessions>>

\* Locks one wrong password later.
Count_offByOne(w) == \* a bug
    LET c == calls[w]
    IN  /\ At(w, "count")
        /\ rows' = IF Exists(c.id) /\ rows[c.id].failed < MaxAttempts
                   THEN [rows EXCEPT ![c.id].failed = @ + 1]
                   ELSE rows
        /\ IF c.row.failed >= MaxAttempts THEN Goto(w, "lock")
                                          ELSE Finish(w, FALSE)
        /\ UNCHANGED <<used, accounts, sessions, tries>>

\* IncrementFailedAttempts.  Whether to lock is decided by the counter the
\* handler read.
Count(w) ==
    LET c == calls[w]
    IN  /\ At(w, "count")
        /\ rows' = IF Exists(c.id) /\ rows[c.id].failed < MaxAttempts
                   THEN [rows EXCEPT ![c.id].failed = @ + 1]
                   ELSE rows
        /\ IF c.row.failed + 1 >= MaxAttempts THEN Goto(w, "lock")
                                              ELSE Finish(w, FALSE)
        /\ UNCHANGED <<used, accounts, sessions, tries>>

\* LockPanelUser.
Lock(w) ==
    LET i == calls[w].id
    IN  /\ At(w, "lock")
        /\ rows' = IF Exists(i) THEN [rows EXCEPT ![i].locked = TRUE] ELSE rows
        /\ tries' = [tries EXCEPT ![i] = 0]
        /\ Finish(w, FALSE)
        /\ UNCHANGED <<used, accounts, sessions>>

\* A session made out to the name.
NewSession_name(w) == \* a bug
    LET c == calls[w]
    IN  /\ At(w, "session")
        /\ sessions' = IF c.row.role = "reseller" THEN sessions \cup {c.name}
                                                  ELSE sessions
        /\ Goto(w, "reset")
        /\ UNCHANGED <<rows, used, accounts, tries>>

\* The session gets the role the row had when it was read.
NewSession(w) ==
    LET c == calls[w]
    IN  /\ At(w, "session")
        /\ sessions' = IF c.row.role = "reseller" THEN sessions \cup {c.id}
                                                  ELSE sessions
        /\ Goto(w, "reset")
        /\ UNCHANGED <<rows, used, accounts, tries>>

\* ResetFailedAttempts lifts a lock, too.
Reset(w) ==
    LET i == calls[w].id
    IN  /\ At(w, "reset")
        /\ rows' = IF Exists(i) THEN [rows EXCEPT ![i].failed = 0,
                                                  ![i].locked = FALSE]
                                ELSE rows
        /\ tries' = [tries EXCEPT ![i] = 0]
        /\ Finish(w, TRUE)
        /\ UNCHANGED <<used, accounts, sessions>>

\* locked_until passes.
LockExpires ==
    /\ \E i \in Ids : rows[i].locked /\ rows' = [rows EXCEPT ![i].locked = FALSE]
    /\ UNCHANGED <<used, accounts, sessions, calls, tries>>

\* A logout, or the twelve hours of a session are over.
EndSession ==
    /\ \E i \in sessions : sessions' = sessions \ {i}
    /\ UNCHANGED <<rows, used, accounts, calls, tries>>

-----------------------------------------------------------------------------
(* Specification *)

Step(w) ==
    \/ CreateRow(w) \/ Reread(w) \/ Save(w) \/ CheckUsers(w) \/ DeleteRow(w)
    \/ UserAdd(w) \/ ChPasswd(w) \/ UserMod(w) \/ UserDel(w)
    \/ Verify(w) \/ Count(w) \/ Lock(w) \/ NewSession(w) \/ Reset(w)

Next ==
    \/ \E w \in Workers : Request(w) \/ Step(w) \/ Return(w)
    \/ LockExpires
    \/ EndSession

Spec == Init /\ [][Next]_vars

-----------------------------------------------------------------------------
(* Properties *)

\* The row of c's user has this role and the form's enabled.
HasRow(c, role) ==
    \E i \in Called(c.name) : rows[i].role = role /\ rows[i].enabled = c.enabled

Done(c) ==
    LET account == accounts[c.name]
    IN  CASE c.kind = "user new" ->
               /\ \E i \in Called(c.name) :
                     /\ rows[i].role = "user" /\ rows[i].enabled = c.enabled
                     /\ c.owner # NoId => rows[i].reseller = c.owner
               /\ account = IF c.enabled THEN "open" ELSE "locked"
          [] c.kind = "user edit" ->
               /\ HasRow(c, "user")
               /\ account # IF c.enabled THEN "locked" ELSE "open"
          [] c.kind = "user delete" -> Called(c.name) = {} /\ account = "none"
          [] c.kind \in {"reseller new", "reseller edit"} ->
               HasRow(c, "reseller")
          [] c.kind = "reseller delete" -> Called(c.name) = {}
          [] OTHER -> TRUE

\* A request that reports success did the whole of what it says, to the row
\* and to the Linux account, whatever is done to other users meanwhile and
\* whoever logs in: unless a command failed, or another request for the same
\* user overlapped.
OkMeansDone ==
    \A w \in Workers :
        At(w, "done") /\ calls[w].ok /\ calls[w].clean => Done(calls[w])

\* No user is left with a reseller that is gone.
OwnersExist ==
    \A i \in Ids : Exists(i) => MayRefer(rows[i].reseller)

\* With n logins at once no more than 3 + 2n passwords are found wrong before
\* the row is locked, 5 with one login at a time: the counter the decision is
\* taken by is at most the n readers behind.
AttemptsBounded ==
    \A i \in Ids : tries[i] <= MaxAttempts - 2 + 2 * Cardinality(Workers)
=============================================================================
