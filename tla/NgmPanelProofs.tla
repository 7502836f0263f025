--------------------------- MODULE NgmPanelProofs ---------------------------
(***************************************************************************)
(* Theorems about panel users, their accounts and their logins, for any    *)
(* number of names, rows and requests served at the same time.             *)
(***************************************************************************)
EXTENDS NgmPanel, FiniteSetTheorems, TLAPS

-----------------------------------------------------------------------------
(* What the steps of a handler do to its record *)

\* r is c further on in the same handler.
Keeps(r, c) ==
    /\ r.kind = c.kind /\ r.name = c.name /\ r.enabled = c.enabled
    /\ r.owner = c.owner
    /\ r.clean => c.clean

\* w made a step and the others did not.
StepOf(w) ==
    /\ calls' \in [Workers -> Call]
    /\ \A v \in Workers : v # w => calls'[v] = calls[v]

LEMMA CallType ==
  ASSUME TypeOK, NEW w \in Workers
  PROVE  calls[w] \in Call
  BY DEF TypeOK

LEMMA NoRowType == NoRow \in Row
  BY DEF NoRow, Row, MaxAttempts

LEMMA NoCallType == NoCall \in Call
  BY NoRowType DEF NoCall, Call

LEMMA NoCallFields ==
  /\ NoCall.pc = "idle" /\ NoCall.kind = "" /\ NoCall.name = NoName
  /\ NoCall.id = NoId /\ NoCall.clean = FALSE
  BY DEF NoCall

LEMMA GotoEffect ==
  ASSUME TypeOK, NEW w \in Workers, NEW step \in Steps, Goto(w, step)
  PROVE  LET c == calls[w] r == calls'[w] IN
         /\ StepOf(w) /\ Keeps(r, c) /\ r.pc = step
         /\ r.id = c.id /\ r.row = c.row
  <1> DEFINE d == [calls[w] EXCEPT !.pc = step]
  <1>1. calls[w] \in Call /\ calls \in [Workers -> Call]
    BY DEF TypeOK
  <1>2. /\ d \in Call /\ Keeps(d, calls[w]) /\ d.pc = step
        /\ d.id = calls[w].id /\ d.row = calls[w].row
    BY <1>1 DEF Call, Keeps
  <1>3. calls' = [calls EXCEPT ![w] = d]
    BY <1>1 DEF Goto
  <1> HIDE DEF d
  <1>4. QED
    BY <1>1, <1>2, <1>3 DEF StepOf

LEMMA FinishEffect ==
  ASSUME TypeOK, NEW w \in Workers, NEW ok \in BOOLEAN, Finish(w, ok)
  PROVE  LET c == calls[w] r == calls'[w] IN
         /\ StepOf(w) /\ Keeps(r, c) /\ r.pc = "done" /\ r.ok = ok
         /\ r.id = c.id /\ r.row = c.row
  <1>1. calls[w] \in Call
    BY CallType
  <1>2. calls' = [calls EXCEPT ![w] = [calls[w] EXCEPT !.pc = "done", !.ok = ok]]
    BY <1>1 DEF Finish, TypeOK
  <1>3. [calls[w] EXCEPT !.pc = "done", !.ok = ok] \in Call
    BY <1>1 DEF Call
  <1>4. QED
    BY <1>1, <1>2, <1>3 DEF StepOf, Keeps, Call, TypeOK

LEMMA CommandEffect ==
  ASSUME TypeOK, NEW w \in Workers, NEW account, NEW next \in Steps \cup {"done"},
         Command(w, account, next)
  PROVE  LET c == calls[w] r == calls'[w] IN
         /\ StepOf(w) /\ Keeps(r, c) /\ r.pc = next
         /\ r.id = c.id /\ r.row = c.row
         /\ \E a \in {account, accounts[c.name]} :
               accounts' = [accounts EXCEPT ![c.name] = a]
         /\ r.clean => accounts' = [accounts EXCEPT ![c.name] = account]
         /\ rows' = rows /\ used' = used /\ tries' = tries /\ sessions' = sessions
  <1> DEFINE c == calls[w]
             d == [c EXCEPT !.pc = next, !.ok = (next = "done")]
             e == [d EXCEPT !.clean = FALSE]
  <1>1. c \in Call
    BY CallType
  <1>2. d \in Call /\ Keeps(d, c) /\ d.pc = next /\ d.id = c.id /\ d.row = c.row
    BY <1>1 DEF Call, Keeps
  <1>3. e \in Call /\ Keeps(e, c) /\ e.pc = next /\ e.id = c.id /\ e.row = c.row
        /\ e.clean = FALSE
    BY <1>1 DEF Call, Keeps
  <1>4. /\ \/ /\ accounts' = [accounts EXCEPT ![c.name] = account]
              /\ calls' = [calls EXCEPT ![w] = d]
           \/ /\ \E a \in {account, accounts[c.name]} :
                    accounts' = [accounts EXCEPT ![c.name] = a]
              /\ calls' = [calls EXCEPT ![w] = e]
        /\ rows' = rows /\ used' = used /\ tries' = tries /\ sessions' = sessions
    BY DEF Command
  <1> HIDE DEF d, e
  <1>5. calls \in [Workers -> Call]
    BY DEF TypeOK
  <1>6. QED
    BY <1>2, <1>3, <1>4, <1>5 DEF StepOf

\* The record of another handler when a request begins: it may have company now.
Kept(r, c) ==
    /\ r.pc = c.pc /\ r.kind = c.kind /\ r.name = c.name /\ r.enabled = c.enabled
    /\ r.owner = c.owner /\ r.id = c.id /\ r.row = c.row /\ r.ok = c.ok
    /\ r.clean => c.clean

LEMMA KeptSelf == \A c : Kept(c, c)
  BY DEF Kept

LEMMA BeginEffect ==
  ASSUME TypeOK, NEW w \in Workers, NEW c \in Call, Begin(w, c), c.clean = FALSE
  PROVE  LET r == calls'[w] IN
         /\ calls' \in [Workers -> Call]
         /\ r.pc = c.pc /\ r.kind = c.kind /\ r.name = c.name /\ r.enabled = c.enabled
         /\ r.owner = c.owner /\ r.id = c.id /\ r.row = c.row
         /\ \A v \in Workers : v # w => Kept(calls'[v], calls[v])
         /\ c.kind = "login" => ~r.clean
         /\ r.clean => \A v \in Workers : v # w /\ calls[v].name = c.name =>
                          calls[v].pc = "done" \/ calls[v].kind = "login"
         /\ c.kind # "login" => \A v \in Workers : v # w /\ calls[v].name = c.name =>
                                   ~calls'[v].clean
  <1> DEFINE same == {v \in Workers \ {w} : calls[v].name = c.name}
             alone == \A v \in same : calls[v].pc = "done" \/ calls[v].kind = "login"
             d == [c EXCEPT !.clean = alone]
  <1>1. calls \in [Workers -> Call]
    BY DEF TypeOK
  <1>2. ASSUME NEW b \in BOOLEAN
        PROVE  LET e == [c EXCEPT !.clean = b] IN
               /\ e \in Call /\ e.clean = b
               /\ e.pc = c.pc /\ e.kind = c.kind /\ e.name = c.name
               /\ e.enabled = c.enabled /\ e.owner = c.owner /\ e.id = c.id
               /\ e.row = c.row
    BY DEF Call
  <1>3. CASE c.kind = "login"
    <2>1. calls' = [calls EXCEPT ![w] = c]
      BY <1>3 DEF Begin
    <2>2. c = [c EXCEPT !.clean = FALSE]
      BY DEF Call
    <2>3. QED
      BY <1>1, <1>2, <1>3, <2>1, <2>2, KeptSelf
  <1>4. CASE c.kind # "login"
    <2>1. calls' = [v \in Workers |->
                      IF v = w THEN d
                      ELSE IF v \in same THEN [calls[v] EXCEPT !.clean = FALSE]
                      ELSE calls[v]]
      BY <1>4 DEF Begin
    <2>2. ASSUME NEW v \in Workers, v # w
          PROVE  /\ calls'[v] \in Call /\ Kept(calls'[v], calls[v])
                 /\ calls[v].name = c.name => ~calls'[v].clean
      <3>1. CASE v \in same
        <4>1. calls'[v] = [calls[v] EXCEPT !.clean = FALSE]
          BY <2>1, <2>2, <3>1
        <4>2. QED
          BY <1>1, <4>1 DEF Call, Kept
      <3>2. CASE v \notin same
        <4>1. calls'[v] = calls[v]
          BY <2>1, <2>2, <3>2
        <4>2. calls[v].name # c.name
          BY <2>2, <3>2
        <4>3. QED
          BY <1>1, <4>1, <4>2, KeptSelf
      <3>3. QED
        BY <3>1, <3>2
    <2>3. alone \in BOOLEAN
      OBVIOUS
    <2>4. calls'[w] = d
      BY <2>1
    <2>5. d.clean = alone /\ d \in Call
      BY <1>2, <2>3
    <2>6. d.clean => alone
      BY <2>5
    <2>7. alone => \A v \in Workers : v # w /\ calls[v].name = c.name =>
                      calls[v].pc = "done" \/ calls[v].kind = "login"
      OBVIOUS
    <2>8. calls' \in [Workers -> Call]
      BY <2>1, <2>2, <2>4, <2>5
    <2> HIDE DEF alone
    <2>9. QED
      BY <1>2, <1>4, <2>2, <2>3, <2>4, <2>6, <2>7, <2>8
  <1>5. QED
    BY <1>3, <1>4

-----------------------------------------------------------------------------
(* What a request begins with *)

\* The role of the rows a handler of this kind makes or changes.
RoleOf(kind) == IF kind \in {"user new", "user edit", "user delete"}
                THEN "user" ELSE "reseller"

\* c is about the row it was asked for.
About(c) == c.id \in Ids /\ rows[c.id].name = c.name

\* The copy of the row that an edit will save.
EditsCopy(c) ==
    /\ c.row.name = c.name /\ c.row.role = RoleOf(c.kind)
    /\ c.row.enabled = c.enabled

\* A handler at its first step.
Asks(c) ==
    /\ c \in Call /\ c.clean = FALSE /\ c.name \in Names
    /\ \/ c.pc = "create" /\ c.kind \in {"user new", "reseller new"} /\ c.id = NoId
       \/ /\ \/ c.pc \in {"chpasswd", "save"} /\ c.kind = "user edit"
             \/ c.pc = "save" /\ c.kind = "reseller edit"
          /\ About(c) /\ EditsCopy(c)
       \/ c.pc = "delete" /\ c.kind = "user delete" /\ About(c)
       \/ c.pc = "users" /\ c.kind = "reseller delete" /\ About(c)
       \/ c.pc = "verify" /\ c.kind = "login" /\ About(c) /\ c.row = rows[c.id]

LEMMA AskedName ==
  ASSUME NEW kind, NEW n, Asked(kind, n)
  PROVE  n \in Names
  <1>1. [kind |-> kind, name |-> n] \in AllRequests
    BY PanelAssumption DEF Asked
  <1>2. QED
    BY <1>1 DEF AllRequests

LEMMA RequestBegins ==
  ASSUME TypeOK, NEW w \in Workers, Request(w)
  PROVE  /\ calls[w].pc = "idle"
         /\ UNCHANGED <<rows, used, accounts, sessions, tries>>
         /\ \E c : Asks(c) /\ Begin(w, c)
  <1> USE DEF NoCall
  <1>1. \A i \in Ids : rows[i] \in Row
    BY DEF TypeOK
  <1>2. ASSUME AskUserNew(w)
        PROVE  \E c : Asks(c) /\ Begin(w, c)
    <2>1. PICK n \in Names, enabled \in BOOLEAN, owner \in Ids \cup {NoId} :
             Begin(w, [NoCall EXCEPT !.pc = "create", !.kind = "user new",
                        !.name = n, !.enabled = enabled, !.owner = owner])
      BY <1>2 DEF AskUserNew, Listed, TypeOK
    <2> DEFINE c == [NoCall EXCEPT !.pc = "create", !.kind = "user new",
                        !.name = n, !.enabled = enabled, !.owner = owner]
    <2>2. /\ c \in Call /\ c.clean = FALSE /\ c.name \in Names
          /\ c.pc = "create" /\ c.kind = "user new" /\ c.id = NoId
      BY NoCallType DEF Call, Steps
    <2>3. QED
      BY <2>1, <2>2 DEF Asks
  <1>3. ASSUME AskResellerNew(w)
        PROVE  \E c : Asks(c) /\ Begin(w, c)
    <2>1. PICK n \in Names, enabled \in BOOLEAN :
             Begin(w, [NoCall EXCEPT !.pc = "create", !.kind = "reseller new",
                        !.name = n, !.enabled = enabled])
      BY <1>3 DEF AskResellerNew
    <2> DEFINE c == [NoCall EXCEPT !.pc = "create", !.kind = "reseller new",
                        !.name = n, !.enabled = enabled]
    <2>2. /\ c \in Call /\ c.clean = FALSE /\ c.name \in Names
          /\ c.pc = "create" /\ c.kind = "reseller new" /\ c.id = NoId
      BY NoCallType DEF Call, Steps
    <2>3. QED
      BY <2>1, <2>2 DEF Asks
  <1>4. ASSUME NEW i \in Ids, NEW enabled \in BOOLEAN, rows[i].name \in Names,
               NEW q \in {"chpasswd", "save"}, NEW k \in {"user edit", "reseller edit"},
               rows[i].role = RoleOf(k), k = "user edit" \/ q = "save",
               Begin(w, [NoCall EXCEPT !.pc = q, !.kind = k, !.name = rows[i].name,
                          !.enabled = enabled, !.id = i,
                          !.row = [rows[i] EXCEPT !.enabled = enabled]])
        PROVE  \E c : Asks(c) /\ Begin(w, c)
    <2> DEFINE f == [rows[i] EXCEPT !.enabled = enabled]
               c == [NoCall EXCEPT !.pc = q, !.kind = k, !.name = rows[i].name,
                          !.enabled = enabled, !.id = i, !.row = f]
    <2>1. f \in Row /\ f.name = rows[i].name /\ f.role = rows[i].role
          /\ f.enabled = enabled
      BY <1>1 DEF Row
    <2> HIDE DEF f
    <2>2. /\ c \in Call /\ c.clean = FALSE /\ c.name = rows[i].name
          /\ c.pc = q /\ c.kind = k /\ c.id = i /\ c.row = f /\ c.enabled = enabled
      BY <1>4, <2>1, NoCallType DEF Call, Steps
    <2>3. Begin(w, c)
      BY <1>4 DEF f
    <2> HIDE DEF c
    <2>4. About(c) /\ EditsCopy(c)
      BY <1>4, <2>1, <2>2 DEF About, EditsCopy
    <2>5. QED
      BY <1>4, <2>2, <2>3, <2>4 DEF Asks
  <1>5. ASSUME AskUserEdit(w)
        PROVE  \E c : Asks(c) /\ Begin(w, c)
    <2>1. PICK i \in Ids, enabled \in BOOLEAN, pass \in BOOLEAN :
             /\ rows[i].role = "user" /\ rows[i].name \in Names
             /\ Begin(w, [NoCall EXCEPT !.pc = IF pass THEN "chpasswd" ELSE "save",
                        !.kind = "user edit", !.name = rows[i].name,
                        !.enabled = enabled, !.id = i,
                        !.row = [rows[i] EXCEPT !.enabled = enabled]])
      BY <1>5, AskedName DEF AskUserEdit
    <2>2. PICK q \in {"chpasswd", "save"} :
             Begin(w, [NoCall EXCEPT !.pc = q,
                        !.kind = "user edit", !.name = rows[i].name,
                        !.enabled = enabled, !.id = i,
                        !.row = [rows[i] EXCEPT !.enabled = enabled]])
      BY <2>1
    <2>3. QED
      BY <1>4, <2>1, <2>2 DEF RoleOf
  <1>6. ASSUME AskResellerEdit(w)
        PROVE  \E c : Asks(c) /\ Begin(w, c)
    <2>1. PICK i \in Ids, enabled \in BOOLEAN :
             /\ rows[i].role = "reseller" /\ rows[i].name \in Names
             /\ Begin(w, [NoCall EXCEPT !.pc = "save",
                        !.kind = "reseller edit", !.name = rows[i].name,
                        !.enabled = enabled, !.id = i,
                        !.row = [rows[i] EXCEPT !.enabled = enabled]])
      BY <1>6, AskedName DEF AskResellerEdit
    <2>2. QED
      BY <1>4, <2>1 DEF RoleOf
  <1>7. ASSUME NEW i \in Ids, rows[i].name \in Names,
               NEW q, NEW k, \/ q = "delete" /\ k = "user delete"
                             \/ q = "users" /\ k = "reseller delete",
               Begin(w, [NoCall EXCEPT !.pc = q, !.kind = k,
                        !.name = rows[i].name, !.id = i])
        PROVE  \E c : Asks(c) /\ Begin(w, c)
    <2> DEFINE c == [NoCall EXCEPT !.pc = q, !.kind = k,
                        !.name = rows[i].name, !.id = i]
    <2>1. /\ c \in Call /\ c.clean = FALSE /\ c.name = rows[i].name
          /\ c.pc = q /\ c.kind = k /\ c.id = i
      BY <1>7, NoCallType DEF Call, Steps
    <2>2. Begin(w, c)
      BY <1>7
    <2> HIDE DEF c
    <2>3. QED
      BY <1>7, <2>1, <2>2 DEF Asks, About
  <1>8. ASSUME AskUserDelete(w) \/ AskResellerDelete(w)
        PROVE  \E c : Asks(c) /\ Begin(w, c)
    BY <1>7, <1>8, AskedName DEF AskUserDelete, AskResellerDelete
  <1>9. ASSUME AskLogin(w)
        PROVE  \E c : Asks(c) /\ Begin(w, c)
    <2>1. PICK i \in Ids :
             /\ rows[i].name \in Names
             /\ Begin(w, [NoCall EXCEPT !.pc = "verify", !.kind = "login",
                        !.name = rows[i].name, !.id = i, !.row = rows[i]])
      BY <1>9, AskedName DEF AskLogin
    <2> DEFINE c == [NoCall EXCEPT !.pc = "verify", !.kind = "login",
                        !.name = rows[i].name, !.id = i, !.row = rows[i]]
    <2>2. /\ c \in Call /\ c.clean = FALSE /\ c.name = rows[i].name
          /\ c.pc = "verify" /\ c.kind = "login" /\ c.id = i /\ c.row = rows[i]
      BY <1>1, <2>1, NoCallType DEF Call, Steps
    <2> HIDE DEF c
    <2>3. Asks(c)
      BY <2>1, <2>2 DEF Asks, About
    <2>4. QED
      BY <2>1, <2>3 DEF c
  <1>10. QED
    BY <1>2, <1>3, <1>5, <1>6, <1>8, <1>9 DEF Request, At

-----------------------------------------------------------------------------
(* What each step does *)

\* The row f is g but for the counter and the lock.
SameUser(f, g) ==
    /\ f.name = g.name /\ f.role = g.role
    /\ f.enabled = g.enabled /\ f.reseller = g.reseller

\* The handler of w went from c to r and looks at the same row.
Goes(w, from, to) ==
    LET c == calls[w] r == calls'[w] IN
    /\ StepOf(w) /\ Keeps(r, c) /\ r.id = c.id
    /\ c.pc = from /\ r.pc = to

SameStore == rows' = rows /\ used' = used /\ tries' = tries

LEMMA CreateEffect ==
  ASSUME TypeOK, NEW w \in Workers, CreateRow(w)
  PROVE  LET c == calls[w] r == calls'[w] IN
         /\ Goes(w, "create", "reread") /\ r.row = c.row
         /\ accounts' = accounts /\ sessions' = sessions /\ tries' = tries
         /\ \E i \in Ids, f \in Row :
               /\ rows' = [rows EXCEPT ![i] = f]
               /\ f.name = c.name /\ f.enabled = c.enabled
               /\ f.role = IF c.kind = "user new" THEN "user" ELSE "reseller"
               /\ \/ /\ i \notin used /\ used' = used \cup {i} /\ Called(c.name) = {}
                     /\ f.reseller = NoId /\ f.failed = 0
                  \/ /\ rows[i].name = c.name /\ used' = used
                     /\ f.reseller = rows[i].reseller /\ f.failed = rows[i].failed
  <1> DEFINE c == calls[w]
             role == IF c.kind = "user new" THEN "user" ELSE "reseller"
  <1>1. c \in Call /\ \A i \in Ids : rows[i] \in Row
    BY DEF TypeOK
  <1>2. Goes(w, "create", "reread") /\ calls'[w].row = c.row
    BY GotoEffect DEF CreateRow, At, Steps, Goes
  <1>3. role \in {"user", "reseller"}
    OBVIOUS
  <1>4. \/ \E i \in Ids \ used :
              /\ Called(c.name) = {} /\ used' = used \cup {i}
              /\ rows' = [rows EXCEPT ![i] =
                     [NoRow EXCEPT !.name = c.name, !.role = role, !.enabled = c.enabled]]
        \/ \E i \in Called(c.name) :
              /\ used' = used
              /\ rows' = [rows EXCEPT ![i].role = role, ![i].enabled = c.enabled]
    BY DEF CreateRow
  <1> HIDE DEF role
  <1>5. ASSUME NEW i \in Ids \ used, Called(c.name) = {}, used' = used \cup {i},
               rows' = [rows EXCEPT ![i] =
                     [NoRow EXCEPT !.name = c.name, !.role = role, !.enabled = c.enabled]]
        PROVE  \E f \in Row :
                  /\ rows' = [rows EXCEPT ![i] = f]
                  /\ f.name = c.name /\ f.enabled = c.enabled /\ f.role = role
                  /\ f.reseller = NoId /\ f.failed = 0
    <2> DEFINE f == [NoRow EXCEPT !.name = c.name, !.role = role, !.enabled = c.enabled]
    <2>1. f \in Row /\ f.name = c.name /\ f.enabled = c.enabled /\ f.role = role
          /\ f.reseller = NoId /\ f.failed = 0
      BY <1>1, <1>3, NoRowType DEF NoRow, Row, Call
    <2>2. QED
      BY <1>5, <2>1
  <1>6. ASSUME NEW i \in Called(c.name), used' = used,
               rows' = [rows EXCEPT ![i].role = role, ![i].enabled = c.enabled]
        PROVE  \E f \in Row :
                  /\ rows' = [rows EXCEPT ![i] = f]
                  /\ f.name = c.name /\ f.enabled = c.enabled /\ f.role = role
                  /\ f.reseller = rows[i].reseller /\ f.failed = rows[i].failed
    <2> DEFINE f == [rows[i] EXCEPT !.role = role, !.enabled = c.enabled]
    <2>1. i \in Ids /\ rows[i].name = c.name
      BY DEF Called
    <2>2. f \in Row /\ f.name = c.name /\ f.enabled = c.enabled /\ f.role = role
          /\ f.reseller = rows[i].reseller /\ f.failed = rows[i].failed
      BY <1>1, <1>3, <2>1 DEF Row, Call
    <2>3. rows' = [rows EXCEPT ![i] = f]
      BY <1>6, <2>1 DEF TypeOK
    <2>4. QED
      BY <2>2, <2>3
  <1>7. accounts' = accounts /\ sessions' = sessions /\ tries' = tries
    BY DEF CreateRow
  <1>8. QED
    BY <1>2, <1>4, <1>5, <1>6, <1>7 DEF Called, role

LEMMA RereadEffect ==
  ASSUME TypeOK, NEW w \in Workers, Reread(w)
  PROVE  LET c == calls[w] r == calls'[w] IN
         /\ StepOf(w) /\ Keeps(r, c) /\ c.pc = "reread"
         /\ SameStore /\ accounts' = accounts /\ sessions' = sessions
         /\ \/ r.pc = "done" /\ r.ok = FALSE /\ r.id = c.id /\ r.row = c.row
            \/ r.pc = "done" /\ r.id = c.id /\ r.row = c.row /\ c.kind = "reseller new"
            \/ /\ r.pc = "save" /\ r.id \in Ids /\ rows[r.id].name = c.name
               /\ c.kind # "reseller new"
               /\ r.row \in Row /\ r.row.name = c.name /\ r.row.role = rows[r.id].role
               /\ r.row.enabled = c.enabled
               /\ c.owner # NoId => r.row.reseller = c.owner
  <1> DEFINE c == calls[w]
             Changed(f) == [f EXCEPT !.enabled = c.enabled,
                              !.reseller = IF c.owner = NoId THEN f.reseller
                                                             ELSE c.owner]
  <1>1. c \in Call /\ calls \in [Workers -> Call] /\ \A i \in Ids : rows[i] \in Row
    BY DEF TypeOK
  <1>2. c.pc = "reread" /\ SameStore /\ accounts' = accounts /\ sessions' = sessions
    BY DEF Reread, At, SameStore
  <1>3. CASE Called(c.name) = {}
    BY <1>2, <1>3, FinishEffect DEF Reread
  <1>4. CASE Called(c.name) # {} /\ c.kind = "reseller new"
    BY <1>2, <1>4, FinishEffect DEF Reread
  <1>5. CASE Called(c.name) # {} /\ c.kind # "reseller new"
    <2>1. PICK i \in Called(c.name) :
             calls' = [calls EXCEPT ![w].pc = "save", ![w].id = i,
                                    ![w].row = Changed(rows[i])]
      BY <1>5 DEF Reread
    <2> DEFINE f == Changed(rows[i])
               d == [c EXCEPT !.pc = "save", !.id = i, !.row = f]
    <2>2. i \in Ids /\ rows[i].name = c.name
      BY DEF Called
    <2>3. /\ f \in Row /\ f.name = c.name /\ f.role = rows[i].role
          /\ f.enabled = c.enabled /\ (c.owner # NoId => f.reseller = c.owner)
      BY <1>1, <2>2 DEF Row, Call
    <2> HIDE DEF f, Changed
    <2>4. d \in Call /\ Keeps(d, c) /\ d.pc = "save" /\ d.id = i /\ d.row = f
      BY <1>1, <2>2, <2>3 DEF Call, Keeps, Steps
    <2>5. calls' = [calls EXCEPT ![w] = d]
      BY <1>1, <2>1 DEF f
    <2> HIDE DEF d
    <2>6. StepOf(w) /\ calls'[w] = d
      BY <1>1, <2>4, <2>5 DEF StepOf
    <2>7. QED
      BY <1>2, <1>5, <2>2, <2>3, <2>4, <2>6
  <1>6. QED
    BY <1>3, <1>4, <1>5

LEMMA SaveEffect ==
  ASSUME TypeOK, NEW w \in Workers, Save(w)
  PROVE  LET c == calls[w] r == calls'[w] IN
         /\ StepOf(w) /\ Keeps(r, c) /\ c.pc = "save" /\ r.id = c.id
         /\ used' = used /\ accounts' = accounts /\ sessions' = sessions
         /\ \/ /\ Exists(c.id) /\ MayRefer(c.row.reseller)
               /\ rows' = [rows EXCEPT ![c.id] = c.row]
               /\ tries' = [tries EXCEPT ![c.id] = 0]
               /\ r.pc = Saved(c.kind)
            \/ /\ r.pc = "done" /\ r.ok = FALSE
               /\ rows' = rows /\ tries' = tries
  <1> DEFINE c == calls[w]
             b == Saved(c.kind) = "done"
             d == [c EXCEPT !.pc = Saved(c.kind), !.row = NoRow, !.ok = b]
  <1>1. c \in Call /\ calls \in [Workers -> Call]
    BY DEF TypeOK
  <1>2. /\ c.pc = "save"
        /\ used' = used /\ accounts' = accounts /\ sessions' = sessions
    BY DEF Save, At
  <1>3. CASE Exists(c.id) /\ MayRefer(c.row.reseller)
    <2>1. Saved(c.kind) \in Steps \cup {"done"} /\ b \in BOOLEAN
      BY DEF Saved, Steps
    <2> HIDE DEF b
    <2>2. d \in Call /\ Keeps(d, c) /\ d.pc = Saved(c.kind) /\ d.id = c.id
      BY <1>1, <2>1, NoRowType DEF Call, Keeps
    <2>3. /\ calls' = [calls EXCEPT ![w] = d]
          /\ rows' = [rows EXCEPT ![c.id] = c.row]
          /\ tries' = [tries EXCEPT ![c.id] = 0]
      BY <1>1, <1>3 DEF Save, b
    <2> HIDE DEF d
    <2>4. QED
      BY <1>1, <1>2, <1>3, <2>2, <2>3 DEF StepOf
  <1>4. CASE ~(Exists(c.id) /\ MayRefer(c.row.reseller))
    BY <1>2, <1>4, FinishEffect DEF Save
  <1>5. QED
    BY <1>3, <1>4

LEMMA CheckUsersEffect ==
  ASSUME TypeOK, NEW w \in Workers, CheckUsers(w)
  PROVE  LET r == calls'[w] IN
         /\ SameStore /\ accounts' = accounts /\ sessions' = sessions
         /\ \/ Goes(w, "users", "done") /\ r.ok = FALSE
            \/ Goes(w, "users", "delete")
  <1>1. SameStore /\ accounts' = accounts /\ sessions' = sessions
    BY DEF CheckUsers, SameStore
  <1>2. CASE Finish(w, FALSE)
    BY <1>1, <1>2, FinishEffect DEF CheckUsers, At, Goes
  <1>3. CASE Goto(w, "delete")
    BY <1>1, <1>3, GotoEffect DEF CheckUsers, At, Goes, Steps
  <1>4. QED
    BY <1>2, <1>3 DEF CheckUsers

LEMMA DeleteEffect ==
  ASSUME TypeOK, NEW w \in Workers, DeleteRow(w)
  PROVE  LET c == calls[w] r == calls'[w] IN
         /\ used' = used /\ accounts' = accounts /\ sessions' = sessions
         /\ \/ /\ Goes(w, "delete", "done") /\ r.ok = FALSE
               /\ rows' = rows /\ tries' = tries
            \/ /\ IF c.kind = "user delete" THEN Goes(w, "delete", "userdel")
                                            ELSE Goes(w, "delete", "done")
               /\ ~Referred(c.id)
               /\ rows' = [rows EXCEPT ![c.id] = NoRow]
               /\ tries' = [tries EXCEPT ![c.id] = 0]
  <1> DEFINE c == calls[w]
  <1>1. /\ c.pc = "delete"
        /\ used' = used /\ accounts' = accounts /\ sessions' = sessions
    BY DEF DeleteRow, At
  <1>2. ASSUME NEW ok \in BOOLEAN, Finish(w, ok)
        PROVE  Goes(w, "delete", "done") /\ calls'[w].ok = ok
    BY <1>1, <1>2, FinishEffect DEF Goes
  <1>3. ASSUME Goto(w, "userdel")
        PROVE  Goes(w, "delete", "userdel")
    BY <1>1, <1>3, GotoEffect DEF Goes, Steps
  <1>4. CASE Referred(c.id)
    BY <1>1, <1>2, <1>4 DEF DeleteRow
  <1>5. CASE ~Referred(c.id)
    BY <1>1, <1>2, <1>3, <1>5 DEF DeleteRow
  <1>6. QED
    BY <1>4, <1>5
\* A command: only the account of the handler's user changes, as asked when
\* nothing went wrong.
Commands(w, account) ==
    LET c == calls[w] r == calls'[w] IN
    /\ SameStore /\ sessions' = sessions /\ r.row = c.row
    /\ \A n \in Names : n # c.name => accounts'[n] = accounts[n]
    /\ c.name \in Names /\ r.clean => accounts'[c.name] = account
    /\ accounts' \in [Names -> Accounts]

LEMMA CommandStep ==
  ASSUME TypeOK, NEW w \in Workers, NEW account, NEW next \in Steps \cup {"done"},
         calls[w].name \in Names => account \in Accounts, Command(w, account, next)
  PROVE  Goes(w, calls[w].pc, next) /\ Commands(w, account)
  <1>1. /\ Goes(w, calls[w].pc, next) /\ SameStore /\ sessions' = sessions
        /\ calls'[w].row = calls[w].row
    BY CommandEffect DEF Goes, SameStore
  <1>2. accounts \in [Names -> Accounts]
    BY DEF TypeOK
  <1>3. /\ \E a \in {account, accounts[calls[w].name]} :
              accounts' = [accounts EXCEPT ![calls[w].name] = a]
        /\ calls'[w].clean => accounts' = [accounts EXCEPT ![calls[w].name] = account]
    BY CommandEffect
  <1>4. QED
    BY <1>1, <1>2, <1>3 DEF Commands

LEMMA UserAddEffect ==
  ASSUME TypeOK, NEW w \in Workers, UserAdd(w)
  PROVE  LET a == accounts[calls[w].name] IN
         /\ Goes(w, "useradd", "chpasswd")
         /\ Commands(w, IF a = "none" THEN "no password" ELSE a)
  <1> DEFINE a == accounts[calls[w].name]
             b == IF a = "none" THEN "no password" ELSE a
  <1>1. calls[w].pc = "useradd" /\ Command(w, b, "chpasswd")
    BY DEF UserAdd, At
  <1>2. calls[w].name \in Names => b \in Accounts
    BY DEF TypeOK, Accounts
  <1> HIDE DEF b
  <1>3. Goes(w, "useradd", "chpasswd") /\ Commands(w, b)
    BY <1>1, <1>2, CommandStep DEF Steps
  <1>4. QED
    BY <1>3 DEF b

LEMMA ChPasswdEffect ==
  ASSUME TypeOK, NEW w \in Workers, ChPasswd(w)
  PROVE  LET c == calls[w] IN
         /\ Goes(w, "chpasswd", IF c.kind = "user edit" THEN "save"
                                ELSE IF c.enabled THEN "done" ELSE "usermod")
         /\ Commands(w, IF accounts[c.name] = "none" THEN "none" ELSE "open")
  <1> DEFINE c == calls[w]
             b == IF accounts[c.name] = "none" THEN "none" ELSE "open"
             q == IF c.kind = "user edit" THEN "save"
                  ELSE IF c.enabled THEN "done" ELSE "usermod"
  <1>1. c.pc = "chpasswd" /\ Command(w, b, q)
    BY DEF ChPasswd, At
  <1>2. b \in Accounts /\ q \in Steps \cup {"done"}
    BY DEF Accounts, Steps
  <1> HIDE DEF b, q
  <1>3. Goes(w, "chpasswd", q) /\ Commands(w, b)
    BY <1>1, <1>2, CommandStep
  <1>4. QED
    BY <1>3 DEF b, q

LEMMA UserModEffect ==
  ASSUME TypeOK, NEW w \in Workers, UserMod(w)
  PROVE  LET c == calls[w] a == accounts[c.name] IN
         /\ Goes(w, "usermod", "done")
         /\ Commands(w, IF c.enabled /\ a = "locked" THEN "open"
                        ELSE IF ~c.enabled /\ a = "open" THEN "locked"
                        ELSE a)
  <1> DEFINE c == calls[w]
             a == accounts[c.name]
             b == IF c.enabled /\ a = "locked" THEN "open"
                  ELSE IF ~c.enabled /\ a = "open" THEN "locked" ELSE a
  <1>1. c.pc = "usermod" /\ Command(w, b, "done")
    BY DEF UserMod, At
  <1>2. c.name \in Names => b \in Accounts
    BY DEF TypeOK, Accounts
  <1> HIDE DEF b
  <1>3. Goes(w, "usermod", "done") /\ Commands(w, b)
    BY <1>1, <1>2, CommandStep
  <1>4. QED
    BY <1>3 DEF b

LEMMA UserDelEffect ==
  ASSUME TypeOK, NEW w \in Workers, UserDel(w)
  PROVE  Goes(w, "userdel", "done") /\ Commands(w, "none")
  BY CommandStep DEF UserDel, At, Accounts

LEMMA VerifyEffect ==
  ASSUME TypeOK, NEW w \in Workers, Verify(w)
  PROVE  LET c == calls[w] IN
         /\ rows' = rows /\ used' = used
         /\ accounts' = accounts /\ sessions' = sessions /\ calls'[w].row = c.row
         /\ \/ Goes(w, "verify", "session") /\ tries' = tries
            \/ /\ Goes(w, "verify", "count")
               /\ tries' = [tries EXCEPT ![c.id] = @ + 1]
  <1>1. calls[w].pc = "verify" /\ rows' = rows /\ used' = used
        /\ accounts' = accounts /\ sessions' = sessions
    BY DEF Verify, At
  <1>2. CASE Goto(w, "session") /\ tries' = tries
    BY <1>1, <1>2, GotoEffect DEF Goes, Steps
  <1>3. CASE Goto(w, "count") /\ tries' = [tries EXCEPT ![calls[w].id] = @ + 1]
    BY <1>1, <1>3, GotoEffect DEF Goes, Steps
  <1>4. QED
    BY <1>2, <1>3 DEF Verify

\* Only counters and locks of rows change.
Counters(i) ==
    \/ rows' = rows
    \/ \E f \in Row : rows' = [rows EXCEPT ![i] = f] /\ SameUser(f, rows[i])

LEMMA CountEffect ==
  ASSUME TypeOK, NEW w \in Workers, Count(w), calls[w].id \in Ids
  PROVE  LET c == calls[w] i == c.id IN
         /\ used' = used /\ tries' = tries
         /\ accounts' = accounts /\ sessions' = sessions /\ calls'[w].row = c.row
         /\ IF c.row.failed + 1 >= MaxAttempts THEN Goes(w, "count", "lock")
            ELSE Goes(w, "count", "done")
         /\ \/ ~(Exists(i) /\ rows[i].failed < MaxAttempts) /\ rows' = rows
            \/ /\ Exists(i) /\ rows[i].failed < MaxAttempts
               /\ \E f \in Row :
                     /\ rows' = [rows EXCEPT ![i] = f] /\ SameUser(f, rows[i])
                     /\ f.failed = rows[i].failed + 1
  <1> DEFINE c == calls[w]
             i == c.id
             f == [rows[i] EXCEPT !.failed = @ + 1]
  <1>1. c.pc = "count" /\ used' = used /\ tries' = tries
        /\ accounts' = accounts /\ sessions' = sessions
    BY DEF Count, At
  <1>2. rows \in [Ids -> Row] /\ rows[i] \in Row
    BY DEF TypeOK
  <1>3. /\ calls'[w].row = c.row
        /\ IF c.row.failed + 1 >= MaxAttempts THEN Goes(w, "count", "lock")
           ELSE Goes(w, "count", "done")
    <2>1. CASE c.row.failed + 1 >= MaxAttempts
      BY <1>1, <2>1, GotoEffect DEF Count, Goes, Steps
    <2>2. CASE ~(c.row.failed + 1 >= MaxAttempts)
      BY <1>1, <2>2, FinishEffect DEF Count, Goes
    <2>3. QED
      BY <2>1, <2>2
  <1>4. CASE ~(Exists(i) /\ rows[i].failed < MaxAttempts)
    BY <1>1, <1>3, <1>4 DEF Count
  <1>5. CASE Exists(i) /\ rows[i].failed < MaxAttempts
    <2>1. rows' = [rows EXCEPT ![i] = f]
      BY <1>2, <1>5 DEF Count
    <2>2. f \in Row /\ SameUser(f, rows[i]) /\ f.failed = rows[i].failed + 1
      BY <1>2, <1>5 DEF Row, SameUser, MaxAttempts
    <2> HIDE DEF f
    <2>3. QED
      BY <1>1, <1>3, <1>5, <2>1, <2>2
  <1>6. QED
    BY <1>4, <1>5

LEMMA LockEffect ==
  ASSUME TypeOK, NEW w \in Workers, Lock(w), calls[w].id \in Ids
  PROVE  LET i == calls[w].id IN
         /\ used' = used /\ accounts' = accounts /\ sessions' = sessions
         /\ Goes(w, "lock", "done") /\ Counters(i)
         /\ tries' = [tries EXCEPT ![i] = 0]
  <1> DEFINE i == calls[w].id
             f == [rows[i] EXCEPT !.locked = TRUE]
  <1>1. /\ used' = used /\ accounts' = accounts /\ sessions' = sessions
        /\ tries' = [tries EXCEPT ![i] = 0] /\ Goes(w, "lock", "done")
    BY FinishEffect DEF Lock, At, Goes
  <1>2. rows \in [Ids -> Row] /\ rows[i] \in Row
    BY DEF TypeOK
  <1>3. f \in Row /\ SameUser(f, rows[i])
    BY <1>2 DEF Row, SameUser
  <1>4. rows' = rows \/ rows' = [rows EXCEPT ![i] = f]
    BY <1>2 DEF Lock
  <1> HIDE DEF f
  <1>5. QED
    BY <1>1, <1>3, <1>4 DEF Counters

LEMMA NewSessionEffect ==
  ASSUME TypeOK, NEW w \in Workers, NewSession(w), calls[w].id \in Ids
  PROVE  /\ SameStore /\ accounts' = accounts /\ sessions' \subseteq Ids
         /\ Goes(w, "session", "reset")
  BY GotoEffect DEF NewSession, At, Goes, SameStore, TypeOK, Steps

LEMMA ResetEffect ==
  ASSUME TypeOK, NEW w \in Workers, Reset(w), calls[w].id \in Ids
  PROVE  LET i == calls[w].id IN
         /\ used' = used /\ accounts' = accounts /\ sessions' = sessions
         /\ Goes(w, "reset", "done") /\ Counters(i)
         /\ tries' = [tries EXCEPT ![i] = 0]
  <1> DEFINE i == calls[w].id
             f == [rows[i] EXCEPT !.failed = 0, !.locked = FALSE]
  <1>1. /\ used' = used /\ accounts' = accounts /\ sessions' = sessions
        /\ tries' = [tries EXCEPT ![i] = 0] /\ Goes(w, "reset", "done")
    BY FinishEffect DEF Reset, At, Goes
  <1>2. rows \in [Ids -> Row] /\ rows[i] \in Row
    BY DEF TypeOK
  <1>3. f \in Row /\ SameUser(f, rows[i])
    <2>1. 0 \in 0 .. MaxAttempts
      BY DEF MaxAttempts
    <2>2. /\ f \in Row /\ f.name = rows[i].name /\ f.role = rows[i].role
          /\ f.enabled = rows[i].enabled /\ f.reseller = rows[i].reseller
      BY <1>2, <2>1 DEF Row
    <2> HIDE DEF f
    <2>3. QED
      BY <2>2 DEF SameUser
  <1>4. rows' = rows \/ rows' = [rows EXCEPT ![i] = f]
    BY <1>2 DEF Reset
  <1> HIDE DEF f
  <1>5. QED
    BY <1>1, <1>3, <1>4 DEF Counters

LEMMA ExpireEffect ==
  ASSUME TypeOK, LockExpires
  PROVE  /\ used' = used /\ accounts' = accounts /\ sessions' = sessions
         /\ tries' = tries /\ calls' = calls
         /\ \E i \in Ids, f \in Row :
               /\ rows' = [rows EXCEPT ![i] = f] /\ SameUser(f, rows[i])
               /\ f.failed = rows[i].failed
  <1>1. PICK i \in Ids : rows' = [rows EXCEPT ![i].locked = FALSE]
    BY DEF LockExpires
  <1> DEFINE f == [rows[i] EXCEPT !.locked = FALSE]
  <1>2. rows \in [Ids -> Row] /\ rows[i] \in Row
    BY DEF TypeOK
  <1>3. f \in Row /\ SameUser(f, rows[i]) /\ f.failed = rows[i].failed
    BY <1>2 DEF Row, SameUser
  <1>4. rows' = [rows EXCEPT ![i] = f]
    BY <1>1, <1>2
  <1> HIDE DEF f
  <1>5. QED
    BY <1>3, <1>4 DEF LockExpires

LEMMA ReturnEffect ==
  ASSUME TypeOK, NEW w \in Workers, Return(w)
  PROVE  /\ StepOf(w) /\ calls[w].pc = "done" /\ calls'[w] = NoCall
         /\ SameStore /\ accounts' = accounts /\ sessions' = sessions
  BY NoCallType DEF Return, At, StepOf, SameStore, TypeOK

-----------------------------------------------------------------------------
(* Types, names and ids *)

\* c has a copy of its row that it is going to save.
HasCopy(c) == c.pc = "save" \/ (c.pc = "chpasswd" /\ c.kind = "user edit")

\* The handler c is at a step of its kind, with what the step needs.
Fits(c) ==
    /\ c.pc = "idle" => c.name = NoName /\ c.kind = "" /\ ~c.clean
    /\ c.pc # "idle" => c.name \in Names /\ c.kind # ""
    /\ c.pc \in {"create", "reread"} => c.kind \in {"user new", "reseller new"}
    /\ c.pc = "save" => c.kind \in {"user new", "user edit", "reseller edit"}
    /\ c.pc = "users" => c.kind = "reseller delete"
    /\ c.pc = "delete" => c.kind \in {"user delete", "reseller delete"}
    /\ c.pc = "useradd" => c.kind = "user new"
    /\ c.pc \in {"chpasswd", "usermod"} => c.kind \in {"user new", "user edit"}
    /\ c.pc = "userdel" => c.kind = "user delete"
    /\ c.pc \in {"verify", "count", "lock", "session", "reset"} => c.kind = "login"
    /\ c.kind = "login" => c.pc \in {"verify", "count", "lock", "session", "reset", "done"}
    /\ c.pc \notin {"idle", "create", "reread", "done"} => c.id \in Ids
    /\ HasCopy(c) => c.row.name = c.name

\* The row c is about was given out, and has the name c was asked for as long as
\* it exists; u are the ids given out, t the rows.
Knows(c, u, t) ==
    /\ c.id \in u \cup {NoId}
    /\ c.id # NoId /\ t[c.id].name # NoName => t[c.id].name = c.name

\* Ids are given out before rows have them, and no two rows share a name.
RowsInv ==
    /\ \A i \in Ids : Exists(i) => i \in used
    /\ \A i, j \in Ids : Exists(i) /\ rows[i].name = rows[j].name => i = j

CallsInv == \A w \in Workers : Fits(calls[w]) /\ Knows(calls[w], used, rows)

BaseInv == TypeOK /\ RowsInv /\ CallsInv

\* A name is for life: no step gives another one to an id that was given out.
Lasting ==
    /\ used \subseteq used'
    /\ \A i \in used : rows'[i].name # NoName => rows'[i].name = rows[i].name

LEMMA KnowsStill ==
  ASSUME NEW c, NEW r, r.id = c.id, r.name = c.name, Knows(c, used, rows), Lasting
  PROVE  Knows(r, used', rows')
  BY DEF Knows, Lasting

LEMMA SameStoreLasts == SameStore => Lasting /\ (RowsInv => RowsInv')
  BY DEF SameStore, Lasting, RowsInv, Exists

LEMMA CountersLast ==
  ASSUME TypeOK, NEW i \in Ids, Counters(i), used' = used
  PROVE  /\ Lasting /\ (RowsInv => RowsInv') /\ rows' \in [Ids -> Row]
         /\ \A j \in Ids : SameUser(rows'[j], rows[j])
  <1>1. \A j \in Ids : SameUser(rows'[j], rows[j])
    BY DEF Counters, SameUser, TypeOK
  <1>2. rows' \in [Ids -> Row]
    BY DEF Counters, TypeOK
  <1>3. QED
    BY <1>1, <1>2 DEF Lasting, RowsInv, Exists, SameUser, TypeOK

\* The parts of the invariant that a step of w has to establish.
LEMMA BaseOfStep ==
  ASSUME BaseInv, NEW w \in Workers, StepOf(w), Keeps(calls'[w], calls[w]),
         calls'[w].id = calls[w].id, Fits(calls'[w]), Lasting
  PROVE  CallsInv'
  <1>1. ASSUME NEW v \in Workers
        PROVE  Fits(calls'[v]) /\ Knows(calls'[v], used', rows')
    <2>1. Fits(calls[v]) /\ Knows(calls[v], used, rows)
      BY DEF BaseInv, CallsInv
    <2>2. CASE v = w
      BY <2>1, <2>2, KnowsStill DEF Keeps
    <2>3. CASE v # w
      BY <2>1, <2>3, KnowsStill DEF StepOf
    <2>4. QED
      BY <2>2, <2>3
  <1>2. QED
    BY <1>1 DEF CallsInv

LEMMA FitsNoCall == Fits(NoCall) /\ \A u, t : Knows(NoCall, u, t)
  BY NoCallFields DEF Fits, HasCopy, Knows

LEMMA RequestBase ==
  ASSUME BaseInv, NEW w \in Workers, Request(w)
  PROVE  BaseInv'
  <1>1. PICK c : Asks(c) /\ Begin(w, c)
    BY RequestBegins DEF BaseInv
  <1>2. UNCHANGED <<rows, used, accounts, sessions, tries>>
    BY RequestBegins DEF BaseInv
  <1>3. c \in Call /\ c.clean = FALSE
    BY <1>1 DEF Asks
  <1>4. /\ calls' \in [Workers -> Call]
        /\ calls'[w].pc = c.pc /\ calls'[w].kind = c.kind /\ calls'[w].name = c.name
        /\ calls'[w].id = c.id /\ calls'[w].row = c.row
        /\ \A v \in Workers : v # w => Kept(calls'[v], calls[v])
    BY <1>1, <1>3, BeginEffect DEF BaseInv
  <1>5. TypeOK'
    BY <1>2, <1>4 DEF BaseInv, TypeOK
  <1>6. RowsInv'
    BY <1>2 DEF BaseInv, RowsInv, Exists
  <1>7. Fits(calls'[w])
    BY <1>1, <1>4 DEF Asks, About, EditsCopy, Fits, HasCopy
  <1>8. Knows(calls'[w], used, rows)
    BY <1>1, <1>4, PanelAssumption DEF Asks, About, BaseInv, RowsInv, Exists, Knows
  <1>9. ASSUME NEW v \in Workers, v # w
        PROVE  Fits(calls'[v]) /\ Knows(calls'[v], used, rows)
    <2>1. Fits(calls[v]) /\ Knows(calls[v], used, rows) /\ Kept(calls'[v], calls[v])
      BY <1>4, <1>9 DEF BaseInv, CallsInv
    <2>2. Knows(calls'[v], used, rows)
      BY <2>1 DEF Knows, Kept
    <2>3. Fits(calls'[v])
      BY <2>1 DEF Fits, Kept, HasCopy
    <2>4. QED
      BY <2>2, <2>3
  <1>10. QED
    BY <1>2, <1>5, <1>6, <1>7, <1>8, <1>9 DEF BaseInv, CallsInv

LEMMA CreateBase ==
  ASSUME BaseInv, NEW w \in Workers, CreateRow(w)
  PROVE  BaseInv'
  <1> DEFINE c == calls[w]
  <1>1. /\ Goes(w, "create", "reread") /\ calls'[w].row = c.row
        /\ accounts' = accounts /\ sessions' = sessions /\ tries' = tries
    BY CreateEffect DEF BaseInv
  <1>2. PICK i \in Ids, f \in Row :
           /\ rows' = [rows EXCEPT ![i] = f] /\ f.name = c.name
           /\ \/ /\ i \notin used /\ used' = used \cup {i} /\ Called(c.name) = {}
              \/ /\ rows[i].name = c.name /\ used' = used
    BY CreateEffect DEF BaseInv
  <1>3. rows \in [Ids -> Row] /\ used \subseteq Ids
    BY DEF BaseInv, TypeOK
  <1>4. TypeOK'
    BY <1>1, <1>2, <1>3 DEF BaseInv, TypeOK, Goes, StepOf
  <1>5. Fits(c) /\ c.name \in Names /\ c.name # NoName
    BY <1>1, PanelAssumption DEF BaseInv, CallsInv, Fits, Goes
  <1>6. RowsInv'
    <2>1. \A j \in Ids : j # i => rows'[j] = rows[j]
      BY <1>2, <1>3
    <2>2. rows'[i].name = c.name
      BY <1>2, <1>3
    <2>3. \A j \in Ids : j # i => rows[j].name # c.name
      BY <1>2, <1>5 DEF Called, BaseInv, RowsInv, Exists
    <2>4. i \in used' /\ used \subseteq used'
      BY <1>2, <1>5 DEF BaseInv, RowsInv, Exists
    <2>5. QED
      BY <2>1, <2>2, <2>3, <2>4 DEF BaseInv, RowsInv, Exists
  <1>7. Lasting
    BY <1>2, <1>3 DEF Lasting
  <1>8. Fits(calls'[w])
    BY <1>1, <1>5 DEF Fits, Goes, Keeps, HasCopy
  <1>9. CallsInv'
    BY <1>1, <1>7, <1>8, BaseOfStep DEF Goes
  <1>10. QED
    BY <1>4, <1>6, <1>9 DEF BaseInv

LEMMA RereadBase ==
  ASSUME BaseInv, NEW w \in Workers, Reread(w)
  PROVE  BaseInv'
  <1> DEFINE c == calls[w]
             r == calls'[w]
  <1>1. /\ StepOf(w) /\ Keeps(r, c) /\ c.pc = "reread" /\ SameStore
        /\ accounts' = accounts /\ sessions' = sessions
        /\ \/ r.pc = "done" /\ r.id = c.id
           \/ /\ r.pc = "save" /\ r.id \in Ids /\ rows[r.id].name = c.name
              /\ c.kind # "reseller new" /\ r.row.name = c.name
    BY RereadEffect DEF BaseInv
  <1>2. TypeOK'
    BY <1>1 DEF BaseInv, TypeOK, StepOf, SameStore
  <1>3. Lasting /\ RowsInv'
    BY <1>1, SameStoreLasts DEF BaseInv
  <1>4. Fits(c) /\ Knows(c, used, rows)
    BY DEF BaseInv, CallsInv
  <1>5. Fits(r)
    BY <1>1, <1>4 DEF Fits, Keeps, HasCopy
  <1>6. Knows(r, used', rows')
    <2>1. CASE r.id = c.id
      BY <1>1, <1>3, <1>4, <2>1, KnowsStill DEF Keeps
    <2>2. CASE r.id \in Ids /\ rows[r.id].name = c.name /\ r.row.name = c.name
               /\ r.pc = "save"
      <3>1. c.name # NoName /\ r.name = c.name
        BY <1>1, <1>4, PanelAssumption DEF Fits, Keeps
      <3>2. r.id \in used
        BY <2>2, <3>1 DEF BaseInv, RowsInv, Exists
      <3>3. QED
        BY <1>1, <2>2, <3>1, <3>2 DEF Knows, SameStore
    <2>3. QED
      BY <1>1, <2>1, <2>2
  <1>7. ASSUME NEW v \in Workers, v # w
        PROVE  Fits(calls'[v]) /\ Knows(calls'[v], used', rows')
    BY <1>1, <1>3, <1>7, KnowsStill DEF BaseInv, CallsInv, StepOf
  <1>8. QED
    BY <1>2, <1>3, <1>5, <1>6, <1>7 DEF BaseInv, CallsInv

LEMMA SaveBase ==
  ASSUME BaseInv, NEW w \in Workers, Save(w)
  PROVE  BaseInv'
  <1> DEFINE c == calls[w]
             r == calls'[w]
  <1>1. /\ StepOf(w) /\ Keeps(r, c) /\ c.pc = "save" /\ r.id = c.id
        /\ used' = used /\ accounts' = accounts /\ sessions' = sessions
        /\ \/ /\ Exists(c.id)
              /\ rows' = [rows EXCEPT ![c.id] = c.row]
              /\ tries' = [tries EXCEPT ![c.id] = 0]
              /\ r.pc = Saved(c.kind)
           \/ r.pc = "done" /\ rows' = rows /\ tries' = tries
    BY SaveEffect DEF BaseInv
  <1>2. /\ Fits(c) /\ Knows(c, used, rows) /\ c \in Call
        /\ rows \in [Ids -> Row] /\ used \subseteq Ids /\ tries \in [Ids -> Nat]
    BY DEF BaseInv, CallsInv, TypeOK
  <1>3. c.id \in Ids /\ c.id # NoId /\ c.row \in Row /\ c.row.name = c.name
    BY <1>1, <1>2, PanelAssumption DEF Fits, HasCopy, Call
  <1>4. \A i \in Ids : rows'[i].name = rows[i].name
    BY <1>1, <1>2, <1>3 DEF Exists, Knows
  <1>5. Lasting /\ RowsInv'
    BY <1>1, <1>2, <1>4 DEF BaseInv, RowsInv, Exists, Lasting
  <1>6. TypeOK'
    <2>1. rows' \in [Ids -> Row] /\ tries' \in [Ids -> Nat]
      BY <1>1, <1>2, <1>3
    <2>2. QED
      BY <1>1, <2>1 DEF BaseInv, TypeOK, StepOf
  <1>7. Fits(r)
    BY <1>1, <1>2, <1>3 DEF Fits, Keeps, HasCopy, Saved
  <1>8. QED
    BY <1>1, <1>5, <1>6, <1>7, BaseOfStep DEF BaseInv

LEMMA DeleteBase ==
  ASSUME BaseInv, NEW w \in Workers, DeleteRow(w)
  PROVE  BaseInv'
  <1> DEFINE c == calls[w]
             r == calls'[w]
  <1>1. /\ StepOf(w) /\ Keeps(r, c) /\ c.pc = "delete" /\ r.id = c.id
        /\ used' = used /\ accounts' = accounts /\ sessions' = sessions
        /\ \/ r.pc = "done"
           \/ r.pc = "userdel" /\ c.kind = "user delete"
        /\ \/ rows' = rows /\ tries' = tries
           \/ /\ rows' = [rows EXCEPT ![c.id] = NoRow]
              /\ tries' = [tries EXCEPT ![c.id] = 0]
    BY DeleteEffect DEF BaseInv, Goes
  <1>2. /\ Fits(c) /\ Knows(c, used, rows)
        /\ rows \in [Ids -> Row] /\ used \subseteq Ids /\ tries \in [Ids -> Nat]
    BY DEF BaseInv, CallsInv, TypeOK
  <1>3. NoRow \in Row /\ NoRow.name = NoName
    BY NoRowType DEF NoRow
  <1>4. c.id \in Ids
    BY <1>1, <1>2 DEF Fits
  <1>5. /\ \A i \in Ids : \/ rows'[i].name = NoName
                         \/ rows'[i].name = rows[i].name
        /\ rows' \in [Ids -> Row] /\ tries' \in [Ids -> Nat]
    <2>1. CASE rows' = rows /\ tries' = tries
      BY <1>2, <2>1
    <2>2. CASE /\ rows' = [rows EXCEPT ![c.id] = NoRow]
               /\ tries' = [tries EXCEPT ![c.id] = 0]
      <3>1. \A i \in Ids : rows'[i] = IF i = c.id THEN NoRow ELSE rows[i]
        BY <1>2, <1>4, <2>2
      <3>2. QED
        BY <1>2, <1>3, <1>4, <2>2, <3>1
    <2>3. QED
      BY <1>1, <2>1, <2>2
  <1>6. Lasting /\ RowsInv'
    <2>1. Lasting
      BY <1>1, <1>2, <1>5 DEF Lasting
    <2>2. \A i \in Ids : Exists(i)' => Exists(i) /\ rows'[i].name = rows[i].name
      BY <1>5 DEF Exists
    <2>3. \A i, j \in Ids : Exists(i)' /\ rows'[i].name = rows'[j].name => Exists(j)'
      BY DEF Exists
    <2>4. RowsInv
      BY DEF BaseInv
    <2>5. RowsInv'
      <3>1. \A i \in Ids : Exists(i)' => i \in used'
        BY <1>1, <2>2, <2>4 DEF RowsInv
      <3>2. \A i, j \in Ids : Exists(i)' /\ rows'[i].name = rows'[j].name => i = j
        BY <2>2, <2>3, <2>4 DEF RowsInv
      <3>3. QED
        BY <3>1, <3>2 DEF RowsInv
    <2>6. QED
      BY <2>1, <2>5
  <1>7. TypeOK'
    <2>1. rows' \in [Ids -> Row] /\ tries' \in [Ids -> Nat]
      BY <1>5
    <2>2. QED
      BY <1>1, <2>1 DEF BaseInv, TypeOK, StepOf
  <1>8. Fits(r)
    BY <1>1, <1>2 DEF Fits, Keeps, HasCopy
  <1>9. QED
    BY <1>1, <1>6, <1>7, <1>8, BaseOfStep DEF BaseInv

LEMMA CommandBase ==
  ASSUME BaseInv, NEW w \in Workers, UserAdd(w) \/ ChPasswd(w) \/ UserMod(w) \/ UserDel(w)
  PROVE  BaseInv'
  <1> DEFINE c == calls[w]
             r == calls'[w]
  <1>1. /\ StepOf(w) /\ Keeps(r, c) /\ r.id = c.id /\ r.row = c.row
        /\ SameStore /\ sessions' = sessions /\ accounts' \in [Names -> Accounts]
        /\ \/ c.pc = "useradd" /\ r.pc = "chpasswd"
           \/ c.pc = "chpasswd" /\ c.kind = "user edit" /\ r.pc = "save"
           \/ c.pc = "chpasswd" /\ c.kind # "user edit" /\ r.pc \in {"done", "usermod"}
           \/ c.pc \in {"usermod", "userdel"} /\ r.pc = "done"
    <2>1. TypeOK
      BY DEF BaseInv
    <2>2. CASE UserAdd(w)
      BY <2>1, <2>2, UserAddEffect DEF Goes, Commands
    <2>3. CASE ChPasswd(w)
      <3>1. /\ \E q : Goes(w, "chpasswd", q)
            /\ \E b : Commands(w, b)
        BY <2>1, <2>3, ChPasswdEffect
      <3>2. \/ c.kind = "user edit" /\ r.pc = "save"
            \/ c.kind # "user edit" /\ r.pc \in {"done", "usermod"}
        BY <2>1, <2>3, ChPasswdEffect DEF Goes
      <3>3. QED
        BY <3>1, <3>2 DEF Goes, Commands
    <2>4. CASE UserMod(w)
      <3>1. Goes(w, "usermod", "done") /\ \E b : Commands(w, b)
        BY <2>1, <2>4, UserModEffect
      <3>2. QED
        BY <3>1 DEF Goes, Commands
    <2>5. CASE UserDel(w)
      BY <2>1, <2>5, UserDelEffect DEF Goes, Commands
    <2>6. QED
      BY <2>2, <2>3, <2>4, <2>5
  <1>2. TypeOK'
    BY <1>1 DEF BaseInv, TypeOK, StepOf, SameStore
  <1>3. Lasting /\ RowsInv'
    BY <1>1, SameStoreLasts DEF BaseInv
  <1>4. Fits(c)
    BY DEF BaseInv, CallsInv
  <1>5. Fits(r)
    BY <1>1, <1>4 DEF Fits, Keeps, HasCopy
  <1>6. QED
    BY <1>1, <1>2, <1>3, <1>5, BaseOfStep DEF BaseInv

LEMMA LoginBase ==
  ASSUME BaseInv, NEW w \in Workers,
         Verify(w) \/ Count(w) \/ Lock(w) \/ NewSession(w) \/ Reset(w)
  PROVE  BaseInv'
  <1> DEFINE c == calls[w]
             r == calls'[w]
  <1>1. Fits(c) /\ TypeOK
    BY DEF BaseInv, CallsInv
  <1>2. c.pc \in {"verify", "count", "lock", "session", "reset"} /\ c.id \in Ids
        /\ c.kind = "login"
    BY <1>1 DEF Verify, Count, Lock, NewSession, Reset, At, Fits
  <1>3. tries[c.id] \in Nat /\ tries \in [Ids -> Nat]
    BY <1>1, <1>2 DEF TypeOK
  <1>4. /\ StepOf(w) /\ Keeps(r, c) /\ r.id = c.id
        /\ r.pc \in {"count", "lock", "session", "reset", "done"}
        /\ Counters(c.id) /\ used' = used /\ accounts' = accounts
        /\ sessions' \subseteq Ids /\ tries' \in [Ids -> Nat]
    <2>1. CASE Verify(w)
      BY <1>1, <1>3, <2>1, VerifyEffect DEF Goes, Counters, TypeOK
    <2>2. CASE Count(w)
      <3>1. Goes(w, "count", "lock") \/ Goes(w, "count", "done")
        BY <1>1, <1>2, <2>2, CountEffect
      <3>2. Counters(c.id) /\ used' = used /\ accounts' = accounts
            /\ sessions' = sessions /\ tries' = tries
        BY <1>1, <1>2, <2>2, CountEffect DEF Counters
      <3>3. QED
        BY <1>1, <1>3, <3>1, <3>2 DEF Goes, TypeOK
    <2>3. CASE Lock(w)
      BY <1>1, <1>2, <1>3, <2>3, LockEffect DEF Goes, TypeOK
    <2>4. CASE NewSession(w)
      BY <1>1, <1>2, <1>3, <2>4, NewSessionEffect DEF Goes, SameStore, Counters
    <2>5. CASE Reset(w)
      BY <1>1, <1>2, <1>3, <2>5, ResetEffect DEF Goes, TypeOK
    <2>6. QED
      BY <2>1, <2>2, <2>3, <2>4, <2>5
  <1>5. Lasting /\ RowsInv' /\ rows' \in [Ids -> Row]
    BY <1>2, <1>4, CountersLast DEF BaseInv
  <1>6. TypeOK'
    BY <1>4, <1>5 DEF BaseInv, TypeOK, StepOf
  <1>7. Fits(r)
    BY <1>1, <1>2, <1>4 DEF Fits, Keeps, HasCopy
  <1>8. QED
    BY <1>4, <1>5, <1>6, <1>7, BaseOfStep DEF BaseInv

LEMMA OtherBase ==
  ASSUME BaseInv, \/ \E w \in Workers : CheckUsers(w) \/ Return(w)
                  \/ LockExpires \/ EndSession \/ UNCHANGED vars
  PROVE  BaseInv'
  <1>1. ASSUME NEW w \in Workers, CheckUsers(w)
        PROVE  BaseInv'
    <2>1. /\ SameStore /\ accounts' = accounts /\ sessions' = sessions
          /\ Goes(w, "users", "done") \/ Goes(w, "users", "delete")
      BY <1>1, CheckUsersEffect DEF BaseInv
    <2>2. TypeOK'
      BY <2>1 DEF BaseInv, TypeOK, SameStore, Goes, StepOf
    <2>3. Fits(calls'[w])
      BY <2>1 DEF BaseInv, CallsInv, Fits, Goes, Keeps, HasCopy
    <2>4. Lasting /\ RowsInv'
      BY <2>1, SameStoreLasts DEF BaseInv
    <2>5. QED
      BY <2>1, <2>2, <2>3, <2>4, BaseOfStep DEF BaseInv, Goes
  <1>2. ASSUME NEW w \in Workers, Return(w)
        PROVE  BaseInv'
    <2>1. /\ StepOf(w) /\ calls'[w] = NoCall
          /\ SameStore /\ accounts' = accounts /\ sessions' = sessions
      BY <1>2, ReturnEffect DEF BaseInv
    <2>2. TypeOK'
      BY <2>1 DEF BaseInv, TypeOK, SameStore, StepOf
    <2>3. RowsInv'
      BY <2>1, SameStoreLasts DEF BaseInv
    <2>4. CallsInv'
      BY <2>1, FitsNoCall DEF BaseInv, CallsInv, StepOf, SameStore
    <2>5. QED
      BY <2>2, <2>3, <2>4 DEF BaseInv
  <1>3. ASSUME UNCHANGED <<used, accounts, calls, tries>>, sessions' \subseteq Ids,
               rows' \in [Ids -> Row], Lasting, RowsInv'
        PROVE  BaseInv'
    <2>1. TypeOK'
      BY <1>3 DEF BaseInv, TypeOK
    <2>2. CallsInv'
      BY <1>3, KnowsStill DEF BaseInv, CallsInv
    <2>3. QED
      BY <1>3, <2>1, <2>2 DEF BaseInv
  <1>4. CASE LockExpires
    <2>1. PICK i \in Ids : Counters(i)
      BY <1>4, ExpireEffect DEF BaseInv, Counters
    <2>2. /\ UNCHANGED <<used, accounts, calls, tries>> /\ sessions' \subseteq Ids
      BY <1>4, ExpireEffect DEF BaseInv, TypeOK
    <2>3. QED
      BY <1>3, <2>1, <2>2, CountersLast DEF BaseInv
  <1>5. CASE EndSession \/ UNCHANGED vars
    <2>1. UNCHANGED <<rows, used, accounts, calls, tries>> /\ sessions' \subseteq Ids
      BY <1>5 DEF EndSession, vars, BaseInv, TypeOK
    <2>2. QED
      BY <1>3, <2>1, SameStoreLasts DEF BaseInv, TypeOK, SameStore
  <1>6. QED
    BY <1>1, <1>2, <1>4, <1>5

LEMMA BaseInit == Init => BaseInv
  <1> SUFFICES ASSUME Init PROVE BaseInv
    OBVIOUS
  <1>1. TypeOK
    BY NoRowType, NoCallType DEF Init, TypeOK, Accounts
  <1>2. RowsInv
    BY DEF Init, RowsInv, Exists, NoRow
  <1>3. CallsInv
    BY FitsNoCall DEF Init, CallsInv
  <1>4. QED
    BY <1>1, <1>2, <1>3 DEF BaseInv

LEMMA BaseStep == BaseInv /\ [Next]_vars => BaseInv'
  BY RequestBase, CreateBase, RereadBase, SaveBase, DeleteBase, CommandBase,
     LoginBase, OtherBase DEF Next, Step

LEMMA BaseHolds == Spec => []BaseInv
  BY BaseInit, BaseStep, PTL DEF Spec

\* Every variable always has its type.
THEOREM TypeCorrect == Spec => []TypeOK
  <1>1. BaseInv => TypeOK
    BY DEF BaseInv
  <1>2. QED
    BY <1>1, BaseHolds, PTL

-----------------------------------------------------------------------------
(* Owners *)

\* A step that writes no row does not touch what a row says of its user.
SameUsers == \A j \in Ids : SameUser(rows'[j], rows[j])

LEMMA CountersKeepUsers ==
  ASSUME BaseInv, NEW w \in Workers,
         Verify(w) \/ Count(w) \/ Lock(w) \/ NewSession(w) \/ Reset(w)
  PROVE  calls[w].kind = "login" /\ calls[w].id \in Ids /\ Counters(calls[w].id)
         /\ used' = used /\ accounts' = accounts
  <1>1. Fits(calls[w]) /\ TypeOK
    BY DEF BaseInv, CallsInv
  <1>2. calls[w].kind = "login" /\ calls[w].id \in Ids
    BY <1>1 DEF Verify, Count, Lock, NewSession, Reset, At, Fits
  <1>3. CASE Verify(w)
    BY <1>1, <1>2, <1>3, VerifyEffect DEF Counters
  <1>4. CASE Count(w)
    BY <1>1, <1>2, <1>4, CountEffect DEF Counters
  <1>5. CASE Lock(w)
    BY <1>1, <1>2, <1>5, LockEffect
  <1>6. CASE NewSession(w)
    BY <1>1, <1>2, <1>6, NewSessionEffect DEF Counters, SameStore
  <1>7. CASE Reset(w)
    BY <1>1, <1>2, <1>7, ResetEffect
  <1>8. QED
    BY <1>2, <1>3, <1>4, <1>5, <1>6, <1>7

LEMMA QuietSteps ==
  ASSUME BaseInv, [Next]_vars,
         \A w \in Workers : ~CreateRow(w) /\ ~Save(w) /\ ~DeleteRow(w)
  PROVE  SameUsers
  <1>1. rows' = rows => SameUsers
    BY DEF SameUsers, SameUser
  <1>2. ASSUME NEW w \in Workers, Step(w)
        PROVE  SameUsers
    <2>1. CASE Reread(w) \/ CheckUsers(w)
      BY <1>1, <2>1 DEF Reread, CheckUsers
    <2>2. CASE UserAdd(w) \/ ChPasswd(w) \/ UserMod(w) \/ UserDel(w)
      BY <1>1, <2>2 DEF UserAdd, ChPasswd, UserMod, UserDel, Command
    <2>3. CASE Verify(w) \/ Count(w) \/ Lock(w) \/ NewSession(w) \/ Reset(w)
      BY <2>3, CountersKeepUsers, CountersLast DEF BaseInv, SameUsers
    <2>4. QED
      BY <1>2, <2>1, <2>2, <2>3 DEF Step
  <1>3. CASE LockExpires
    <2>1. /\ used' = used
          /\ \E i \in Ids : Counters(i)
      BY <1>3, ExpireEffect DEF BaseInv, Counters
    <2>2. QED
      BY <2>1, CountersLast DEF BaseInv, SameUsers
  <1>4. ASSUME NEW w \in Workers, Request(w) \/ Return(w)
        PROVE  SameUsers
    BY <1>1, <1>4 DEF Request, Return
  <1>5. CASE EndSession \/ UNCHANGED vars
    BY <1>1, <1>5 DEF EndSession, vars
  <1>6. QED
    BY <1>2, <1>3, <1>4, <1>5 DEF Next

LEMMA OwnersStep ==
  ASSUME BaseInv, OwnersExist, [Next]_vars
  PROVE  OwnersExist'
  <1>1. /\ rows \in [Ids -> Row]
        /\ \A i \in Ids : rows[i].name # NoName /\ rows[i].reseller # NoId =>
                             rows[rows[i].reseller].name # NoName
    BY DEF OwnersExist, MayRefer, Exists, BaseInv, TypeOK
  <1>2. SUFFICES \A i \in Ids : rows'[i].name # NoName /\ rows'[i].reseller # NoId =>
                                   rows'[rows'[i].reseller].name # NoName
    BY DEF OwnersExist, MayRefer, Exists
  <1>3. \A i \in Ids : rows[i].reseller \in Ids \cup {NoId}
    BY <1>1 DEF Row
  <1>4. ASSUME NEW w \in Workers, CreateRow(w)
        PROVE  \A i \in Ids : rows'[i].name # NoName /\ rows'[i].reseller # NoId =>
                                 rows'[rows'[i].reseller].name # NoName
    <2>1. calls[w].pc = "create"
      BY <1>4 DEF CreateRow, At
    <2>2. calls[w].name # NoName
      BY <2>1, PanelAssumption DEF BaseInv, CallsInv, Fits
    <2>3. PICK k \in Ids, f \in Row :
             /\ rows' = [rows EXCEPT ![k] = f] /\ f.name # NoName
             /\ f.reseller = NoId \/ (f.reseller = rows[k].reseller /\ rows[k].name # NoName)
      BY <1>4, <2>2, CreateEffect DEF BaseInv
    <2>4. \A j \in Ids : rows'[j] = IF j = k THEN f ELSE rows[j]
      BY <1>1, <2>3
    <2>5. QED
      BY <1>1, <1>3, <2>3, <2>4
  <1>5. ASSUME NEW w \in Workers, Save(w)
        PROVE  \A i \in Ids : rows'[i].name # NoName /\ rows'[i].reseller # NoId =>
                                 rows'[rows'[i].reseller].name # NoName
    <2> DEFINE c == calls[w]
    <2>1. Fits(c) /\ c.pc = "save" /\ c \in Call
      BY <1>5 DEF BaseInv, CallsInv, TypeOK, Save, At
    <2>2. c.id \in Ids /\ c.row \in Row /\ c.row.name # NoName
      BY <2>1, PanelAssumption DEF Fits, HasCopy, Call
    <2>3. \/ rows' = rows
          \/ /\ c.row.reseller = NoId \/ rows[c.row.reseller].name # NoName
             /\ rows' = [rows EXCEPT ![c.id] = c.row]
      BY <1>5, SaveEffect DEF BaseInv, MayRefer, Exists
    <2>4. CASE rows' = rows
      BY <1>1, <2>4
    <2>5. CASE /\ c.row.reseller = NoId \/ rows[c.row.reseller].name # NoName
               /\ rows' = [rows EXCEPT ![c.id] = c.row]
      <3>1. \A j \in Ids : rows'[j] = IF j = c.id THEN c.row ELSE rows[j]
        BY <1>1, <2>5
      <3>2. c.row.reseller \in Ids \cup {NoId}
        BY <2>2 DEF Row
      <3>3. QED
        BY <1>1, <1>3, <2>2, <2>5, <3>1, <3>2
    <2>6. QED
      BY <2>3, <2>4, <2>5
  <1>6. ASSUME NEW w \in Workers, DeleteRow(w)
        PROVE  \A i \in Ids : rows'[i].name # NoName /\ rows'[i].reseller # NoId =>
                                 rows'[rows'[i].reseller].name # NoName
    <2> DEFINE c == calls[w]
    <2>1. Fits(c) /\ c.pc = "delete"
      BY <1>6 DEF BaseInv, CallsInv, DeleteRow, At
    <2>2. c.id \in Ids
      BY <2>1 DEF Fits
    <2>3. \/ rows' = rows
          \/ /\ \A j \in Ids : j # c.id /\ rows[j].name # NoName => rows[j].reseller # c.id
             /\ rows' = [rows EXCEPT ![c.id] = NoRow]
      BY <1>6, DeleteEffect DEF BaseInv, Referred, Exists
    <2>4. CASE rows' = rows
      BY <1>1, <2>4
    <2>5. CASE /\ \A j \in Ids : j # c.id /\ rows[j].name # NoName => rows[j].reseller # c.id
               /\ rows' = [rows EXCEPT ![c.id] = NoRow]
      <3>1. \A j \in Ids : rows'[j] = IF j = c.id THEN NoRow ELSE rows[j]
        BY <1>1, <2>5
      <3>2. NoRow.name = NoName
        BY DEF NoRow
      <3>3. QED
        BY <1>1, <1>3, <2>5, <3>1, <3>2
    <2>6. QED
      BY <2>3, <2>4, <2>5
  <1>7. CASE \A w \in Workers : ~CreateRow(w) /\ ~Save(w) /\ ~DeleteRow(w)
    <2>1. \A j \in Ids : rows'[j].name = rows[j].name /\ rows'[j].reseller = rows[j].reseller
      BY <1>7, QuietSteps DEF SameUsers, SameUser
    <2>2. QED
      BY <1>1, <1>3, <2>1
  <1>8. QED
    BY <1>4, <1>5, <1>6, <1>7

\* No user is left with a reseller that is gone: whatever requests overlap, the
\* foreign key is looked at when a row is saved and when one is deleted, and a
\* new row has no owner yet.
THEOREM OwnersStay == Spec => []OwnersExist
  <1>1. Init => OwnersExist
    <2>1. NoRow.name = NoName
      BY DEF NoRow
    <2>2. ASSUME Init, NEW i \in Ids
          PROVE  rows[i].name = NoName
      BY <2>1, <2>2 DEF Init
    <2>3. QED
      BY <2>2 DEF OwnersExist, Exists
  <1>2. BaseInv /\ OwnersExist /\ [Next]_vars => OwnersExist'
    BY OwnersStep
  <1>3. QED
    BY <1>1, <1>2, BaseHolds, PTL DEF Spec

-----------------------------------------------------------------------------
(* Wrong passwords *)

\* The handlers that have yet to check a password against the row i, ...
Verifying(i) == {w \in Workers : calls[w].pc = "verify" /\ calls[w].id = i}

\* ... those among them that will not lock it for a wrong one, ...
Stale(i) == {w \in Verifying(i) : calls[w].row.failed < MaxAttempts - 1}

\* ... those that have yet to count a wrong one ...
Counting(i) == {w \in Workers : calls[w].pc = "count" /\ calls[w].id = i}

\* ... and those that are going to lock it.
Fresh(i) == {w \in Workers : /\ calls[w].pc \in {"count", "lock"} /\ calls[w].id = i
                             /\ calls[w].row.failed >= MaxAttempts - 1}

\* How many wrong passwords t there can be at the row r: before the counter is
\* one short of a lock they are counted, or about to be; from then on whoever
\* reads the row will lock it, so only those who read it earlier add to them.
Tally(r, t, V, S, C, F) ==
    /\ r.name = NoName => t + Cardinality(V) <= Cardinality(Workers)
    /\ r.name # NoName /\ r.failed < MaxAttempts - 1 =>
          t <= r.failed + Cardinality(C)
    /\ r.name # NoName /\ r.failed >= MaxAttempts - 1 =>
          t + Cardinality(S) <= MaxAttempts - 2 + Cardinality(Workers) + Cardinality(F)

TriesAt(i) ==
    /\ i \notin used => tries[i] = 0
    /\ Tally(rows[i], tries[i], Verifying(i), Stale(i), Counting(i), Fresh(i))

TriesInv == \A i \in Ids : TriesAt(i)

LEMMA GroupSize ==
  ASSUME NEW S, S \subseteq Workers
  PROVE  /\ Cardinality(S) \in Nat /\ Cardinality(Workers) \in Nat
         /\ Cardinality(S) <= Cardinality(Workers) /\ IsFiniteSet(S)
  BY PanelAssumption, FS_Subset, FS_CardinalityType

LEMMA GroupsApart ==
  ASSUME NEW S, NEW T, S \subseteq Workers, T \subseteq Workers, S \cap T = {}
  PROVE  Cardinality(S) + Cardinality(T) <= Cardinality(Workers)
  <1>1. /\ IsFiniteSet(S) /\ IsFiniteSet(T) /\ S \cup T \subseteq Workers
        /\ Cardinality(S) \in Nat /\ Cardinality(T) \in Nat
        /\ Cardinality(S \cup T) <= Cardinality(Workers)
    BY GroupSize
  <1>2. Cardinality(S \cup T) = Cardinality(S) + Cardinality(T) - Cardinality({})
    BY <1>1, FS_Union
  <1>3. QED
    BY <1>1, <1>2, FS_EmptySet

LEMMA GroupGains ==
  ASSUME NEW S, NEW w \in Workers, S \subseteq Workers, w \notin S
  PROVE  Cardinality(S \cup {w}) = Cardinality(S) + 1
  BY GroupSize, FS_AddElement

LEMMA GroupLoses ==
  ASSUME NEW S, NEW w \in S, S \subseteq Workers
  PROVE  Cardinality(S \ {w}) = Cardinality(S) - 1
  BY GroupSize, FS_RemoveElement

\* A handler that is in one of the groups of the row i.
In(c, i) == c.pc \in {"verify", "count", "lock"} /\ c.id = i

LEMMA GroupsTypes ==
  ASSUME NEW i
  PROVE  /\ Verifying(i) \subseteq Workers /\ Stale(i) \subseteq Workers
         /\ Counting(i) \subseteq Workers /\ Fresh(i) \subseteq Workers
         /\ Stale(i) \cap Counting(i) = {}
  BY DEF Verifying, Stale, Counting, Fresh

LEMMA GroupsTypesNext ==
  ASSUME NEW i
  PROVE  /\ Verifying(i)' \subseteq Workers /\ Stale(i)' \subseteq Workers
         /\ Counting(i)' \subseteq Workers /\ Fresh(i)' \subseteq Workers
  BY DEF Verifying, Stale, Counting, Fresh

\* A row whose counter starts anew.
LEMMA TriesZero ==
  ASSUME TypeOK', NEW i \in Ids, tries'[i] = 0
  PROVE  TriesAt(i)'
  <1>1. rows'[i] \in Row
    BY DEF TypeOK
  <1>2. rows'[i].failed \in Nat
    BY <1>1 DEF Row, MaxAttempts
  <1>3. /\ Cardinality(Verifying(i)') \in Nat
        /\ Cardinality(Verifying(i)') <= Cardinality(Workers)
        /\ Cardinality(Stale(i)') \in Nat
        /\ Cardinality(Stale(i)') <= Cardinality(Workers)
        /\ Cardinality(Counting(i)') \in Nat /\ Cardinality(Fresh(i)') \in Nat
        /\ Cardinality(Workers) \in Nat
    BY GroupsTypesNext, GroupSize
  <1>4. Tally(rows'[i], 0, Verifying(i)', Stale(i)', Counting(i)', Fresh(i)')
    BY <1>2, <1>3 DEF Tally, MaxAttempts
  <1>5. QED
    BY <1>4 DEF TriesAt

\* A row that nothing happens to.
LEMMA TriesStill ==
  ASSUME NEW i \in Ids, TriesAt(i), used \subseteq used',
         rows'[i].name = rows[i].name, rows'[i].failed = rows[i].failed,
         tries'[i] = tries[i],
         \A v \in Workers : In(calls[v], i) \/ In(calls'[v], i) =>
             /\ calls'[v].pc = calls[v].pc /\ calls'[v].id = calls[v].id
             /\ calls'[v].row = calls[v].row
  PROVE  TriesAt(i)'
  <1>1. /\ Verifying(i)' = Verifying(i) /\ Counting(i)' = Counting(i)
        /\ Fresh(i)' = Fresh(i)
    BY DEF Verifying, Counting, Fresh, In
  <1>2. Stale(i)' = Stale(i)
    BY DEF Stale, Verifying, In
  <1>3. Tally(rows[i], tries[i], Verifying(i), Stale(i), Counting(i), Fresh(i))
    BY DEF TriesAt
  <1>4. Tally(rows'[i], tries[i], Verifying(i), Stale(i), Counting(i), Fresh(i))
    BY <1>3 DEF Tally
  <1>5. i \notin used' => tries'[i] = 0
    BY DEF TriesAt
  <1>6. QED
    BY <1>1, <1>2, <1>4, <1>5 DEF TriesAt

\* A row that the step of w is not about.
LEMMA TriesQuiet ==
  ASSUME TriesInv, NEW w \in Workers, StepOf(w), used \subseteq used', NEW i \in Ids,
         ~In(calls[w], i), ~In(calls'[w], i), tries'[i] = tries[i],
         rows'[i].name = rows[i].name, rows'[i].failed = rows[i].failed
  PROVE  TriesAt(i)'
  <1>1. ASSUME NEW v \in Workers, In(calls[v], i) \/ In(calls'[v], i)
        PROVE  calls'[v] = calls[v]
    BY <1>1 DEF StepOf
  <1>2. TriesAt(i)
    BY DEF TriesInv
  <1>3. QED
    BY <1>1, <1>2, TriesStill

\* The password is right: one reader less.
LEMMA TriesRight ==
  ASSUME BaseInv, TriesInv, NEW w \in Workers, Goes(w, "verify", "session"),
         SameStore
  PROVE  TriesInv'
  <1> DEFINE c == calls[w]
  <1>1. PICK k \in Ids : k = c.id
    BY DEF Goes, BaseInv, CallsInv, Fits
  <1>2. c.pc = "verify" /\ calls'[w].pc = "session" /\ calls'[w].id = k /\ StepOf(w)
        /\ c.id = k
    BY <1>1 DEF Goes
  <1>3. ASSUME NEW i \in Ids, i # k
        PROVE  TriesAt(i)'
    BY <1>2, <1>3, TriesQuiet DEF In, SameStore
  <1>4. TriesAt(k)'
    <2>1. /\ Verifying(k)' = Verifying(k) \ {w} /\ Counting(k)' = Counting(k)
          /\ Fresh(k)' = Fresh(k)
      BY <1>2 DEF Verifying, Counting, Fresh, StepOf
    <2>2. Stale(k)' = Stale(k) \ {w}
      BY <1>2, <2>1 DEF Stale, Verifying, StepOf
    <2>3. /\ Cardinality(Verifying(k) \ {w}) <= Cardinality(Verifying(k))
          /\ Cardinality(Stale(k) \ {w}) <= Cardinality(Stale(k))
      BY GroupsTypes, GroupSize, FS_Subset
    <2>4. /\ Cardinality(Verifying(k)) \in Nat /\ Cardinality(Stale(k)) \in Nat
          /\ Cardinality(Verifying(k) \ {w}) \in Nat
          /\ Cardinality(Stale(k) \ {w}) \in Nat
          /\ Cardinality(Fresh(k)) \in Nat /\ Cardinality(Workers) \in Nat
      <3>1. Verifying(k) \ {w} \subseteq Workers /\ Stale(k) \ {w} \subseteq Workers
        BY GroupsTypes
      <3>2. QED
        BY <3>1, GroupsTypes, GroupSize
    <2>5. tries[k] \in Nat
      BY DEF BaseInv, TypeOK
    <2>6. /\ Tally(rows[k], tries[k], Verifying(k), Stale(k), Counting(k), Fresh(k))
          /\ k \notin used => tries[k] = 0
      BY DEF TriesInv, TriesAt
    <2>7. Tally(rows[k], tries[k], Verifying(k) \ {w}, Stale(k) \ {w},
                Counting(k), Fresh(k))
      BY <2>3, <2>4, <2>5, <2>6 DEF Tally, MaxAttempts
    <2>8. QED
      BY <2>1, <2>2, <2>6, <2>7 DEF TriesAt, SameStore
  <1>5. QED
    BY <1>3, <1>4 DEF TriesInv

\* The password is wrong: a reader less, one more that counts.
LEMMA TriesWrong ==
  ASSUME BaseInv, TriesInv, NEW w \in Workers, Goes(w, "verify", "count"),
         calls'[w].row = calls[w].row, rows' = rows, used' = used,
         tries' = [tries EXCEPT ![calls[w].id] = @ + 1]
  PROVE  TriesInv'
  <1> DEFINE c == calls[w]
  <1>1. PICK k \in Ids : k = c.id
    BY DEF Goes, BaseInv, CallsInv, Fits
  <1>2. c.pc = "verify" /\ calls'[w].pc = "count" /\ calls'[w].id = k /\ StepOf(w)
        /\ c.id = k
    BY <1>1 DEF Goes
  <1>3. /\ tries \in [Ids -> Nat] /\ used \subseteq Ids /\ c \in Call
        /\ k \in Ids /\ k \in used \cup {NoId}
    BY <1>2 DEF BaseInv, TypeOK, CallsInv, Fits, Knows
  <1>4. ASSUME NEW i \in Ids, i # k
        PROVE  TriesAt(i)'
    <2>1. tries'[i] = tries[i]
      BY <1>2, <1>3, <1>4
    <2>2. QED
      BY <1>2, <1>4, <2>1, TriesQuiet DEF In
  <1>5. TriesAt(k)'
    <2>1. /\ Verifying(k)' = Verifying(k) \ {w} /\ w \in Verifying(k)
          /\ Counting(k)' = Counting(k) \cup {w} /\ w \notin Counting(k)
          /\ w \notin Fresh(k)
      BY <1>2 DEF Verifying, Counting, Fresh, StepOf
    <2>2. Stale(k)' = Stale(k) \ {w}
      BY <1>2, <2>1 DEF Stale, Verifying, StepOf
    <2>3. c.row.failed \in Nat
      <3>1. c.row \in Row
        BY <1>3 DEF Call
      <3>2. QED
        BY <3>1 DEF Row, MaxAttempts
    <2>4. \/ w \in Stale(k) /\ Fresh(k)' = Fresh(k)
          \/ w \notin Stale(k) /\ Fresh(k)' = Fresh(k) \cup {w}
      <3>1. CASE c.row.failed < MaxAttempts - 1
        BY <1>2, <2>1, <2>3, <3>1 DEF Stale, Fresh, StepOf, MaxAttempts
      <3>2. CASE c.row.failed >= MaxAttempts - 1
        BY <1>2, <2>1, <2>3, <3>2 DEF Stale, Fresh, StepOf, MaxAttempts
      <3>3. QED
        BY <2>3, <3>1, <3>2 DEF MaxAttempts
    <2> DEFINE v == Cardinality(Verifying(k)) s == Cardinality(Stale(k))
               n == Cardinality(Counting(k)) f == Cardinality(Fresh(k))
               v2 == Cardinality(Verifying(k)') s2 == Cardinality(Stale(k)')
               n2 == Cardinality(Counting(k)') f2 == Cardinality(Fresh(k)')
               m == Cardinality(Workers)
    <2>5. v2 = v - 1 /\ n2 = n + 1
      BY <2>1, GroupsTypes, GroupGains, GroupLoses
    <2>6. s2 - f2 = s - f - 1
      <3>1. CASE w \in Stale(k) /\ Fresh(k)' = Fresh(k)
        <4>1. s2 = s - 1 /\ s \in Nat /\ f \in Nat
          BY <2>2, <3>1, GroupsTypes, GroupLoses, GroupSize
        <4>2. QED
          BY <3>1, <4>1
      <3>2. CASE w \notin Stale(k) /\ Fresh(k)' = Fresh(k) \cup {w}
        <4>1. f2 = f + 1 /\ s \in Nat /\ f \in Nat
          BY <2>1, <3>2, GroupsTypes, GroupGains, GroupSize
        <4>2. Stale(k)' = Stale(k)
          BY <2>2, <3>2
        <4>3. QED
          BY <4>1, <4>2
      <3>3. QED
        BY <2>4, <3>1, <3>2
    <2>7. /\ v \in Nat /\ s \in Nat /\ n \in Nat /\ f \in Nat /\ m \in Nat
          /\ s2 \in Nat /\ f2 \in Nat
      BY GroupsTypes, GroupsTypesNext, GroupSize
    <2>8. /\ Tally(rows[k], tries[k], Verifying(k), Stale(k), Counting(k), Fresh(k))
          /\ tries[k] \in Nat /\ rows[k].failed \in Nat
      BY <1>3 DEF TriesInv, TriesAt, BaseInv, TypeOK, Row, MaxAttempts
    <2>9. /\ rows[k].name = NoName => tries[k] + v <= m
          /\ rows[k].name # NoName /\ rows[k].failed < MaxAttempts - 1 =>
                tries[k] <= rows[k].failed + n
          /\ rows[k].name # NoName /\ rows[k].failed >= MaxAttempts - 1 =>
                tries[k] + s <= MaxAttempts - 2 + m + f
      BY <2>8 DEF Tally
    <2> HIDE DEF v, s, n, f, v2, s2, n2, f2, m
    <2>10. /\ rows[k].name = NoName => (tries[k] + 1) + v2 <= m
           /\ rows[k].name # NoName /\ rows[k].failed < MaxAttempts - 1 =>
                 tries[k] + 1 <= rows[k].failed + n2
           /\ rows[k].name # NoName /\ rows[k].failed >= MaxAttempts - 1 =>
                 (tries[k] + 1) + s2 <= MaxAttempts - 2 + m + f2
      BY <2>5, <2>6, <2>7, <2>8, <2>9 DEF MaxAttempts
    <2>11. Tally(rows[k], tries[k] + 1, Verifying(k)', Stale(k)', Counting(k)',
                 Fresh(k)')
      BY <2>10 DEF Tally, v2, s2, n2, f2, m
    <2>12. tries'[k] = tries[k] + 1 /\ rows' = rows /\ used' = used
      BY <1>2, <1>3
    <2>13. k \in used
      BY <1>3, PanelAssumption
    <2>14. QED
      BY <2>11, <2>12, <2>13 DEF TriesAt
  <1>6. QED
    BY <1>4, <1>5 DEF TriesInv

\* A wrong password is counted, unless the counter is at its end.
LEMMA TriesCount ==
  ASSUME BaseInv, TriesInv, NEW w \in Workers, Count(w)
  PROVE  TriesInv'
  <1> DEFINE c == calls[w]
  <1>1. PICK k \in Ids : k = c.id
    BY DEF Count, At, BaseInv, CallsInv, Fits
  <1>2. /\ used' = used /\ tries' = tries /\ calls'[w].row = c.row
        /\ IF c.row.failed + 1 >= MaxAttempts THEN Goes(w, "count", "lock")
           ELSE Goes(w, "count", "done")
        /\ \/ ~(rows[k].name # NoName /\ rows[k].failed < MaxAttempts) /\ rows' = rows
           \/ /\ rows[k].name # NoName /\ rows[k].failed < MaxAttempts
              /\ \E f \in Row :
                    /\ rows' = [rows EXCEPT ![k] = f] /\ f.name = rows[k].name
                    /\ f.failed = rows[k].failed + 1
    BY <1>1, CountEffect DEF BaseInv, Exists, SameUser
  <1>3. /\ tries \in [Ids -> Nat] /\ rows \in [Ids -> Row] /\ c.row \in Row
    BY DEF BaseInv, TypeOK, Call
  <1>4. c.row.failed \in Nat /\ rows[k].failed \in Nat
    BY <1>3 DEF Row, MaxAttempts
  <1>5. /\ StepOf(w) /\ c.pc = "count" /\ c.id = k
        /\ calls'[w].id = k /\ calls'[w].row = c.row
        /\ \/ c.row.failed >= MaxAttempts - 1 /\ calls'[w].pc = "lock"
           \/ c.row.failed < MaxAttempts - 1 /\ calls'[w].pc = "done"
    <2>1. CASE c.row.failed + 1 >= MaxAttempts
      <3>1. c.row.failed >= MaxAttempts - 1
        BY <1>4, <2>1 DEF MaxAttempts
      <3>2. QED
        BY <1>1, <1>2, <2>1, <3>1 DEF Goes
    <2>2. CASE ~(c.row.failed + 1 >= MaxAttempts)
      <3>1. c.row.failed < MaxAttempts - 1
        BY <1>4, <2>2 DEF MaxAttempts
      <3>2. QED
        BY <1>1, <1>2, <2>2, <3>1 DEF Goes
    <2>3. QED
      BY <2>1, <2>2
  <1>6. ASSUME NEW i \in Ids, i # k
        PROVE  TriesAt(i)'
    <2>1. rows'[i] = rows[i] /\ tries'[i] = tries[i] /\ used \subseteq used'
      BY <1>2, <1>3, <1>6
    <2>2. ~In(calls[w], i) /\ ~In(calls'[w], i)
      BY <1>5, <1>6 DEF In
    <2>3. QED
      BY <1>5, <2>1, <2>2, TriesQuiet
  <1>7. TriesAt(k)'
    <2>1. /\ Verifying(k)' = Verifying(k) /\ w \in Counting(k)
          /\ Counting(k)' = Counting(k) \ {w}
      BY <1>5 DEF Verifying, Counting, StepOf
    <2>2. Stale(k)' = Stale(k)
      BY <1>5, <2>1 DEF Stale, Verifying, StepOf
    <2>3. Fresh(k)' = Fresh(k)
      <3>1. CASE c.row.failed >= MaxAttempts - 1 /\ calls'[w].pc = "lock"
        BY <1>5, <3>1 DEF Fresh, StepOf
      <3>2. CASE c.row.failed < MaxAttempts - 1 /\ calls'[w].pc = "done"
        BY <1>4, <1>5, <3>2 DEF Fresh, StepOf, MaxAttempts
      <3>3. QED
        BY <1>5, <3>1, <3>2
    <2> DEFINE v == Cardinality(Verifying(k)) s == Cardinality(Stale(k))
               n == Cardinality(Counting(k)) f == Cardinality(Fresh(k))
               n2 == Cardinality(Counting(k)') m == Cardinality(Workers)
    <2>4. n2 = n - 1
      BY <2>1, GroupsTypes, GroupLoses
    <2>5. /\ v \in Nat /\ s \in Nat /\ n \in Nat /\ f \in Nat /\ m \in Nat
          /\ n2 \in Nat /\ s + n <= m
      BY GroupsTypes, GroupsTypesNext, GroupSize, GroupsApart
    <2>6. /\ Tally(rows[k], tries[k], Verifying(k), Stale(k), Counting(k), Fresh(k))
          /\ tries[k] \in Nat /\ (k \notin used => tries[k] = 0)
      BY <1>3 DEF TriesInv, TriesAt
    <2>7. /\ rows[k].name = NoName => tries[k] + v <= m
          /\ rows[k].name # NoName /\ rows[k].failed < MaxAttempts - 1 =>
                tries[k] <= rows[k].failed + n
          /\ rows[k].name # NoName /\ rows[k].failed >= MaxAttempts - 1 =>
                tries[k] + s <= MaxAttempts - 2 + m + f
      BY <2>6 DEF Tally
    <2>8. /\ rows'[k].name = rows[k].name
          /\ \/ rows[k].name = NoName
             \/ rows[k].failed >= MaxAttempts /\ rows'[k].failed = rows[k].failed
             \/ rows[k].failed < MaxAttempts /\ rows'[k].failed = rows[k].failed + 1
      <3>1. CASE ~(rows[k].name # NoName /\ rows[k].failed < MaxAttempts) /\ rows' = rows
        BY <1>4, <3>1 DEF MaxAttempts
      <3>2. CASE /\ rows[k].name # NoName /\ rows[k].failed < MaxAttempts
                 /\ \E g \in Row :
                      /\ rows' = [rows EXCEPT ![k] = g] /\ g.name = rows[k].name
                      /\ g.failed = rows[k].failed + 1
        BY <1>3, <3>2
      <3>3. QED
        BY <1>2, <3>1, <3>2
    <2> DEFINE a == rows[k].failed b == rows'[k].failed t == tries[k]
    <2>9. a \in Nat /\ t \in Nat
      BY <1>4, <2>6
    <2> HIDE DEF v, s, n, f, n2, m, a, b, t
    <2>10. /\ rows[k].name = NoName => t + v <= m
           /\ rows[k].name # NoName /\ b < MaxAttempts - 1 => t <= b + n2
           /\ rows[k].name # NoName /\ b >= MaxAttempts - 1 =>
                 t + s <= MaxAttempts - 2 + m + f
      <3>1. rows[k].name = NoName => t + v <= m
        BY <2>7 DEF t
      <3>2. ASSUME rows[k].name # NoName
            PROVE  /\ b < MaxAttempts - 1 => t <= b + n2
                   /\ b >= MaxAttempts - 1 => t + s <= MaxAttempts - 2 + m + f
        <4>1. /\ a < MaxAttempts - 1 => t <= a + n
              /\ a >= MaxAttempts - 1 => t + s <= MaxAttempts - 2 + m + f
          BY <2>7, <3>2 DEF a, t
        <4>2. \/ a >= MaxAttempts /\ b = a
              \/ a < MaxAttempts /\ b = a + 1
          BY <2>8, <3>2 DEF a, b
        <4>3. QED
          BY <2>4, <2>5, <2>9, <4>1, <4>2 DEF MaxAttempts
      <3>3. QED
        BY <3>1, <3>2
    <2>11. Tally(rows'[k], tries[k], Verifying(k)', Stale(k)', Counting(k)', Fresh(k)')
      BY <2>1, <2>2, <2>3, <2>8, <2>10 DEF Tally, v, s, f, n2, m, b, t
    <2>12. QED
      BY <1>2, <2>6, <2>11 DEF TriesAt
  <1>8. QED
    BY <1>6, <1>7 DEF TriesInv

\* A step that counts the tries of its row anew, or changes nothing about them.
LEMMA TriesAnew ==
  ASSUME BaseInv, BaseInv', TriesInv, NEW w \in Workers, StepOf(w), NEW k \in Ids,
         calls[w].id = k, calls'[w].id = k, used' = used,
         \A i \in Ids : i # k => rows'[i] = rows[i],
         tries' = [tries EXCEPT ![k] = 0]
  PROVE  TriesInv'
  <1>1. ASSUME NEW i \in Ids, i # k
        PROVE  TriesAt(i)'
    <2>1. tries'[i] = tries[i] /\ rows'[i] = rows[i] /\ used \subseteq used'
      BY <1>1 DEF BaseInv, TypeOK
    <2>2. ~In(calls[w], i) /\ ~In(calls'[w], i)
      BY <1>1 DEF In
    <2>3. QED
      BY <2>1, <2>2, TriesQuiet
  <1>2. TriesAt(k)'
    <2>1. tries'[k] = 0 /\ TypeOK'
      BY DEF BaseInv, TypeOK
    <2>2. QED
      BY <2>1, TriesZero
  <1>3. QED
    BY <1>1, <1>2 DEF TriesInv

\* The steps of a login at which it is in one of the groups.
LoginSteps == {"verify", "count", "lock"}

\* A step of a handler that leaves the counters alone.
LEMMA TriesPass ==
  ASSUME TriesInv, NEW w \in Workers, StepOf(w), used \subseteq used',
         calls[w].pc \notin LoginSteps, calls'[w].pc \notin LoginSteps,
         tries' = tries,
         \A i \in Ids : rows'[i].name = rows[i].name /\ rows'[i].failed = rows[i].failed
  PROVE  TriesInv'
  <1>1. ASSUME NEW i \in Ids
        PROVE  TriesAt(i)'
    <2>1. ~In(calls[w], i) /\ ~In(calls'[w], i)
      BY DEF In, LoginSteps
    <2>2. QED
      BY <2>1, TriesQuiet
  <1>2. QED
    BY <1>1 DEF TriesInv

LEMMA TriesRequest ==
  ASSUME BaseInv, TriesInv, NEW w \in Workers, Request(w)
  PROVE  TriesInv'
  <1>1. PICK c : Asks(c) /\ Begin(w, c)
    BY RequestBegins DEF BaseInv
  <1>2. /\ calls[w].pc = "idle"
        /\ rows' = rows /\ used' = used /\ tries' = tries
    BY RequestBegins DEF BaseInv
  <1>3. c \in Call /\ c.clean = FALSE
    BY <1>1 DEF Asks
  <1>4. /\ calls'[w].pc = c.pc /\ calls'[w].id = c.id /\ calls'[w].row = c.row
        /\ \A v \in Workers : v # w => Kept(calls'[v], calls[v])
    BY <1>1, <1>3, BeginEffect DEF BaseInv
  <1>5. ASSUME NEW v \in Workers, v # w
        PROVE  /\ calls'[v].pc = calls[v].pc /\ calls'[v].id = calls[v].id
               /\ calls'[v].row = calls[v].row
    BY <1>4, <1>5 DEF Kept
  <1>6. ASSUME NEW i \in Ids, ~In(c, i)
        PROVE  TriesAt(i)'
    <2>1. ~In(calls[w], i) /\ ~In(calls'[w], i)
      BY <1>2, <1>4, <1>6 DEF In
    <2>2. TriesAt(i)
      BY DEF TriesInv
    <2>3. \A v \in Workers : In(calls[v], i) \/ In(calls'[v], i) => v # w
      BY <2>1
    <2>4. QED
      BY <1>2, <1>5, <2>2, <2>3, TriesStill
  <1>7. ASSUME NEW k \in Ids, In(c, k)
        PROVE  TriesAt(k)'
    <2>1. c.pc = "verify" /\ c.id = k /\ c.row = rows[k] /\ rows[k].name # NoName
      BY <1>1, <1>7, PanelAssumption DEF Asks, About, In
    <2>2. Counting(k)' = Counting(k) /\ Fresh(k)' = Fresh(k)
      BY <1>2, <1>4, <1>5, <2>1 DEF Counting, Fresh
    <2>3. rows[k].failed >= MaxAttempts - 1 => Stale(k)' = Stale(k)
      <3>1. Verifying(k)' = Verifying(k) \cup {w}
        BY <1>2, <1>4, <1>5, <2>1 DEF Verifying
      <3>2. ASSUME rows[k].failed >= MaxAttempts - 1
            PROVE  ~(calls'[w].row.failed < MaxAttempts - 1)
        <4>1. rows[k] \in Row
          BY DEF BaseInv, TypeOK
        <4>2. QED
          BY <1>4, <2>1, <3>2, <4>1 DEF Row, MaxAttempts
      <3>3. w \notin Verifying(k)
        BY <1>2 DEF Verifying
      <3>4. QED
        BY <1>5, <3>1, <3>2, <3>3 DEF Stale, Verifying
    <2>4. /\ Tally(rows[k], tries[k], Verifying(k), Stale(k), Counting(k), Fresh(k))
          /\ k \notin used => tries[k] = 0
      BY DEF TriesInv, TriesAt
    <2>5. Tally(rows[k], tries[k], Verifying(k)', Stale(k)', Counting(k)', Fresh(k)')
      BY <2>1, <2>2, <2>3, <2>4 DEF Tally
    <2>6. QED
      BY <1>2, <2>4, <2>5 DEF TriesAt
  <1>8. QED
    BY <1>6, <1>7 DEF TriesInv

LEMMA TriesCreate ==
  ASSUME BaseInv, BaseInv', TriesInv, NEW w \in Workers, CreateRow(w)
  PROVE  TriesInv'
  <1>1. Goes(w, "create", "reread") /\ tries' = tries
    BY CreateEffect DEF BaseInv
  <1>2. PICK k \in Ids, f \in Row :
           /\ rows' = [rows EXCEPT ![k] = f] /\ f.name = calls[w].name
           /\ \/ k \notin used /\ used' = used \cup {k}
              \/ /\ rows[k].name = calls[w].name /\ used' = used
                 /\ f.failed = rows[k].failed
    BY CreateEffect DEF BaseInv
  <1>3. rows \in [Ids -> Row] /\ used \subseteq used'
    BY <1>2 DEF BaseInv, TypeOK
  <1>4. ASSUME NEW i \in Ids, rows'[i].name = rows[i].name,
               rows'[i].failed = rows[i].failed
        PROVE  TriesAt(i)'
    <2>1. ~In(calls[w], i) /\ ~In(calls'[w], i) /\ StepOf(w) /\ tries'[i] = tries[i]
      BY <1>1 DEF Goes, In
    <2>2. QED
      BY <1>3, <1>4, <2>1, TriesQuiet
  <1>5. ASSUME NEW i \in Ids, tries[i] = 0
        PROVE  TriesAt(i)'
    BY <1>1, <1>5, TriesZero DEF BaseInv
  <1>6. ASSUME NEW i \in Ids
        PROVE  tries[i] = 0 \/ (rows'[i].name = rows[i].name /\ rows'[i].failed = rows[i].failed)
    BY <1>2, <1>3 DEF TriesInv, TriesAt
  <1>7. QED
    BY <1>4, <1>5, <1>6 DEF TriesInv

LEMMA TriesSave ==
  ASSUME BaseInv, BaseInv', TriesInv, NEW w \in Workers, Save(w) \/ DeleteRow(w)
  PROVE  TriesInv'
  <1>1. /\ StepOf(w) /\ calls[w].pc \in {"save", "delete"} /\ calls'[w].id = calls[w].id
        /\ calls'[w].pc \notin LoginSteps
        /\ used' = used
        /\ \/ \E f : /\ rows' = [rows EXCEPT ![calls[w].id] = f]
                     /\ tries' = [tries EXCEPT ![calls[w].id] = 0]
           \/ rows' = rows /\ tries' = tries
    <2>1. CASE Save(w)
      BY <2>1, SaveEffect DEF BaseInv, Saved, LoginSteps
    <2>2. CASE DeleteRow(w)
      BY <2>2, DeleteEffect DEF BaseInv, Goes, LoginSteps
    <2>3. QED
      BY <2>1, <2>2
  <1>2. PICK k \in Ids : k = calls[w].id
    BY <1>1 DEF BaseInv, CallsInv, Fits
  <1>3. CASE rows' = rows /\ tries' = tries
    <2>1. calls[w].pc \notin LoginSteps
      BY <1>1 DEF LoginSteps
    <2>2. QED
      BY <1>1, <1>3, <2>1, TriesPass
  <1>4. CASE \E f : /\ rows' = [rows EXCEPT ![calls[w].id] = f]
                    /\ tries' = [tries EXCEPT ![calls[w].id] = 0]
    <2>1. \A i \in Ids : i # k => rows'[i] = rows[i]
      BY <1>2, <1>4 DEF BaseInv, TypeOK
    <2>2. QED
      BY <1>1, <1>2, <1>4, <2>1, TriesAnew
  <1>5. QED
    BY <1>1, <1>3, <1>4

LEMMA TriesLock ==
  ASSUME BaseInv, BaseInv', TriesInv, NEW w \in Workers, Lock(w) \/ Reset(w)
  PROVE  TriesInv'
  <1>1. PICK k \in Ids : k = calls[w].id
    BY DEF Lock, Reset, At, BaseInv, CallsInv, Fits
  <1>2. /\ StepOf(w) /\ calls'[w].id = k /\ used' = used /\ Counters(k)
        /\ tries' = [tries EXCEPT ![k] = 0]
    <2>1. CASE Lock(w)
      BY <1>1, <2>1, LockEffect DEF BaseInv, Goes
    <2>2. CASE Reset(w)
      BY <1>1, <2>2, ResetEffect DEF BaseInv, Goes
    <2>3. QED
      BY <2>1, <2>2
  <1>3. \A i \in Ids : i # k => rows'[i] = rows[i]
    BY <1>2 DEF Counters, BaseInv, TypeOK
  <1>4. QED
    BY <1>1, <1>2, <1>3, TriesAnew

LEMMA TriesVerify ==
  ASSUME BaseInv, TriesInv, NEW w \in Workers, Verify(w)
  PROVE  TriesInv'
  BY VerifyEffect, TriesRight, TriesWrong DEF BaseInv, SameStore

LEMMA TriesOther ==
  ASSUME BaseInv, TriesInv, NEW w \in Workers,
         \/ Reread(w) \/ CheckUsers(w) \/ NewSession(w) \/ Return(w)
         \/ UserAdd(w) \/ ChPasswd(w) \/ UserMod(w) \/ UserDel(w)
  PROVE  TriesInv'
  <1>1. SameStore => /\ used \subseteq used' /\ tries' = tries
                     /\ \A i \in Ids : /\ rows'[i].name = rows[i].name
                                       /\ rows'[i].failed = rows[i].failed
    BY DEF SameStore
  <1>2. /\ StepOf(w) /\ SameStore
        /\ calls[w].pc \notin LoginSteps /\ calls'[w].pc \notin LoginSteps
    <2>1. CASE Reread(w)
      BY <2>1, RereadEffect DEF BaseInv, LoginSteps
    <2>2. CASE CheckUsers(w)
      BY <2>2, CheckUsersEffect DEF BaseInv, LoginSteps, Goes
    <2>3. CASE NewSession(w)
      <3>1. calls[w].id \in Ids
        BY <2>3 DEF NewSession, At, BaseInv, CallsInv, Fits
      <3>2. QED
        BY <2>3, <3>1, NewSessionEffect DEF BaseInv, LoginSteps, Goes
    <2>4. CASE Return(w)
      BY <2>4, ReturnEffect, NoCallFields DEF BaseInv, LoginSteps
    <2>5. CASE UserAdd(w)
      BY <2>5, UserAddEffect DEF BaseInv, LoginSteps, Goes, Commands
    <2>6. CASE ChPasswd(w)
      <3>1. \E q \in {"save", "done", "usermod"} : Goes(w, "chpasswd", q)
        BY <2>6, ChPasswdEffect DEF BaseInv
      <3>2. \E b : Commands(w, b)
        BY <2>6, ChPasswdEffect DEF BaseInv
      <3>3. QED
        BY <3>1, <3>2 DEF LoginSteps, Goes, Commands
    <2>7. CASE UserMod(w)
      <3>1. Goes(w, "usermod", "done") /\ \E b : Commands(w, b)
        BY <2>7, UserModEffect DEF BaseInv
      <3>2. QED
        BY <3>1 DEF LoginSteps, Goes, Commands
    <2>8. CASE UserDel(w)
      BY <2>8, UserDelEffect DEF BaseInv, LoginSteps, Goes, Commands
    <2>9. QED
      BY <2>1, <2>2, <2>3, <2>4, <2>5, <2>6, <2>7, <2>8
  <1>3. QED
    BY <1>1, <1>2, TriesPass

LEMMA TriesTime ==
  ASSUME BaseInv, TriesInv, LockExpires \/ EndSession \/ UNCHANGED vars
  PROVE  TriesInv'
  <1>1. /\ calls' = calls /\ tries' = tries /\ used' = used
        /\ \A i \in Ids : rows'[i].name = rows[i].name /\ rows'[i].failed = rows[i].failed
    <2>1. CASE LockExpires
      BY <2>1, ExpireEffect DEF BaseInv, TypeOK, SameUser
    <2>2. CASE EndSession \/ UNCHANGED vars
      BY <2>2 DEF EndSession, vars
    <2>3. QED
      BY <2>1, <2>2
  <1>2. ASSUME NEW i \in Ids
        PROVE  TriesAt(i)'
    BY <1>1, TriesStill DEF TriesInv
  <1>3. QED
    BY <1>2 DEF TriesInv

LEMMA TriesStep == BaseInv /\ TriesInv /\ [Next]_vars => TriesInv'
  BY BaseStep, TriesRequest, TriesCreate, TriesSave, TriesVerify, TriesCount,
     TriesLock, TriesOther, TriesTime DEF Next, Step

LEMMA TriesInit == Init => TriesInv
  <1> SUFFICES ASSUME Init, NEW i \in Ids PROVE TriesAt(i)
    BY DEF TriesInv
  <1>1. NoRow.name = NoName /\ NoCall.pc = "idle"
    BY DEF NoRow, NoCall
  <1>2. tries[i] = 0 /\ rows[i].name = NoName
    BY <1>1 DEF Init
  <1>3. Verifying(i) = {}
    BY <1>1 DEF Init, Verifying
  <1>4. Cardinality(Workers) \in Nat /\ Cardinality({}) = 0
    BY GroupSize, FS_EmptySet
  <1>5. QED
    BY <1>2, <1>3, <1>4 DEF TriesAt, Tally

LEMMA TriesBound == BaseInv /\ TriesInv => AttemptsBounded
  <1> SUFFICES ASSUME BaseInv, TriesInv, NEW i \in Ids
               PROVE  tries[i] <= MaxAttempts - 2 + 2 * Cardinality(Workers)
    BY DEF AttemptsBounded
  <1> DEFINE v == Cardinality(Verifying(i)) s == Cardinality(Stale(i))
             n == Cardinality(Counting(i)) f == Cardinality(Fresh(i))
             m == Cardinality(Workers) a == rows[i].failed t == tries[i]
  <1>1. /\ v \in Nat /\ s \in Nat /\ n \in Nat /\ f \in Nat /\ m \in Nat
        /\ n <= m /\ f <= m
    BY GroupsTypes, GroupSize
  <1>2. rows[i] \in Row /\ t \in Nat
    BY DEF BaseInv, TypeOK
  <1>3. a \in Nat
    BY <1>2 DEF Row, MaxAttempts
  <1>4. \/ t + v <= m
        \/ a < MaxAttempts - 1 /\ t <= a + n
        \/ t + s <= MaxAttempts - 2 + m + f
    <2>1. Tally(rows[i], tries[i], Verifying(i), Stale(i), Counting(i), Fresh(i))
      BY DEF TriesInv, TriesAt
    <2>2. a < MaxAttempts - 1 \/ a >= MaxAttempts - 1
      BY <1>3 DEF MaxAttempts
    <2>3. QED
      BY <2>1, <2>2 DEF Tally
  <1> HIDE DEF v, s, n, f, m, a, t
  <1>5. t <= MaxAttempts - 2 + 2 * m
    BY <1>1, <1>2, <1>3, <1>4 DEF MaxAttempts
  <1>6. QED
    BY <1>5 DEF t, m

\* However many wrong passwords are tried at once, a row is locked before more
\* than 3 and twice the number of handlers that run at once are found wrong.
THEOREM GuessesBounded == Spec => []AttemptsBounded
  <1>1. Spec => []TriesInv
    BY TriesInit, TriesStep, BaseHolds, PTL DEF Spec
  <1>2. QED
    BY <1>1, TriesBound, BaseHolds, PTL

-----------------------------------------------------------------------------
(* Requests that do what they say *)

\* Whoever works for the user of a request that ran undisturbed so far is done
\* or logs in.
AloneInv ==
    \A w, v \in Workers :
        /\ calls[w].pc # "idle" /\ calls[w].clean
        /\ v # w /\ calls[v].name = calls[w].name
        => calls[v].pc = "done" \/ calls[v].kind = "login"

\* The user of c among the rows t: with this role, with this owner, or gone.
Has(c, t, role) ==
    \E i \in Ids : /\ t[i].name = c.name /\ t[i].role = role
                   /\ t[i].enabled = c.enabled

Owned(c, t) ==
    \E i \in Ids : /\ t[i].name = c.name /\ t[i].role = "user"
                   /\ t[i].enabled = c.enabled
                   /\ c.owner # NoId => t[i].reseller = c.owner

Gone(c, t) == \A i \in Ids : t[i].name # c.name

\* What Done says, of the rows t and the account a.
DoneIn(c, t, a) ==
    /\ c.kind = "user new" =>
          Owned(c, t) /\ a = IF c.enabled THEN "open" ELSE "locked"
    /\ c.kind = "user edit" =>
          Has(c, t, "user") /\ a # IF c.enabled THEN "locked" ELSE "open"
    /\ c.kind = "user delete" => Gone(c, t) /\ a = "none"
    /\ c.kind \in {"reseller new", "reseller edit"} => Has(c, t, "reseller")
    /\ c.kind = "reseller delete" => Gone(c, t)

\* What the handler c has done by now, and has in hand for what is left.
Progress(c, t, a) ==
    /\ c.pc = "reread" => Has(c, t, RoleOf(c.kind))
    /\ HasCopy(c) =>
          /\ c.row.role = RoleOf(c.kind) /\ c.row.enabled = c.enabled
          /\ c.kind = "user new" /\ c.owner # NoId => c.row.reseller = c.owner
    /\ c.kind = "user new" /\ c.pc \in {"useradd", "chpasswd", "usermod"} => Owned(c, t)
    /\ c.kind = "user new" /\ c.pc = "chpasswd" => a # "none"
    /\ c.kind = "user new" /\ c.pc = "usermod" => a = "open" /\ ~c.enabled
    /\ c.kind = "user edit" /\ c.pc = "usermod" => Has(c, t, "user")
    /\ c.pc \in {"users", "delete"} => \A i \in Ids : t[i].name = c.name => i = c.id
    /\ c.pc = "userdel" => Gone(c, t)
    /\ c.pc = "done" /\ c.ok => DoneIn(c, t, a)

ProgressInv ==
    \A w \in Workers :
        calls[w].clean => Progress(calls[w], rows, accounts[calls[w].name])

\* The rows t and u say the same of the user n.
SameFor(n, t, u) ==
    \A i \in Ids : t[i].name = n \/ u[i].name = n => SameUser(u[i], t[i])

LEMMA RowsStay ==
  ASSUME NEW c, NEW t, NEW u, SameFor(c.name, t, u)
  PROVE  /\ \A role : Has(c, t, role) => Has(c, u, role)
         /\ Owned(c, t) => Owned(c, u)
         /\ Gone(c, t) => Gone(c, u)
  BY DEF SameFor, SameUser, Has, Owned, Gone

LEMMA DoneStays ==
  ASSUME NEW c, NEW t, NEW u, NEW a, SameFor(c.name, t, u), DoneIn(c, t, a)
  PROVE  DoneIn(c, u, a)
  BY RowsStay DEF DoneIn

LEMMA ProgressStays ==
  ASSUME NEW c, NEW t, NEW u, NEW a, SameFor(c.name, t, u), Progress(c, t, a)
  PROVE  Progress(c, u, a)
  <1>1. \A i \in Ids : u[i].name = c.name => t[i].name = c.name
    BY DEF SameFor, SameUser
  <1>2. QED
    BY <1>1, RowsStay, DoneStays DEF Progress

\* The same handler, but for whether it has company.
LEMMA ProgressKept ==
  ASSUME NEW r, NEW c, NEW t, NEW a, Kept(r, c), Progress(c, t, a)
  PROVE  Progress(r, t, a)
  <1>1. /\ \A role : Has(r, t, role) <=> Has(c, t, role)
        /\ Owned(r, t) <=> Owned(c, t)
        /\ Gone(r, t) <=> Gone(c, t)
    BY DEF Kept, Has, Owned, Gone
  <1>2. DoneIn(c, t, a) => DoneIn(r, t, a)
    BY <1>1 DEF Kept, DoneIn
  <1>3. HasCopy(r) <=> HasCopy(c)
    BY DEF Kept, HasCopy
  <1>4. QED
    BY <1>1, <1>2, <1>3 DEF Kept, Progress

LEMMA LoginProgress ==
  ASSUME NEW c, NEW t, NEW a, c.kind = "login", Fits(c)
  PROVE  Progress(c, t, a)
  BY DEF Fits, Progress, HasCopy, DoneIn

\* What Done says is what DoneIn says.
LEMMA DoneMeans ==
  ASSUME NEW c \in Call, c.kind # "", DoneIn(c, rows, accounts[c.name])
  PROVE  Done(c)
  <1>1. CASE c.kind = "user new"
    BY <1>1 DEF DoneIn, Done, Owned, Called
  <1>2. CASE c.kind = "user edit"
    BY <1>2 DEF DoneIn, Done, HasRow, Has, Called
  <1>3. CASE c.kind = "user delete"
    BY <1>3 DEF DoneIn, Done, Gone, Called
  <1>4. CASE c.kind \in {"reseller new", "reseller edit"}
    BY <1>4 DEF DoneIn, Done, HasRow, Has, Called
  <1>5. CASE c.kind = "reseller delete"
    BY <1>5 DEF DoneIn, Done, Gone, Called
  <1>6. CASE c.kind = "login"
    BY <1>6 DEF Done
  <1>7. c.kind \in {"user new", "user edit", "user delete", "reseller new",
                   "reseller edit", "reseller delete", "login"}
    BY DEF Call
  <1>8. QED
    BY <1>1, <1>2, <1>3, <1>4, <1>5, <1>6, <1>7

LEMMA OkIsDone == BaseInv /\ ProgressInv => OkMeansDone
  <1> SUFFICES ASSUME BaseInv, ProgressInv, NEW w \in Workers,
                      calls[w].pc = "done", calls[w].ok, calls[w].clean
               PROVE  Done(calls[w])
    BY DEF OkMeansDone, At
  <1>1. DoneIn(calls[w], rows, accounts[calls[w].name])
    BY DEF ProgressInv, Progress
  <1>2. Fits(calls[w]) /\ calls[w] \in Call
    BY DEF BaseInv, CallsInv, TypeOK
  <1>3. calls[w].kind # ""
    BY <1>2 DEF Fits
  <1>4. QED
    BY <1>1, <1>2, <1>3, DoneMeans

LEMMA CleanIsBusy ==
  ASSUME BaseInv, NEW w \in Workers, calls[w].clean
  PROVE  calls[w].pc # "idle" /\ calls[w].name \in Names /\ calls[w].name # NoName
  BY PanelAssumption DEF BaseInv, CallsInv, Fits

\* A handler that goes on is no more company than it was.
LEMMA AloneGoesOn ==
  ASSUME BaseInv, AloneInv, NEW w \in Workers, StepOf(w), Keeps(calls'[w], calls[w]),
         calls[w].pc \notin {"idle", "done"}
  PROVE  AloneInv'
  <1> SUFFICES ASSUME NEW x \in Workers, NEW y \in Workers, calls'[x].clean, y # x,
                      calls'[y].name = calls'[x].name
               PROVE  calls'[y].pc = "done" \/ calls'[y].kind = "login"
    BY DEF AloneInv
  <1>1. ASSUME NEW v \in Workers
        PROVE  /\ calls'[v].kind = calls[v].kind /\ calls'[v].name = calls[v].name
               /\ calls'[v].clean => calls[v].clean
    <2>1. CASE v = w
      BY <2>1 DEF Keeps
    <2>2. CASE v # w
      BY <2>2 DEF StepOf
    <2>3. QED
      BY <2>1, <2>2
  <1>2. calls[x].clean /\ calls[x].pc # "idle" /\ calls[y].name = calls[x].name
    BY <1>1, CleanIsBusy
  <1>3. calls[y].pc = "done" \/ calls[y].kind = "login"
    BY <1>2 DEF AloneInv
  <1>4. CASE y = w
    BY <1>1, <1>3, <1>4
  <1>5. CASE y # w
    BY <1>3, <1>5 DEF StepOf
  <1>6. QED
    BY <1>4, <1>5

LEMMA AloneReturns ==
  ASSUME BaseInv, AloneInv, NEW w \in Workers, Return(w)
  PROVE  AloneInv'
  <1>1. StepOf(w) /\ calls'[w] = NoCall
    BY ReturnEffect DEF BaseInv
  <1> SUFFICES ASSUME NEW x \in Workers, NEW y \in Workers, calls'[x].clean, y # x,
                      calls'[y].name = calls'[x].name
               PROVE  calls'[y].pc = "done" \/ calls'[y].kind = "login"
    BY DEF AloneInv
  <1>2. x # w
    BY <1>1, NoCallFields
  <1>3. calls'[x] = calls[x] /\ calls[x].pc # "idle" /\ calls[x].name # NoName
    BY <1>1, <1>2, CleanIsBusy DEF StepOf
  <1>4. y # w
    BY <1>1, <1>3, NoCallFields
  <1>5. QED
    BY <1>1, <1>3, <1>4 DEF StepOf, AloneInv

LEMMA AloneRequest ==
  ASSUME BaseInv, AloneInv, NEW w \in Workers, Request(w)
  PROVE  AloneInv'
  <1>1. PICK c : Asks(c) /\ Begin(w, c)
    BY RequestBegins DEF BaseInv
  <1>2. c \in Call /\ c.clean = FALSE
    BY <1>1 DEF Asks
  <1>3. /\ calls'[w].name = c.name /\ calls'[w].kind = c.kind
        /\ \A v \in Workers : v # w => Kept(calls'[v], calls[v])
        /\ calls'[w].clean => \A v \in Workers : v # w /\ calls[v].name = c.name =>
                                  calls[v].pc = "done" \/ calls[v].kind = "login"
        /\ c.kind # "login" => \A v \in Workers : v # w /\ calls[v].name = c.name =>
                                   ~calls'[v].clean
    BY <1>1, <1>2, BeginEffect DEF BaseInv
  <1> SUFFICES ASSUME NEW x \in Workers, NEW y \in Workers, calls'[x].clean, y # x,
                      calls'[y].name = calls'[x].name
               PROVE  calls'[y].pc = "done" \/ calls'[y].kind = "login"
    BY DEF AloneInv
  <1>4. CASE x = w
    <2>1. calls'[y].pc = calls[y].pc /\ calls'[y].kind = calls[y].kind
          /\ calls'[y].name = calls[y].name
      BY <1>3, <1>4 DEF Kept
    <2>2. QED
      BY <1>3, <1>4, <2>1
  <1>5. CASE y = w
    <2>1. calls'[x].name = calls[x].name /\ x # w
      BY <1>3, <1>5 DEF Kept
    <2>2. QED
      BY <1>3, <1>5, <2>1
  <1>6. CASE x # w /\ y # w
    <2>1. /\ calls'[x].name = calls[x].name /\ (calls'[x].clean => calls[x].clean)
          /\ calls'[y].pc = calls[y].pc /\ calls'[y].kind = calls[y].kind
          /\ calls'[y].name = calls[y].name
      BY <1>3, <1>6 DEF Kept
    <2>2. calls[x].clean /\ calls[x].pc # "idle"
      BY <2>1, CleanIsBusy
    <2>3. QED
      BY <2>1, <2>2 DEF AloneInv
  <1>7. QED
    BY <1>4, <1>5, <1>6

\* A handler of another user, or at its end, does not notice a step that only
\* touches the user of w.
LEMMA OthersProgress ==
  ASSUME BaseInv, AloneInv, ProgressInv, NEW w \in Workers, StepOf(w),
         calls[w].kind # "login", calls[w].pc \notin {"idle", "done"},
         \A n \in Names : n # calls[w].name =>
             SameFor(n, rows, rows') /\ accounts'[n] = accounts[n],
         NEW v \in Workers, v # w, calls'[v].clean
  PROVE  Progress(calls'[v], rows', accounts'[calls'[v].name])
  <1>1. calls'[v] = calls[v]
    BY DEF StepOf
  <1>2. calls[v].clean /\ calls[v].pc # "idle" /\ calls[v].name \in Names
    BY <1>1, CleanIsBusy
  <1>3. calls[w].name # calls[v].name
    BY <1>2 DEF AloneInv
  <1>4. SameFor(calls[v].name, rows, rows')
        /\ accounts'[calls[v].name] = accounts[calls[v].name]
    BY <1>2, <1>3
  <1>5. Progress(calls[v], rows, accounts[calls[v].name])
    BY <1>2 DEF ProgressInv
  <1>6. Progress(calls[v], rows', accounts[calls[v].name])
    BY <1>4, <1>5, ProgressStays
  <1>7. QED
    BY <1>1, <1>4, <1>6

\* The same for a step of w as a whole.
LEMMA ProgressOfStep ==
  ASSUME BaseInv, AloneInv, ProgressInv, NEW w \in Workers, StepOf(w),
         calls[w].kind # "login", calls[w].pc \notin {"idle", "done"},
         \A n \in Names : n # calls[w].name =>
             SameFor(n, rows, rows') /\ accounts'[n] = accounts[n],
         calls'[w].clean => Progress(calls'[w], rows', accounts'[calls'[w].name])
  PROVE  ProgressInv'
  <1>1. ASSUME NEW v \in Workers, calls'[v].clean
        PROVE  Progress(calls'[v], rows', accounts'[calls'[v].name])
    BY <1>1, OthersProgress
  <1>2. QED
    BY <1>1 DEF ProgressInv

LEMMA SameForSame == \A n, t : SameFor(n, t, t)
  BY DEF SameFor, SameUser

\* A login, or time, changes nothing a request is about.
LEMMA ProgressQuiet ==
  ASSUME BaseInv, ProgressInv, SameUsers, accounts' = accounts, NEW v \in Workers,
         calls'[v] = calls[v], calls'[v].clean
  PROVE  Progress(calls'[v], rows', accounts'[calls'[v].name])
  <1>1. SameFor(calls[v].name, rows, rows')
    BY DEF SameUsers, SameFor
  <1>2. Progress(calls[v], rows, accounts[calls[v].name])
    BY DEF ProgressInv
  <1>3. Progress(calls[v], rows', accounts[calls[v].name])
    BY <1>1, <1>2, ProgressStays
  <1>4. QED
    BY <1>3

\* What a handler knows of its own record, when it is undisturbed.
LEMMA OwnProgress ==
  ASSUME BaseInv, ProgressInv, NEW w \in Workers, Keeps(calls'[w], calls[w]),
         calls'[w].clean
  PROVE  /\ Progress(calls[w], rows, accounts[calls[w].name])
         /\ Fits(calls[w]) /\ calls[w].name \in Names /\ calls[w].name # NoName
         /\ calls'[w].name = calls[w].name /\ calls'[w].kind = calls[w].kind
         /\ calls'[w].enabled = calls[w].enabled /\ calls'[w].owner = calls[w].owner
  <1>1. calls[w].clean
    BY DEF Keeps
  <1>2. QED
    BY <1>1, CleanIsBusy DEF Keeps, ProgressInv, BaseInv, CallsInv

LEMMA ProgressCreate ==
  ASSUME BaseInv, AloneInv, ProgressInv, NEW w \in Workers, CreateRow(w)
  PROVE  ProgressInv'
  <1> DEFINE c == calls[w]
             r == calls'[w]
  <1>1. /\ StepOf(w) /\ Keeps(r, c) /\ c.pc = "create" /\ r.pc = "reread"
        /\ accounts' = accounts
    BY CreateEffect DEF BaseInv, Goes
  <1>2. PICK k \in Ids, f \in Row :
           /\ rows' = [rows EXCEPT ![k] = f] /\ f.name = c.name
           /\ f.enabled = c.enabled
           /\ f.role = IF c.kind = "user new" THEN "user" ELSE "reseller"
           /\ k \notin used \/ rows[k].name = c.name
    <2>1. \E i \in Ids, f \in Row :
             /\ rows' = [rows EXCEPT ![i] = f]
             /\ f.name = c.name /\ f.enabled = c.enabled
             /\ f.role = IF c.kind = "user new" THEN "user" ELSE "reseller"
             /\ \/ /\ i \notin used /\ used' = used \cup {i} /\ Called(c.name) = {}
                   /\ f.reseller = NoId /\ f.failed = 0
                \/ /\ rows[i].name = c.name /\ used' = used
                   /\ f.reseller = rows[i].reseller /\ f.failed = rows[i].failed
      BY CreateEffect DEF BaseInv
    <2>2. QED
      BY <2>1
  <1>3. Fits(c) /\ rows \in [Ids -> Row]
    BY DEF BaseInv, CallsInv, TypeOK
  <1>4. c.kind \in {"user new", "reseller new"}
    BY <1>1, <1>3 DEF Fits
  <1>5. ASSUME NEW n \in Names, n # c.name
        PROVE  SameFor(n, rows, rows') /\ accounts'[n] = accounts[n]
    <2>1. rows[k].name # n
      BY <1>2, <1>5, PanelAssumption DEF BaseInv, RowsInv, Exists
    <2>2. \A i \in Ids : rows'[i] = IF i = k THEN f ELSE rows[i]
      BY <1>2, <1>3
    <2>3. SameFor(n, rows, rows')
      BY <1>2, <1>5, <2>1, <2>2 DEF SameFor, SameUser
    <2>4. QED
      BY <1>1, <2>3
  <1>6. ASSUME r.clean
        PROVE  Progress(r, rows', accounts'[r.name])
    <2>1. r.name = c.name /\ r.kind = c.kind /\ r.enabled = c.enabled
      BY <1>1 DEF Keeps
    <2>2. rows'[k] = f
      BY <1>2, <1>3
    <2>3. Has(r, rows', RoleOf(r.kind))
      BY <1>2, <1>4, <2>1, <2>2 DEF Has, RoleOf
    <2>4. QED
      BY <1>1, <2>3 DEF Progress, HasCopy
  <1>7. c.kind # "login" /\ c.pc \notin {"idle", "done"}
    BY <1>1, <1>4
  <1>8. QED
    BY <1>1, <1>5, <1>6, <1>7, ProgressOfStep

LEMMA ProgressReread ==
  ASSUME BaseInv, AloneInv, ProgressInv, NEW w \in Workers, Reread(w)
  PROVE  ProgressInv'
  <1> DEFINE c == calls[w]
             r == calls'[w]
  <1>1. /\ StepOf(w) /\ Keeps(r, c) /\ c.pc = "reread"
        /\ rows' = rows /\ accounts' = accounts
        /\ \/ r.pc = "done" /\ r.ok = FALSE
           \/ r.pc = "done" /\ c.kind = "reseller new"
           \/ /\ r.pc = "save" /\ r.id \in Ids /\ rows[r.id].name = c.name
              /\ c.kind # "reseller new"
              /\ r.row.role = rows[r.id].role /\ r.row.enabled = c.enabled
              /\ c.owner # NoId => r.row.reseller = c.owner
    BY RereadEffect DEF BaseInv, SameStore
  <1>2. Fits(c)
    BY DEF BaseInv, CallsInv
  <1>3. c.kind \in {"user new", "reseller new"}
    BY <1>1, <1>2 DEF Fits
  <1>4. ASSUME r.clean
        PROVE  Progress(r, rows', accounts'[r.name])
    <2>1. /\ r.name = c.name /\ r.kind = c.kind /\ r.enabled = c.enabled
          /\ r.owner = c.owner /\ c.name # NoName
          /\ Progress(c, rows, accounts[c.name])
      BY <1>1, <1>4, OwnProgress
    <2>2. Has(c, rows, RoleOf(c.kind))
      BY <1>1, <2>1 DEF Progress
    <2>3. CASE r.pc = "done" /\ r.ok = FALSE
      BY <2>3 DEF Progress, HasCopy
    <2>4. CASE r.pc = "done" /\ c.kind = "reseller new"
      <3>1. Has(r, rows, "reseller")
        BY <2>1, <2>2, <2>4 DEF Has, RoleOf
      <3>2. DoneIn(r, rows', accounts'[r.name])
        BY <1>1, <2>1, <2>4, <3>1 DEF DoneIn
      <3>3. QED
        BY <2>4, <3>2 DEF Progress, HasCopy
    <2>5. CASE /\ r.pc = "save" /\ r.id \in Ids /\ rows[r.id].name = c.name
               /\ c.kind # "reseller new"
               /\ r.row.role = rows[r.id].role /\ r.row.enabled = c.enabled
               /\ c.owner # NoId => r.row.reseller = c.owner
      <3>1. PICK j \in Ids : rows[j].name = c.name /\ rows[j].role = "user"
        BY <1>3, <2>2, <2>5 DEF Has, RoleOf
      <3>2. j = r.id
        BY <2>1, <2>5, <3>1 DEF BaseInv, RowsInv, Exists
      <3>3. r.row.role = "user" /\ RoleOf(r.kind) = "user"
        BY <1>3, <2>1, <2>5, <3>1, <3>2 DEF RoleOf
      <3>4. QED
        BY <2>1, <2>5, <3>3 DEF Progress, HasCopy
    <2>6. QED
      BY <1>1, <2>3, <2>4, <2>5
  <1>5. \A n \in Names : SameFor(n, rows, rows') /\ accounts'[n] = accounts[n]
    BY <1>1, SameForSame
  <1>6. c.kind # "login" /\ c.pc \notin {"idle", "done"}
    BY <1>1, <1>3
  <1>7. QED
    BY <1>1, <1>4, <1>5, <1>6, ProgressOfStep

LEMMA ProgressSave ==
  ASSUME BaseInv, AloneInv, ProgressInv, NEW w \in Workers, Save(w)
  PROVE  ProgressInv'
  <1> DEFINE c == calls[w]
             r == calls'[w]
  <1>1. /\ StepOf(w) /\ Keeps(r, c) /\ c.pc = "save"
        /\ accounts' = accounts
        /\ \/ /\ Exists(c.id)
              /\ rows' = [rows EXCEPT ![c.id] = c.row] /\ r.pc = Saved(c.kind)
           \/ r.pc = "done" /\ r.ok = FALSE /\ rows' = rows
    BY SaveEffect DEF BaseInv
  <1>2. Fits(c) /\ Knows(c, used, rows) /\ rows \in [Ids -> Row]
    BY DEF BaseInv, CallsInv, TypeOK
  <1>3. /\ c.kind \in {"user new", "user edit", "reseller edit"}
        /\ c.id \in Ids /\ c.id # NoId /\ c.row.name = c.name
    BY <1>1, <1>2, PanelAssumption DEF Fits, HasCopy
  <1>4. c.kind # "login" /\ c.pc \notin {"idle", "done"}
    BY <1>1, <1>3
  <1>5. CASE r.pc = "done" /\ r.ok = FALSE /\ rows' = rows
    <2>1. Progress(r, rows', accounts'[r.name])
      BY <1>5 DEF Progress, HasCopy
    <2>2. \A n \in Names : SameFor(n, rows, rows') /\ accounts'[n] = accounts[n]
      BY <1>1, <1>5, SameForSame
    <2>3. QED
      BY <1>1, <1>4, <2>1, <2>2, ProgressOfStep
  <1>6. CASE /\ Exists(c.id)
             /\ rows' = [rows EXCEPT ![c.id] = c.row] /\ r.pc = Saved(c.kind)
    <2>1. rows[c.id].name = c.name
      BY <1>2, <1>3, <1>6 DEF Knows, Exists
    <2>2. \A i \in Ids : rows'[i] = IF i = c.id THEN c.row ELSE rows[i]
      BY <1>2, <1>6
    <2>3. ASSUME NEW n \in Names, n # c.name
          PROVE  SameFor(n, rows, rows') /\ accounts'[n] = accounts[n]
      <3>1. SameFor(n, rows, rows')
        BY <1>3, <2>1, <2>2, <2>3 DEF SameFor, SameUser
      <3>2. QED
        BY <1>1, <3>1
    <2>4. ASSUME r.clean
          PROVE  Progress(r, rows', accounts'[r.name])
      <3>1. /\ r.name = c.name /\ r.kind = c.kind /\ r.enabled = c.enabled
            /\ r.owner = c.owner
            /\ Progress(c, rows, accounts[c.name])
        BY <1>1, <2>4, OwnProgress
      <3>2. HasCopy(c)
        BY <1>1 DEF HasCopy
      <3>3. /\ c.row.role = RoleOf(c.kind) /\ c.row.enabled = c.enabled
            /\ c.kind = "user new" /\ c.owner # NoId => c.row.reseller = c.owner
        BY <3>1, <3>2 DEF Progress
      <3>4. rows'[c.id] = c.row
        BY <1>3, <2>2
      <3>5. Has(r, rows', RoleOf(r.kind))
        BY <1>3, <3>1, <3>3, <3>4 DEF Has
      <3>6. CASE c.kind = "user new"
        <4>1. r.pc = "useradd"
          BY <1>6, <3>6 DEF Saved
        <4>2. Owned(r, rows')
          BY <1>3, <3>1, <3>3, <3>4, <3>6 DEF Owned, RoleOf
        <4>3. QED
          BY <4>1, <4>2 DEF Progress, HasCopy
      <3>7. CASE c.kind = "user edit"
        <4>1. r.pc = "usermod" /\ RoleOf(r.kind) = "user" /\ r.kind = "user edit"
          BY <1>6, <3>1, <3>7 DEF Saved, RoleOf
        <4>2. QED
          BY <3>5, <4>1 DEF Progress, HasCopy
      <3>8. CASE c.kind = "reseller edit"
        <4>1. r.pc = "done" /\ RoleOf(r.kind) = "reseller" /\ r.kind = "reseller edit"
          BY <1>6, <3>1, <3>8 DEF Saved, RoleOf
        <4>2. DoneIn(r, rows', accounts'[r.name])
          BY <3>5, <4>1 DEF DoneIn
        <4>3. QED
          BY <4>1, <4>2 DEF Progress, HasCopy
      <3>9. QED
        BY <1>3, <3>6, <3>7, <3>8
    <2>5. QED
      BY <1>1, <1>4, <2>3, <2>4, ProgressOfStep
  <1>7. QED
    BY <1>1, <1>5, <1>6

LEMMA ProgressCheck ==
  ASSUME BaseInv, AloneInv, ProgressInv, NEW w \in Workers, CheckUsers(w)
  PROVE  ProgressInv'
  <1> DEFINE c == calls[w]
             r == calls'[w]
  <1>1. /\ StepOf(w) /\ Keeps(r, c) /\ c.pc = "users" /\ r.id = c.id
        /\ rows' = rows /\ accounts' = accounts
        /\ \/ r.pc = "done" /\ r.ok = FALSE
           \/ r.pc = "delete"
    BY CheckUsersEffect DEF BaseInv, SameStore, Goes
  <1>2. Fits(c)
    BY DEF BaseInv, CallsInv
  <1>3. c.kind = "reseller delete"
    BY <1>1, <1>2 DEF Fits
  <1>4. ASSUME r.clean
        PROVE  Progress(r, rows', accounts'[r.name])
    <2>1. r.name = c.name /\ r.kind = c.kind /\ Progress(c, rows, accounts[c.name])
      BY <1>1, <1>4, OwnProgress
    <2>2. \A i \in Ids : rows[i].name = c.name => i = c.id
      BY <1>1, <2>1 DEF Progress
    <2>3. QED
      BY <1>1, <1>3, <2>1, <2>2 DEF Progress, HasCopy
  <1>5. \A n \in Names : SameFor(n, rows, rows') /\ accounts'[n] = accounts[n]
    BY <1>1, SameForSame
  <1>6. c.kind # "login" /\ c.pc \notin {"idle", "done"}
    BY <1>1, <1>3
  <1>7. QED
    BY <1>1, <1>4, <1>5, <1>6, ProgressOfStep

LEMMA ProgressDelete ==
  ASSUME BaseInv, AloneInv, ProgressInv, NEW w \in Workers, DeleteRow(w)
  PROVE  ProgressInv'
  <1> DEFINE c == calls[w]
             r == calls'[w]
  <1>1. /\ StepOf(w) /\ Keeps(r, c) /\ c.pc = "delete"
        /\ accounts' = accounts
        /\ \/ /\ rows' = [rows EXCEPT ![c.id] = NoRow]
              /\ IF c.kind = "user delete" THEN r.pc = "userdel" ELSE r.pc = "done"
           \/ r.pc = "done" /\ r.ok = FALSE /\ rows' = rows
    BY DeleteEffect DEF BaseInv, Goes
  <1>2. Fits(c) /\ Knows(c, used, rows) /\ rows \in [Ids -> Row]
    BY DEF BaseInv, CallsInv, TypeOK
  <1>3. /\ c.kind \in {"user delete", "reseller delete"}
        /\ c.id \in Ids /\ c.id # NoId
    BY <1>1, <1>2, PanelAssumption DEF Fits
  <1>4. c.kind # "login" /\ c.pc \notin {"idle", "done"}
    BY <1>1, <1>3
  <1>5. CASE r.pc = "done" /\ r.ok = FALSE /\ rows' = rows
    <2>1. Progress(r, rows', accounts'[r.name])
      BY <1>5 DEF Progress, HasCopy
    <2>2. \A n \in Names : SameFor(n, rows, rows') /\ accounts'[n] = accounts[n]
      BY <1>1, <1>5, SameForSame
    <2>3. QED
      BY <1>1, <1>4, <2>1, <2>2, ProgressOfStep
  <1>6. CASE /\ rows' = [rows EXCEPT ![c.id] = NoRow]
             /\ IF c.kind = "user delete" THEN r.pc = "userdel" ELSE r.pc = "done"
    <2>1. rows[c.id].name = c.name \/ rows[c.id].name = NoName
      BY <1>2, <1>3 DEF Knows
    <2>2. \A i \in Ids : rows'[i] = IF i = c.id THEN NoRow ELSE rows[i]
      BY <1>2, <1>6
    <2>3. NoRow.name = NoName
      BY DEF NoRow
    <2>4. ASSUME NEW n \in Names, n # c.name
          PROVE  SameFor(n, rows, rows') /\ accounts'[n] = accounts[n]
      <3>1. n # NoName
        BY PanelAssumption
      <3>2. SameFor(n, rows, rows')
        BY <2>1, <2>2, <2>3, <2>4, <3>1 DEF SameFor, SameUser
      <3>3. QED
        BY <1>1, <3>2
    <2>5. ASSUME r.clean
          PROVE  Progress(r, rows', accounts'[r.name])
      <3>1. /\ r.name = c.name /\ r.kind = c.kind /\ c.name # NoName
            /\ Progress(c, rows, accounts[c.name])
        BY <1>1, <2>5, OwnProgress
      <3>2. \A i \in Ids : rows[i].name = c.name => i = c.id
        BY <1>1, <3>1 DEF Progress
      <3>3. Gone(r, rows')
        BY <2>2, <2>3, <3>1, <3>2 DEF Gone
      <3>4. CASE c.kind = "user delete"
        BY <1>6, <3>1, <3>3, <3>4 DEF Progress, HasCopy
      <3>5. CASE c.kind = "reseller delete"
        <4>1. r.pc = "done" /\ r.kind = "reseller delete"
          BY <1>6, <3>1, <3>5
        <4>2. DoneIn(r, rows', accounts'[r.name])
          BY <3>3, <4>1 DEF DoneIn
        <4>3. QED
          BY <4>1, <4>2 DEF Progress, HasCopy
      <3>6. QED
        BY <1>3, <3>4, <3>5
    <2>6. QED
      BY <1>1, <1>4, <2>4, <2>5, ProgressOfStep
  <1>7. QED
    BY <1>1, <1>5, <1>6

\* A command and what is left to do after it.
LEMMA ProgressCommand ==
  ASSUME BaseInv, AloneInv, ProgressInv, NEW w \in Workers, NEW from \in Steps,
         NEW q, NEW b, Goes(w, from, q), Commands(w, b), calls[w].kind # "login",
         calls[w].clean /\ Progress(calls[w], rows, accounts[calls[w].name])
            => Progress(calls'[w], rows, b)
  PROVE  ProgressInv'
  <1> DEFINE c == calls[w]
             r == calls'[w]
  <1>1. /\ StepOf(w) /\ Keeps(r, c) /\ rows' = rows /\ c.pc = from
        /\ \A n \in Names : n # c.name => accounts'[n] = accounts[n]
        /\ c.name \in Names /\ r.clean => accounts'[c.name] = b
    BY DEF Goes, Commands, SameStore
  <1>2. ASSUME r.clean
        PROVE  Progress(r, rows', accounts'[r.name])
    <2>1. r.name = c.name /\ c.name \in Names /\ c.clean
          /\ Progress(c, rows, accounts[c.name])
      BY <1>1, <1>2, OwnProgress DEF Keeps
    <2>2. accounts'[r.name] = b
      BY <1>1, <1>2, <2>1
    <2>3. Progress(r, rows, b)
      BY <2>1
    <2>4. QED
      BY <1>1, <2>2, <2>3
  <1>3. c.pc \notin {"idle", "done"}
    BY <1>1 DEF Steps
  <1>4. \A n \in Names : n # c.name =>
           SameFor(n, rows, rows') /\ accounts'[n] = accounts[n]
    BY <1>1, SameForSame
  <1>5. QED
    BY <1>1, <1>2, <1>3, <1>4, ProgressOfStep

LEMMA SameHas ==
  ASSUME NEW r, NEW c, r.name = c.name, r.enabled = c.enabled, r.owner = c.owner
  PROVE  \A t, role : /\ Has(r, t, role) <=> Has(c, t, role)
                      /\ Owned(r, t) <=> Owned(c, t)
                      /\ Gone(r, t) <=> Gone(c, t)
  BY DEF Has, Owned, Gone

LEMMA ProgressUserAdd ==
  ASSUME BaseInv, AloneInv, ProgressInv, NEW w \in Workers, UserAdd(w)
  PROVE  ProgressInv'
  <1> DEFINE c == calls[w]
             r == calls'[w]
             a == accounts[c.name]
             b == IF a = "none" THEN "no password" ELSE a
  <1>1. Goes(w, "useradd", "chpasswd") /\ Commands(w, b)
    BY UserAddEffect DEF BaseInv
  <1>2. /\ c.pc = "useradd" /\ r.pc = "chpasswd" /\ r.name = c.name /\ r.kind = c.kind
        /\ r.enabled = c.enabled /\ r.owner = c.owner /\ Fits(c)
    BY <1>1 DEF Goes, Keeps, BaseInv, CallsInv
  <1>3. c.kind = "user new" /\ b # "none"
    BY <1>2 DEF Fits
  <1>4. ASSUME Progress(c, rows, a)
        PROVE  Progress(r, rows, b)
    <2>1. Owned(c, rows)
      BY <1>2, <1>3, <1>4 DEF Progress
    <2>2. Owned(r, rows)
      BY <1>2, <2>1, SameHas
    <2> HIDE DEF b
    <2>3. QED
      BY <1>2, <1>3, <2>2 DEF Progress, HasCopy
  <1> HIDE DEF b
  <1>5. "useradd" \in Steps
    BY DEF Steps
  <1>6. QED
    BY <1>1, <1>3, <1>4, <1>5, ProgressCommand

LEMMA ProgressChPasswd ==
  ASSUME BaseInv, AloneInv, ProgressInv, NEW w \in Workers, ChPasswd(w)
  PROVE  ProgressInv'
  <1> DEFINE c == calls[w]
             r == calls'[w]
             a == accounts[c.name]
             b == IF a = "none" THEN "none" ELSE "open"
             q == IF c.kind = "user edit" THEN "save"
                  ELSE IF c.enabled THEN "done" ELSE "usermod"
  <1>1. Goes(w, "chpasswd", q) /\ Commands(w, b)
    BY ChPasswdEffect DEF BaseInv
  <1>2. /\ c.pc = "chpasswd" /\ r.pc = q /\ r.name = c.name /\ r.kind = c.kind
        /\ r.enabled = c.enabled /\ r.owner = c.owner /\ r.row = c.row /\ Fits(c)
    BY <1>1 DEF Goes, Keeps, Commands, BaseInv, CallsInv
  <1>3. c.kind \in {"user new", "user edit"}
    BY <1>2 DEF Fits
  <1>4. ASSUME Progress(c, rows, a)
        PROVE  Progress(r, rows, b)
    <2>1. CASE c.kind = "user edit"
      <3>1. HasCopy(c) /\ r.pc = "save"
        BY <1>2, <2>1 DEF HasCopy
      <3>2. r.row.role = RoleOf(r.kind) /\ r.row.enabled = r.enabled
        BY <1>2, <1>4, <3>1 DEF Progress
      <3> HIDE DEF b
      <3>3. QED
        BY <1>2, <2>1, <3>1, <3>2 DEF Progress
    <2>2. CASE c.kind = "user new"
      <3>1. Owned(c, rows) /\ a # "none"
        BY <1>2, <1>4, <2>2 DEF Progress
      <3>2. Owned(r, rows) /\ b = "open"
        BY <1>2, <3>1, SameHas
      <3> HIDE DEF b
      <3>3. CASE c.enabled
        <4>1. r.pc = "done"
          BY <1>2, <2>2, <3>3
        <4>2. DoneIn(r, rows, b)
          BY <1>2, <2>2, <3>2, <3>3 DEF DoneIn
        <4>3. QED
          BY <4>1, <4>2 DEF Progress, HasCopy
      <3>4. CASE ~c.enabled
        <4>1. r.pc = "usermod"
          BY <1>2, <2>2, <3>4
        <4>2. QED
          BY <1>2, <2>2, <3>2, <3>4, <4>1 DEF Progress, HasCopy
      <3>5. QED
        BY <3>3, <3>4
    <2>3. QED
      BY <1>3, <2>1, <2>2
  <1> HIDE DEF b, q
  <1>5. "chpasswd" \in Steps
    BY DEF Steps
  <1>6. QED
    BY <1>1, <1>3, <1>4, <1>5, ProgressCommand

LEMMA ProgressUserMod ==
  ASSUME BaseInv, AloneInv, ProgressInv, NEW w \in Workers, UserMod(w)
  PROVE  ProgressInv'
  <1> DEFINE c == calls[w]
             r == calls'[w]
             a == accounts[c.name]
             b == IF c.enabled /\ a = "locked" THEN "open"
                  ELSE IF ~c.enabled /\ a = "open" THEN "locked" ELSE a
  <1>1. Goes(w, "usermod", "done") /\ Commands(w, b)
    BY UserModEffect DEF BaseInv
  <1>2. /\ c.pc = "usermod" /\ r.pc = "done" /\ r.name = c.name /\ r.kind = c.kind
        /\ r.enabled = c.enabled /\ r.owner = c.owner /\ Fits(c)
    BY <1>1 DEF Goes, Keeps, BaseInv, CallsInv
  <1>3. c.kind \in {"user new", "user edit"}
    BY <1>2 DEF Fits
  <1>4. ASSUME Progress(c, rows, a)
        PROVE  Progress(r, rows, b)
    <2>1. CASE c.kind = "user edit"
      <3>1. Has(c, rows, "user")
        BY <1>2, <1>4, <2>1 DEF Progress
      <3>2. Has(r, rows, "user")
        BY <1>2, <3>1, SameHas
      <3>3. b # IF r.enabled THEN "locked" ELSE "open"
        <4>1. CASE c.enabled
          BY <1>2, <4>1
        <4>2. CASE ~c.enabled
          BY <1>2, <4>2
        <4>3. QED
          BY <4>1, <4>2
      <3> HIDE DEF b
      <3>4. DoneIn(r, rows, b)
        BY <1>2, <2>1, <3>2, <3>3 DEF DoneIn
      <3>5. QED
        BY <1>2, <3>4 DEF Progress, HasCopy
    <2>2. CASE c.kind = "user new"
      <3>1. Owned(c, rows) /\ a = "open" /\ ~c.enabled
        BY <1>2, <1>4, <2>2 DEF Progress
      <3>2. Owned(r, rows) /\ b = "locked" /\ ~r.enabled
        BY <1>2, <3>1, SameHas
      <3> HIDE DEF b
      <3>3. DoneIn(r, rows, b)
        BY <1>2, <2>2, <3>2 DEF DoneIn
      <3>4. QED
        BY <1>2, <3>3 DEF Progress, HasCopy
    <2>3. QED
      BY <1>3, <2>1, <2>2
  <1> HIDE DEF b
  <1>5. "usermod" \in Steps
    BY DEF Steps
  <1>6. QED
    BY <1>1, <1>3, <1>4, <1>5, ProgressCommand

LEMMA ProgressUserDel ==
  ASSUME BaseInv, AloneInv, ProgressInv, NEW w \in Workers, UserDel(w)
  PROVE  ProgressInv'
  <1> DEFINE c == calls[w]
             r == calls'[w]
             a == accounts[c.name]
  <1>1. Goes(w, "userdel", "done") /\ Commands(w, "none")
    BY UserDelEffect DEF BaseInv
  <1>2. /\ c.pc = "userdel" /\ r.pc = "done" /\ r.name = c.name /\ r.kind = c.kind
        /\ r.enabled = c.enabled /\ r.owner = c.owner /\ Fits(c)
    BY <1>1 DEF Goes, Keeps, BaseInv, CallsInv
  <1>3. c.kind = "user delete"
    BY <1>2 DEF Fits
  <1>4. ASSUME Progress(c, rows, a)
        PROVE  Progress(r, rows, "none")
    <2>1. Gone(c, rows)
      BY <1>2, <1>4 DEF Progress
    <2>2. Gone(r, rows)
      BY <1>2, <2>1, SameHas
    <2>3. DoneIn(r, rows, "none")
      BY <1>2, <1>3, <2>2 DEF DoneIn
    <2>4. QED
      BY <1>2, <2>3 DEF Progress, HasCopy
  <1>5. "userdel" \in Steps
    BY DEF Steps
  <1>6. QED
    BY <1>1, <1>3, <1>4, <1>5, ProgressCommand

LEMMA ProgressLogin ==
  ASSUME BaseInv, BaseInv', ProgressInv, NEW w \in Workers,
         Verify(w) \/ Count(w) \/ Lock(w) \/ NewSession(w) \/ Reset(w)
  PROVE  ProgressInv' /\ (AloneInv => AloneInv')
  <1>1. /\ calls[w].kind = "login" /\ calls[w].id \in Ids /\ Counters(calls[w].id)
        /\ used' = used /\ accounts' = accounts
    BY CountersKeepUsers
  <1>2. SameUsers
    BY <1>1, CountersLast DEF BaseInv, SameUsers
  <1>3. /\ StepOf(w) /\ Keeps(calls'[w], calls[w])
        /\ calls[w].pc \notin {"idle", "done"}
    <2>1. TypeOK
      BY DEF BaseInv
    <2>2. CASE Verify(w)
      BY <2>1, <2>2, VerifyEffect DEF Goes
    <2>3. CASE Count(w)
      <3>1. Goes(w, "count", "lock") \/ Goes(w, "count", "done")
        BY <1>1, <2>1, <2>3, CountEffect
      <3>2. QED
        BY <3>1 DEF Goes
    <2>4. CASE Lock(w)
      BY <1>1, <2>1, <2>4, LockEffect DEF Goes
    <2>5. CASE NewSession(w)
      BY <1>1, <2>1, <2>5, NewSessionEffect DEF Goes
    <2>6. CASE Reset(w)
      BY <1>1, <2>1, <2>6, ResetEffect DEF Goes
    <2>7. QED
      BY <2>2, <2>3, <2>4, <2>5, <2>6
  <1>4. ASSUME NEW v \in Workers, calls'[v].clean
        PROVE  Progress(calls'[v], rows', accounts'[calls'[v].name])
    <2>1. CASE v = w
      <3>1. calls'[v].kind = "login" /\ Fits(calls'[v])
        BY <1>1, <1>3, <2>1 DEF Keeps, BaseInv, CallsInv
      <3>2. QED
        BY <3>1, LoginProgress
    <2>2. CASE v # w
      <3>1. calls'[v] = calls[v]
        BY <1>3, <2>2 DEF StepOf
      <3>2. QED
        BY <1>1, <1>2, <1>4, <3>1, ProgressQuiet
    <2>3. QED
      BY <2>1, <2>2
  <1>5. QED
    BY <1>3, <1>4, AloneGoesOn DEF ProgressInv

LEMMA ProgressRequest ==
  ASSUME BaseInv, ProgressInv, NEW w \in Workers, Request(w)
  PROVE  ProgressInv'
  <1>1. PICK c : Asks(c) /\ Begin(w, c)
    BY RequestBegins DEF BaseInv
  <1>2. rows' = rows /\ accounts' = accounts
    BY RequestBegins DEF BaseInv
  <1>3. c \in Call /\ c.clean = FALSE
    BY <1>1 DEF Asks
  <1> DEFINE r == calls'[w]
  <1>4. /\ r.pc = c.pc /\ r.kind = c.kind /\ r.name = c.name /\ r.enabled = c.enabled
        /\ r.owner = c.owner /\ r.id = c.id /\ r.row = c.row
        /\ \A v \in Workers : v # w => Kept(calls'[v], calls[v])
    BY <1>1, <1>3, BeginEffect DEF BaseInv
  <1>5. Progress(r, rows', accounts'[r.name])
    <2>1. CASE c.pc = "create" \/ c.pc = "verify"
      BY <1>4, <2>1 DEF Progress, HasCopy
    <2>2. CASE c.pc \in {"chpasswd", "save"} /\ c.kind # "user new" /\ EditsCopy(c)
      BY <1>4, <2>2 DEF Progress, EditsCopy
    <2>3. CASE c.pc \in {"delete", "users"} /\ About(c)
      <3>1. c.name # NoName
        BY <1>1, PanelAssumption DEF Asks
      <3>2. \A i \in Ids : rows[i].name = c.name => i = c.id
        BY <2>3, <3>1 DEF About, BaseInv, RowsInv, Exists
      <3>3. QED
        BY <1>2, <1>4, <2>3, <3>2 DEF Progress, HasCopy
    <2>4. QED
      BY <1>1, <2>1, <2>2, <2>3 DEF Asks
  <1>6. ASSUME NEW v \in Workers, v # w, calls'[v].clean
        PROVE  Progress(calls'[v], rows', accounts'[calls'[v].name])
    <2>1. Kept(calls'[v], calls[v])
      BY <1>4, <1>6
    <2>2. calls[v].clean /\ calls'[v].name = calls[v].name
      BY <1>6, <2>1 DEF Kept
    <2>3. Progress(calls[v], rows, accounts[calls[v].name])
      BY <2>2 DEF ProgressInv
    <2>4. Progress(calls'[v], rows, accounts[calls[v].name])
      BY <2>1, <2>3, ProgressKept
    <2>5. QED
      BY <1>2, <2>2, <2>4
  <1>7. QED
    BY <1>5, <1>6 DEF ProgressInv

LEMMA ProgressReturn ==
  ASSUME BaseInv, ProgressInv, NEW w \in Workers, Return(w)
  PROVE  ProgressInv'
  <1>1. StepOf(w) /\ calls'[w] = NoCall /\ rows' = rows /\ accounts' = accounts
    BY ReturnEffect DEF BaseInv, SameStore
  <1>2. ASSUME NEW v \in Workers, calls'[v].clean
        PROVE  Progress(calls'[v], rows', accounts'[calls'[v].name])
    <2>1. v # w
      BY <1>1, <1>2, NoCallFields
    <2>2. calls'[v] = calls[v]
      BY <1>1, <2>1 DEF StepOf
    <2>3. QED
      BY <1>1, <1>2, <2>2 DEF ProgressInv
  <1>3. QED
    BY <1>2 DEF ProgressInv

LEMMA ProgressTime ==
  ASSUME BaseInv, ProgressInv, LockExpires \/ EndSession \/ UNCHANGED vars
  PROVE  ProgressInv' /\ (AloneInv => AloneInv')
  <1>1. calls' = calls /\ accounts' = accounts /\ SameUsers
    <2>1. CASE LockExpires
      <3>1. PICK i \in Ids : Counters(i)
        BY <2>1, ExpireEffect DEF BaseInv, Counters
      <3>2. calls' = calls /\ accounts' = accounts /\ used' = used
        BY <2>1 DEF LockExpires
      <3>3. QED
        BY <3>1, <3>2, CountersLast DEF BaseInv, SameUsers
    <2>2. CASE EndSession \/ UNCHANGED vars
      BY <2>2 DEF EndSession, vars, SameUsers, SameUser
    <2>3. QED
      BY <2>1, <2>2
  <1>2. ASSUME NEW v \in Workers, calls'[v].clean
        PROVE  Progress(calls'[v], rows', accounts'[calls'[v].name])
    <2>1. calls'[v] = calls[v]
      BY <1>1
    <2>2. QED
      BY <1>1, <1>2, <2>1, ProgressQuiet
  <1>3. QED
    BY <1>1, <1>2 DEF ProgressInv, AloneInv

LEMMA AloneWorks ==
  ASSUME BaseInv, AloneInv, NEW w \in Workers,
         \/ CreateRow(w) \/ Reread(w) \/ Save(w) \/ CheckUsers(w) \/ DeleteRow(w)
         \/ UserAdd(w) \/ ChPasswd(w) \/ UserMod(w) \/ UserDel(w)
  PROVE  AloneInv'
  <1>1. StepOf(w) /\ Keeps(calls'[w], calls[w])
    <2>1. TypeOK
      BY DEF BaseInv
    <2>2. CASE CreateRow(w)
      BY <2>1, <2>2, CreateEffect DEF Goes
    <2>3. CASE Reread(w)
      BY <2>1, <2>3, RereadEffect
    <2>4. CASE Save(w)
      BY <2>1, <2>4, SaveEffect
    <2>5. CASE CheckUsers(w)
      BY <2>1, <2>5, CheckUsersEffect DEF Goes
    <2>6. CASE DeleteRow(w)
      BY <2>1, <2>6, DeleteEffect DEF Goes
    <2>7. CASE UserAdd(w)
      BY <2>1, <2>7, UserAddEffect DEF Goes
    <2>8. CASE ChPasswd(w)
      <3>1. \E q : Goes(w, "chpasswd", q)
        BY <2>1, <2>8, ChPasswdEffect
      <3>2. QED
        BY <3>1 DEF Goes
    <2>9. CASE UserMod(w)
      <3>1. Goes(w, "usermod", "done")
        BY <2>1, <2>9, UserModEffect
      <3>2. QED
        BY <3>1 DEF Goes
    <2>10. CASE UserDel(w)
      BY <2>1, <2>10, UserDelEffect DEF Goes
    <2>11. QED
      BY <2>2, <2>3, <2>4, <2>5, <2>6, <2>7, <2>8, <2>9, <2>10
  <1>2. calls[w].pc \notin {"idle", "done"}
    BY DEF CreateRow, Reread, Save, CheckUsers, DeleteRow, UserAdd, ChPasswd,
           UserMod, UserDel, At
  <1>3. QED
    BY <1>1, <1>2, AloneGoesOn

LEMMA ProgressWorks ==
  ASSUME BaseInv, AloneInv, ProgressInv, NEW w \in Workers,
         \/ CreateRow(w) \/ Reread(w) \/ Save(w) \/ CheckUsers(w) \/ DeleteRow(w)
         \/ UserAdd(w) \/ ChPasswd(w) \/ UserMod(w) \/ UserDel(w)
  PROVE  AloneInv' /\ ProgressInv'
  <1>1. AloneInv'
    BY AloneWorks
  <1>2. ProgressInv'
    BY ProgressCreate, ProgressReread, ProgressSave, ProgressCheck, ProgressDelete,
       ProgressUserAdd, ProgressChPasswd, ProgressUserMod, ProgressUserDel
  <1>3. QED
    BY <1>1, <1>2

LEMMA ProgressStep ==
  BaseInv /\ AloneInv /\ ProgressInv /\ [Next]_vars => AloneInv' /\ ProgressInv'
  <1> SUFFICES ASSUME BaseInv, AloneInv, ProgressInv, [Next]_vars
               PROVE  AloneInv' /\ ProgressInv'
    OBVIOUS
  <1>1. BaseInv'
    BY BaseStep
  <1>2. ASSUME NEW w \in Workers, Request(w)
        PROVE  AloneInv' /\ ProgressInv'
    BY <1>2, AloneRequest, ProgressRequest
  <1>3. ASSUME NEW w \in Workers, Return(w)
        PROVE  AloneInv' /\ ProgressInv'
    BY <1>3, AloneReturns, ProgressReturn
  <1>4. ASSUME NEW w \in Workers, Step(w)
        PROVE  AloneInv' /\ ProgressInv'
    BY <1>1, <1>4, ProgressWorks, ProgressLogin DEF Step
  <1>5. CASE LockExpires \/ EndSession \/ UNCHANGED vars
    BY <1>5, ProgressTime
  <1>6. QED
    BY <1>2, <1>3, <1>4, <1>5 DEF Next

LEMMA ProgressInit == Init => AloneInv /\ ProgressInv
  BY NoCallFields DEF Init, AloneInv, ProgressInv

\* A request that reports success did all of what it says, however many run at
\* once, unless a command failed or another request for its user overlapped.
THEOREM OkIsTrue == Spec => []OkMeansDone
  <1>1. Spec => [](AloneInv /\ ProgressInv)
    BY ProgressInit, ProgressStep, BaseHolds, PTL DEF Spec
  <1>2. QED
    BY <1>1, OkIsDone, BaseHolds, PTL

=============================================================================
