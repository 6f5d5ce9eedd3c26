--------------------------- MODULE AccountsProofs ---------------------------
(* What TLAPS proves of Accounts, for every value of the constants.        *)
EXTENDS Accounts, TLAPS

-----------------------------------------------------------------------------
(* The inductive invariant *)

Busy(h) == pc[h] # "idle"

\* What every request knows, whatever the others do.
Local ==
  \A h \in Handlers : Busy(h) =>
    /\ req[h] \in Requests
    /\ pc[h] \in {"groups", "rmtree", "delete", "account", "rm"} => req[h].view = "deluser"
    /\ pc[h] = "system" => req[h].view \in {"changepwd", "reSetPwd", "reSetPwdUser"}
    /\ pc[h] \in {"home", "dirs"} => req[h].view = "register"
    /\ pc[h] = "save" => req[h].view # "deluser"
    /\ pc[h] \in {"save", "system", "groups", "rmtree", "delete"} /\ req[h].view # "register"
         => obj[h] \in Rows

\* A request that is alone is the only one of its user; the others have clashed, or had a
\* command fail.
AloneIsAlone ==
  \A h \in Handlers : Busy(h) =>
    IF req[h].alone THEN \A g \in Handlers : Busy(g) /\ req[g].user = req[h].user => g = h
                    ELSE req[h].user \in clash

Settled(u) ==
  /\ HasRow(u) /\ account[u] # Nothing => row[u].Password = account[u]
  /\ ~HasRow(u) => account[u] = Nothing

UpToDate(h) ==
  LET u == req[h].user IN
  /\ HasRow(u)
  /\ row[u].pk = obj[h].pk /\ row[u].Password = obj[h].Password

\* How far a request that is alone has come.
Stage(h) ==
  LET u == req[h].user
      v == req[h].view IN
  /\ pc[h] \in {"find", "groups", "rmtree", "delete", "dirs"} /\ u \notin clash => Settled(u)
  /\ pc[h] = "home" \/ (pc[h] = "save" /\ v = "register") =>
       /\ ~HasRow(u) /\ account[u] # Nothing
       /\ u \notin clash => account[u] = first
  /\ pc[h] = "save" /\ v # "register" =>
       /\ UpToDate(h)
       /\ IF v \in {"changepwd", "reSetPwdUser"} THEN account[u] \in {Nothing, req[h].new}
          ELSE u \notin clash => Settled(u)
  /\ pc[h] = "system" =>
       IF v = "reSetPwd" THEN HasRow(u) /\ row[u].Password = req[h].new ELSE UpToDate(h)
  /\ pc[h] \in {"groups", "rmtree", "delete"} => UpToDate(h)
  /\ pc[h] = "rm" => account[u] = Nothing

AloneIsInOrder == \A h \in Handlers : Busy(h) /\ req[h].alone => Stage(h)

Quiet ==
  \A u \in Users : u \notin clash /\ (\A h \in Handlers : Busy(h) => req[h].user # u) =>
    Settled(u)

IInv == TypeOK /\ Local /\ AloneIsAlone /\ AloneIsInOrder /\ Quiet

LEMMA Initially == Init => IInv
<1> SUFFICES ASSUME Init PROVE IInv
  OBVIOUS
<1> USE AccountsAssumption DEF Init
<1>1. TypeOK
  BY DEF TypeOK, Rows
<1>2. Local /\ AloneIsAlone /\ AloneIsInOrder
  BY DEF Local, AloneIsAlone, AloneIsInOrder, Busy
<1>3. Quiet
  <2>1. SUFFICES ASSUME NEW u \in Users PROVE Settled(u)
    BY DEF Quiet
  <2>2. CASE u = admin
    <3>1. row[u] \in Rows /\ row[u].Password = first /\ account[u] = first
      BY <2>2 DEF Rows
    <3>2. QED
      BY <3>1 DEF Settled, HasRow
  <2>3. CASE u # admin
    BY <2>3 DEF Settled, HasRow
  <2>4. QED
    BY <2>2, <2>3
<1>4. QED
  BY <1>1, <1>2, <1>3 DEF IInv

-----------------------------------------------------------------------------
(* What a step of one request leaves alone, and what it has to show        *)

\* The step h takes concerns its own user only.
Keeps(h) ==
  /\ \A v \in Users : v # req[h].user =>
       row'[v] = row[v] /\ account'[v] = account[v] /\ (v \in clash' <=> v \in clash)
  /\ \A g \in Handlers : g # h => pc'[g] = pc[g] /\ req'[g] = req[g] /\ obj'[g] = obj[g]

Goes(h) ==
  /\ pc'[h] # "idle"
  /\ req' = req /\ clash' = clash

Ends(h) ==
  /\ pc'[h] = "idle"
  /\ req[h].user \in clash /\ ~req[h].alone => req[h].user \in clash'

LEMMA OneUser ==
  ASSUME IInv, NEW h \in Handlers, Busy(h), NEW u \in Users, u = req[h].user, Keeps(h),
         Goes(h) \/ Ends(h), Goes(h) /\ req[h].alone => Stage(h)',
         Ends(h) /\ req[h].alone /\ u \notin clash' => Settled(u)'
  PROVE  AloneIsAlone' /\ AloneIsInOrder' /\ Quiet'
<1> USE DEF IInv
<1>0. \A g \in Handlers : Busy(g) => req[g].user \in Users
  BY DEF Local, Requests
<1>1. \A g \in Handlers : g # h => (Busy(g)' <=> Busy(g)) /\ req'[g] = req[g]
  BY DEF Keeps, Busy
<1>2. \A g \in Handlers : Busy(g)' => Busy(g) /\ req'[g] = req[g]
  BY <1>1 DEF Goes, Ends, Busy
<1>3. \A g \in Handlers : Busy(g) /\ ~req[g].alone /\ Busy(g)' => req[g].user \in clash'
  <2> SUFFICES ASSUME NEW g \in Handlers, Busy(g), ~req[g].alone, Busy(g)'
               PROVE  req[g].user \in clash'
    OBVIOUS
  <2>1. req[g].user \in clash
    BY DEF AloneIsAlone
  <2>2. CASE req[g].user # req[h].user
    BY <2>1, <2>2, <1>0 DEF Keeps
  <2>3. CASE req[g].user = req[h].user /\ Goes(h)
    BY <2>1, <2>3 DEF Goes
  <2>4. CASE req[g].user = req[h].user /\ Ends(h)
    <3>1. g # h
      BY <2>4 DEF Ends, Busy
    <3>2. ~req[h].alone
      BY <3>1, <2>4 DEF AloneIsAlone
    <3>3. QED
      BY <3>2, <2>4, <2>1 DEF Ends
  <2>5. QED
    BY <2>2, <2>3, <2>4
<1>4. AloneIsAlone'
  <2> SUFFICES ASSUME NEW g \in Handlers, Busy(g)'
               PROVE  IF req'[g].alone
                      THEN \A k \in Handlers : Busy(k)' /\ req'[k].user = req'[g].user => k = g
                      ELSE req'[g].user \in clash'
    BY DEF AloneIsAlone
  <2>1. CASE req'[g].alone
    BY <1>2, <2>1 DEF AloneIsAlone
  <2>2. CASE ~req'[g].alone
    BY <1>2, <1>3, <2>2
  <2>3. QED
    BY <2>1, <2>2
<1>5. AloneIsInOrder'
  <2> SUFFICES ASSUME NEW g \in Handlers, Busy(g)', req'[g].alone PROVE Stage(g)'
    BY DEF AloneIsInOrder
  <2>1. CASE g = h
    BY <2>1, <1>2 DEF Goes, Ends, Busy
  <2>2. CASE g # h
    <3>1. req[g].user # req[h].user /\ req[g].user \in Users /\ Busy(g)
      BY <2>2, <1>0, <1>2 DEF AloneIsAlone
    <3>2. Stage(g)
      BY <3>1, <1>2 DEF AloneIsInOrder
    <3>3. /\ row'[req[g].user] = row[req[g].user] /\ account'[req[g].user] = account[req[g].user]
          /\ req[g].user \in clash' <=> req[g].user \in clash
          /\ pc'[g] = pc[g] /\ req'[g] = req[g] /\ obj'[g] = obj[g]
      BY <2>2, <3>1 DEF Keeps
    <3>4. QED
      BY <3>2, <3>3 DEF Stage, Settled, UpToDate, HasRow
  <2>3. QED
    BY <2>1, <2>2
<1>6. Quiet'
  <2> SUFFICES ASSUME NEW v \in Users, v \notin clash',
                      \A g \in Handlers : Busy(g)' => req'[g].user # v
               PROVE  Settled(v)'
    BY DEF Quiet
  <2>1. CASE v = req[h].user
    <3>1. Ends(h)
      BY <2>1 DEF Goes, Busy
    <3>2. req[h].alone
      BY <2>1, <3>1 DEF AloneIsAlone, Ends
    <3>3. QED
      BY <2>1, <3>1, <3>2
  <2>2. CASE v # req[h].user
    <3>1. \A g \in Handlers : Busy(g) => req[g].user # v
      BY <2>2, <1>1
    <3>2. row'[v] = row[v] /\ account'[v] = account[v] /\ v \notin clash
      BY <2>2 DEF Keeps
    <3>3. QED
      BY <3>1, <3>2 DEF Quiet, Settled, HasRow
  <2>3. QED
    BY <2>1, <2>2
<1>7. QED
  BY <1>4, <1>5, <1>6
-----------------------------------------------------------------------------
(* How a step of a request goes on                                         *)

Places == {"idle", "find", "save", "system", "home", "dirs", "groups", "rmtree", "delete",
           "account", "rm"}

RequestsOK ==
  /\ pc \in [Handlers -> Places]
  /\ req \in [Handlers -> Requests \cup {Nothing}]
  /\ obj \in [Handlers -> Rows \cup {Nothing}]
  /\ clash \subseteq Users

OthersGo(h) ==
  \A g \in Handlers : g # h => pc'[g] = pc[g] /\ req'[g] = req[g] /\ obj'[g] = obj[g]

SameClash(h) ==
  \A v \in Users : v # req[h].user => (v \in clash' <=> v \in clash)

LEMMA Answering ==
  ASSUME IInv, NEW h \in Handlers, Busy(h), Answer(h)
  PROVE  RequestsOK' /\ Local' /\ Ends(h) /\ OthersGo(h) /\ SameClash(h)
<1> USE DEF Answer, Goto
<1>0. TypeOK /\ Local
  BY DEF IInv
<1>1. pc' \in [Handlers -> Places] /\ pc'[h] = "idle"
  BY <1>0 DEF TypeOK, Places
<1>2. req' \in [Handlers -> Requests \cup {Nothing}] /\ obj' \in [Handlers -> Rows \cup {Nothing}]
  BY <1>0 DEF TypeOK
<1>3. OthersGo(h)
  BY <1>0 DEF TypeOK, OthersGo
<1>4. clash' \subseteq Users /\ SameClash(h)
  BY <1>0 DEF TypeOK, SameClash
<1>5. Local'
  <2> SUFFICES ASSUME NEW g \in Handlers, Busy(g)'
               PROVE g # h /\ Busy(g) /\ pc'[g] = pc[g] /\ req'[g] = req[g] /\ obj'[g] = obj[g]
    BY <1>0 DEF Local
  <2> QED
    BY <1>1, <1>3 DEF OthersGo, Busy
<1>6. QED
  BY <1>1, <1>2, <1>3, <1>4, <1>5 DEF RequestsOK, Ends

\* What a request has to know at a place.
Knows(h, l) ==
  /\ l \in {"groups", "rmtree", "delete", "account", "rm"} => req[h].view = "deluser"
  /\ l = "system" => req[h].view \in PasswordViews
  /\ l \in {"home", "dirs"} => req[h].view = "register"
  /\ l = "save" => req[h].view # "deluser"

HasObject(h, l) ==
  l \in {"save", "system", "groups", "rmtree", "delete"} /\ req[h].view # "register" =>
    obj'[h] \in Rows

LEMMA Moving ==
  ASSUME IInv, NEW h \in Handlers, Busy(h), NEW l \in Places \ {"idle"}, Goto(h, l),
         req' = req, clash' = clash, OthersGo(h), Knows(h, l), HasObject(h, l),
         obj' \in [Handlers -> Rows \cup {Nothing}]
  PROVE  RequestsOK' /\ Local' /\ Goes(h) /\ SameClash(h) /\ pc'[h] = l
<1> USE DEF Goto
<1>0. TypeOK /\ Local
  BY DEF IInv
<1>1. pc' \in [Handlers -> Places] /\ pc'[h] = l
  BY <1>0 DEF TypeOK, Places
<1>2. Local'
  <2> SUFFICES ASSUME NEW g \in Handlers, Busy(g)'
               PROVE
                 /\ req'[g] \in Requests
                 /\ pc'[g] \in {"groups", "rmtree", "delete", "account", "rm"} =>
                      req'[g].view = "deluser"
                 /\ pc'[g] = "system" => req'[g].view \in PasswordViews
                 /\ pc'[g] \in {"home", "dirs"} => req'[g].view = "register"
                 /\ pc'[g] = "save" => req'[g].view # "deluser"
                 /\ pc'[g] \in {"save", "system", "groups", "rmtree", "delete"}
                      /\ req'[g].view # "register" => obj'[g] \in Rows
    BY DEF Local, PasswordViews
  <2>1. CASE g = h
    BY <2>1, <1>0, <1>1 DEF Knows, HasObject, Local
  <2>2. CASE g # h
    BY <2>2, <1>0 DEF OthersGo, Busy, Local, PasswordViews
  <2>3. QED
    BY <2>1, <2>2
<1>3. QED
  BY <1>0, <1>1, <1>2 DEF RequestsOK, Goes, SameClash, TypeOK

LEMMA Continuing ==
  ASSUME IInv, NEW h \in Handlers, Busy(h), NEW l \in Places \ {"idle"}, Continue(h, l),
         Knows(h, l),
         l \in {"save", "system", "groups", "rmtree", "delete"} /\ req[h].view # "register" =>
           obj[h] \in Rows
  PROVE  RequestsOK' /\ Local' /\ Goes(h) /\ OthersGo(h) /\ SameClash(h) /\ pc'[h] = l
<1>1. TypeOK
  BY DEF IInv
<1>2. OthersGo(h)
  BY <1>1 DEF OthersGo, Continue, Goto, TypeOK
<1>3. HasObject(h, l) /\ obj' \in [Handlers -> Rows \cup {Nothing}]
  BY <1>1 DEF HasObject, Continue, TypeOK
<1>4. Goto(h, l) /\ req' = req /\ clash' = clash
  BY DEF Continue
<1>5. QED
  BY <1>2, <1>3, <1>4, Moving

StoredOK ==
  /\ row \in [Users -> Rows \cup {Nothing}]
  /\ account \in [Users -> Passwords \cup {Nothing}]
  /\ home \subseteq Users /\ ug \subseteq Users /\ nextPk \in Nat

BoundsOK == requests \in Nat /\ failures \in Nat /\ restarts \in Nat

LEMMA SameBounds == ASSUME IInv, UNCHANGED bounds PROVE BoundsOK'
  BY DEF IInv, TypeOK, BoundsOK, bounds

SameUsers(u) ==
  \A v \in Users : v # u => row'[v] = row[v] /\ account'[v] = account[v]

LEMMA StepOK ==
  ASSUME IInv, NEW h \in Handlers, Busy(h), NEW u \in Users, u = req[h].user,
         RequestsOK', Local', StoredOK', BoundsOK', Goes(h) \/ Ends(h),
         OthersGo(h), SameClash(h), SameUsers(u),
         Goes(h) /\ req[h].alone => Stage(h)',
         Ends(h) /\ req[h].alone /\ u \notin clash' => Settled(u)'
  PROVE  IInv'
<1>1. Keeps(h)
  BY DEF Keeps, OthersGo, SameClash, SameUsers
<1>2. AloneIsAlone' /\ AloneIsInOrder' /\ Quiet'
  BY <1>1, OneUser
<1>3. TypeOK'
  BY DEF TypeOK, RequestsOK, Places, StoredOK, BoundsOK
<1>4. QED
  BY <1>2, <1>3 DEF IInv
-----------------------------------------------------------------------------
(* One lemma per step                                                      *)

LEMMA TheUser ==
  ASSUME IInv, NEW h \in Handlers, Busy(h)
  PROVE  /\ req[h] \in Requests /\ req[h].user \in Users
         /\ req[h].alone \in BOOLEAN
         /\ req[h].alone => Stage(h)
         /\ StoredOK
  BY DEF IInv, Local, AloneIsInOrder, Requests, TypeOK, StoredOK

LEMMA FindOK == ASSUME IInv, NEW h \in Handlers, Find(h) PROVE IInv'
<1> DEFINE u == req[h].user
           l == After(req[h].view)
<1>1. Busy(h) /\ TypeOK
  BY DEF Find, Busy, IInv
<1>2. u \in Users /\ StoredOK /\ (req[h].alone => Stage(h))
  BY <1>1, TheUser
<1>3. row[u] \in Rows /\ obj' = [obj EXCEPT ![h] = row[u]]
  BY <1>2 DEF Find, Found, HasRow, StoredOK
<1>4. obj' \in [Handlers -> Rows \cup {Nothing}] /\ obj'[h] = row[u] /\ OthersGo(h)
  BY <1>1, <1>3 DEF TypeOK, OthersGo, Find, Goto
<1>5. /\ l \in {"save", "system", "groups"}
      /\ l = "system" => req[h].view \in {"changepwd", "reSetPwdUser"}
      /\ l = "groups" <=> req[h].view = "deluser"
      /\ l = "save" => req[h].view \notin {"changepwd", "reSetPwdUser"}
  BY DEF After
<1>6. Knows(h, l) /\ HasObject(h, l)
  BY <1>3, <1>4, <1>5 DEF Knows, HasObject, PasswordViews
<1>7. Goto(h, l) /\ req' = req /\ clash' = clash /\ UNCHANGED <<stored, bounds>>
  BY DEF Find
<1> HIDE DEF l
<1>8. RequestsOK' /\ Local' /\ Goes(h) /\ SameClash(h) /\ pc'[h] = l
  BY <1>1, <1>4, <1>5, <1>6, <1>7, Moving DEF Places
<1>9. StoredOK' /\ SameUsers(u)
  BY <1>2, <1>7 DEF StoredOK, SameUsers, stored
<1>10. ASSUME req[h].alone PROVE Stage(h)'
  <2>1. u \notin clash => Settled(u)
    BY <1>2, <1>10 DEF Stage, Find
  <2>2. row' = row /\ account' = account /\ row[u] # Nothing
    BY <1>3, <1>7, AccountsAssumption DEF stored
  <2>3. req[h].view # "register"
    BY DEF Find
  <2> HIDE DEF u
  <2>4. req'[h] = req[h] /\ u = req[h].user
    BY <1>7 DEF u
  <2>5. QED
    BY <1>4, <1>5, <1>7, <1>8, <2>1, <2>2, <2>3, <2>4 DEF Stage, UpToDate, Settled, HasRow
<1>11. QED
  BY <1>1, <1>2, <1>4, <1>7, <1>8, <1>9, <1>10, SameBounds, StepOK DEF Goes, Ends

LEMMA NotFoundOK == ASSUME IInv, NEW h \in Handlers, NotFound(h) PROVE IInv'
<1> DEFINE u == req[h].user
<1>1. Busy(h)
  BY DEF NotFound, Busy
<1>2. u \in Users /\ StoredOK /\ (req[h].alone => Stage(h))
  BY <1>1, TheUser
<1>3. Answer(h) /\ UNCHANGED <<stored, bounds>>
  BY DEF NotFound
<1>4. RequestsOK' /\ Local' /\ Ends(h) /\ OthersGo(h) /\ SameClash(h)
  BY <1>1, <1>3, Answering
<1>5. StoredOK' /\ SameUsers(u)
  BY <1>2, <1>3 DEF StoredOK, SameUsers, stored
<1>6. clash' = clash
  BY DEF NotFound, Answer
<1>7. SUFFICES ASSUME NEW v \in Users, v = u, req[h].alone, v \notin clash' PROVE Settled(v)'
  BY <1>1, <1>2, <1>3, <1>4, <1>5, SameBounds, StepOK DEF Goes, Ends
<1>8. Settled(v)
  BY <1>2, <1>6, <1>7 DEF Stage, NotFound
<1>9. QED
  BY <1>3, <1>8 DEF Settled, HasRow, stored
LEMMA ChangedOK ==
  ASSUME NEW v, NEW r \in Rows, NEW new \in Passwords
  PROVE  LET c == Changed(v, r, new) IN
         /\ c \in Rows /\ c.pk = r.pk
         /\ c.Password = IF v \in PasswordViews THEN new ELSE r.Password
<1> DEFINE c == Changed(v, r, new)
<1>1. (v = "login" \/ (r.login /\ v # "logout")) \in BOOLEAN /\ (r.code \/ v = "check_answer") \in BOOLEAN
  OBVIOUS
<1>2. (IF v \in PasswordViews THEN new ELSE r.Password) \in Passwords
  BY DEF Rows
<1>3. QED
  BY <1>1, <1>2 DEF Changed, Rows

LEMMA SaveOK == ASSUME IInv, NEW h \in Handlers, Save(h) PROVE IInv'
<1> DEFINE u == req[h].user
           r == Changed(req[h].view, obj[h], req[h].new)
<1>1. Busy(h) /\ TypeOK /\ Local
  BY DEF Save, Busy, IInv
<1>2. u \in Users /\ StoredOK /\ (req[h].alone => Stage(h)) /\ req[h].new \in Passwords
  BY <1>1, TheUser DEF Requests
<1>3. obj[h] \in Rows /\ req[h].view # "register" /\ pc[h] = "save"
  BY <1>1 DEF Save, Local
<1>4. /\ r \in Rows /\ r.pk = obj[h].pk
      /\ r.Password = IF req[h].view \in PasswordViews THEN req[h].new ELSE obj[h].Password
  BY <1>2, <1>3, ChangedOK
<1>5. UNCHANGED <<account, home, ug, nextPk, bounds>>
  BY DEF Save
<1> HIDE DEF r
<1>6. \/ CanSave(r, u) /\ row' = [row EXCEPT ![u] = r]
      \/ ~CanSave(r, u) /\ row' = row
  BY DEF Save, r
<1>7. StoredOK' /\ SameUsers(u)
  BY <1>2, <1>4, <1>5, <1>6 DEF StoredOK, SameUsers
<1>8. req[h].alone => UpToDate(h) /\ CanSave(r, u)
  BY <1>2, <1>3, <1>4 DEF Stage, UpToDate, CanSave
<1>9. CASE Continue(h, "system")
  <2>1. req[h].view = "reSetPwd" /\ CanSave(r, u)
    <3>1. pc'[h] = "system"
      BY <1>1, <1>9 DEF TypeOK, Continue, Goto
    <3>2. ~Answer(h)
      BY <3>1, <1>1 DEF Answer, Goto, TypeOK
    <3>3. QED
      BY <3>2 DEF Save, r
  <2>2. Knows(h, "system")
    BY <2>1 DEF Knows, PasswordViews
  <2>3. RequestsOK' /\ Local' /\ Goes(h) /\ OthersGo(h) /\ SameClash(h) /\ pc'[h] = "system"
    BY <1>1, <1>3, <1>9, <2>2, Continuing DEF Places
  <2>4. row'[u] = r /\ req'[h] = req[h]
    BY <1>2, <1>6, <1>9, <2>1 DEF StoredOK, Continue
  <2>5. r # Nothing /\ r.Password = req[h].new
    BY <1>4, <2>1, AccountsAssumption DEF PasswordViews
  <2>6. Stage(h)'
    BY <2>1, <2>3, <2>4, <2>5 DEF Stage, HasRow
  <2>7. QED
    BY <1>1, <1>2, <1>5, <1>7, <2>3, <2>6, SameBounds, StepOK DEF Goes, Ends
<1>10. CASE Answer(h) /\ req[h].view # "reSetPwd"
  <2>1. RequestsOK' /\ Local' /\ Ends(h) /\ OthersGo(h) /\ SameClash(h)
    BY <1>1, <1>10, Answering
  <2>2. SUFFICES ASSUME NEW v \in Users, v = u, req[h].alone, v \notin clash' PROVE Settled(v)'
    BY <1>1, <1>2, <1>5, <1>7, <2>1, SameBounds, StepOK DEF Goes, Ends
  <2>3. row'[v] = r /\ r # Nothing /\ account'[v] = account[v]
    BY <1>2, <1>4, <1>5, <1>6, <1>8, <2>2, AccountsAssumption DEF StoredOK
  <2>4. CASE req[h].view \in {"changepwd", "reSetPwdUser"}
    <3>1. account[v] \in {Nothing, req[h].new}
      BY <1>2, <1>3, <2>2, <2>4 DEF Stage
    <3>2. r.Password = req[h].new
      BY <1>4, <2>4 DEF PasswordViews
    <3>3. QED
      BY <2>3, <3>1, <3>2 DEF Settled, HasRow
  <2>5. CASE req[h].view \notin PasswordViews
    <3>1. clash' = clash
      BY <1>10, <2>5 DEF Answer
    <3>2. Settled(v)
      BY <1>2, <1>3, <2>2, <2>5, <3>1 DEF Stage, PasswordViews
    <3>3. r.Password = row[v].Password /\ HasRow(v)
      BY <1>4, <1>8, <2>2, <2>5 DEF UpToDate
    <3>4. QED
      BY <2>3, <3>2, <3>3 DEF Settled, HasRow
  <2>6. QED
    BY <1>10, <2>4, <2>5 DEF PasswordViews
<1>11. CASE Answer(h) /\ ~CanSave(r, u)
  <2>1. RequestsOK' /\ Local' /\ Ends(h) /\ OthersGo(h) /\ SameClash(h)
    BY <1>1, <1>11, Answering
  <2>2. QED
    BY <1>1, <1>2, <1>5, <1>7, <1>8, <1>11, <2>1, SameBounds, StepOK DEF Goes, Ends
<1>12. QED
  BY <1>9, <1>10, <1>11 DEF Save, r

LEMMA SystemOK == ASSUME IInv, NEW h \in Handlers, System(h) PROVE IInv'
<1> DEFINE u == req[h].user
<1>1. Busy(h) /\ TypeOK /\ Local /\ pc[h] = "system"
  BY DEF System, Busy, IInv
<1>2. u \in Users /\ StoredOK /\ (req[h].alone => Stage(h)) /\ req[h].new \in Passwords
  BY <1>1, TheUser DEF Requests
<1>3. req[h].view \in PasswordViews /\ obj[h] \in Rows
  BY <1>1 DEF Local, PasswordViews
<1>4. /\ account' = [account EXCEPT ![u] = IF @ = Nothing THEN Nothing ELSE req[h].new]
      /\ UNCHANGED <<row, home, ug, nextPk, bounds>>
  BY DEF System, SetPassword
<1>5. account'[u] \in {Nothing, req[h].new} /\ StoredOK' /\ SameUsers(u)
  BY <1>2, <1>4 DEF StoredOK, SameUsers
<1>6. CASE Answer(h) /\ req[h].view = "reSetPwd"
  <2>1. RequestsOK' /\ Local' /\ Ends(h) /\ OthersGo(h) /\ SameClash(h)
    BY <1>1, <1>6, Answering
  <2>2. SUFFICES ASSUME NEW v \in Users, v = u, req[h].alone PROVE Settled(v)'
    BY <1>1, <1>2, <1>4, <1>5, <2>1, SameBounds, StepOK DEF Goes, Ends
  <2>3. HasRow(v) /\ row[v].Password = req[h].new
    BY <1>1, <1>2, <1>6, <2>2 DEF Stage
  <2>4. QED
    BY <1>4, <1>5, <2>2, <2>3 DEF Settled, HasRow
<1>7. CASE Continue(h, "save") /\ req[h].view # "reSetPwd"
  <2>1. Knows(h, "save")
    BY <1>3 DEF Knows, PasswordViews
  <2>2. RequestsOK' /\ Local' /\ Goes(h) /\ OthersGo(h) /\ SameClash(h) /\ pc'[h] = "save"
    BY <1>1, <1>3, <1>7, <2>1, Continuing DEF Places
  <2>3. ASSUME req[h].alone PROVE Stage(h)'
    <3>1. UpToDate(h)
      BY <1>1, <1>2, <1>7, <2>3 DEF Stage
    <3>2. req'[h] = req[h] /\ obj'[h] = obj[h] /\ row' = row
      BY <1>4, <1>7 DEF Continue
    <3>3. UpToDate(h)'
      BY <3>1, <3>2 DEF UpToDate, HasRow
    <3>4. QED
      BY <1>3, <1>5, <1>7, <2>2, <3>2, <3>3 DEF Stage, PasswordViews
  <2>4. QED
    BY <1>1, <1>2, <1>4, <1>5, <2>2, <2>3, SameBounds, StepOK DEF Goes, Ends
<1>8. QED
  BY <1>6, <1>7 DEF System
LEMMA CreateAccountOK == ASSUME IInv, NEW h \in Handlers, CreateAccount(h) PROVE IInv'
<1> DEFINE u == req[h].user
<1>1. Busy(h) /\ TypeOK /\ pc[h] = "find" /\ req[h].view = "register" /\ ~HasRow(u)
  BY DEF CreateAccount, Busy, IInv
<1>2. u \in Users /\ StoredOK /\ (req[h].alone => Stage(h))
  BY <1>1, TheUser
<1>3. /\ account' = [account EXCEPT ![u] = IF @ = Nothing THEN first ELSE @]
      /\ Continue(h, "home") /\ UNCHANGED <<row, home, ug, nextPk, bounds>>
  BY DEF CreateAccount
<1>4. /\ account'[u] = IF account[u] = Nothing THEN first ELSE account[u]
      /\ StoredOK' /\ SameUsers(u)
  BY <1>2, <1>3, AccountsAssumption DEF StoredOK, SameUsers
<1>5. RequestsOK' /\ Local' /\ Goes(h) /\ OthersGo(h) /\ SameClash(h) /\ pc'[h] = "home"
  <2>1. Knows(h, "home")
    BY <1>1 DEF Knows
  <2>2. QED
    BY <1>1, <1>3, <2>1, Continuing DEF Places
<1>6. ASSUME req[h].alone PROVE Stage(h)'
  <2>1. u \notin clash => account'[u] = first
    BY <1>1, <1>2, <1>4, <1>6 DEF Stage, Settled
  <2>2. account'[u] # Nothing
    BY <1>4, AccountsAssumption
  <2>3. req'[h] = req[h] /\ clash' = clash /\ row' = row
    BY <1>3 DEF Continue
  <2>4. QED
    BY <1>1, <1>5, <2>1, <2>2, <2>3 DEF Stage, HasRow
<1>7. QED
  BY <1>1, <1>2, <1>3, <1>4, <1>5, <1>6, SameBounds, StepOK DEF Goes, Ends

LEMMA CreateHomeOK == ASSUME IInv, NEW h \in Handlers, CreateHome(h) PROVE IInv'
<1> DEFINE u == req[h].user
<1>1. Busy(h) /\ TypeOK /\ Local /\ pc[h] = "home"
  BY DEF CreateHome, Busy, IInv
<1>2. u \in Users /\ StoredOK /\ (req[h].alone => Stage(h)) /\ req[h].view = "register"
  BY <1>1, TheUser DEF Local
<1>3. /\ home' = home \cup {u} /\ Continue(h, "save")
      /\ UNCHANGED <<row, account, ug, nextPk, bounds>>
  BY DEF CreateHome
<1>4. StoredOK' /\ SameUsers(u)
  BY <1>2, <1>3 DEF StoredOK, SameUsers
<1>5. RequestsOK' /\ Local' /\ Goes(h) /\ OthersGo(h) /\ SameClash(h) /\ pc'[h] = "save"
  <2>1. Knows(h, "save")
    BY <1>2 DEF Knows
  <2>2. QED
    BY <1>1, <1>2, <1>3, <2>1, Continuing DEF Places
<1>6. ASSUME req[h].alone PROVE Stage(h)'
  <2>1. /\ ~HasRow(u) /\ account[u] # Nothing
        /\ u \notin clash => account[u] = first
    BY <1>1, <1>2, <1>6 DEF Stage
  <2>2. QED
    BY <1>2, <1>3, <1>5, <2>1 DEF Stage, HasRow, Continue
<1>7. QED
  BY <1>1, <1>2, <1>3, <1>4, <1>5, <1>6, SameBounds, StepOK DEF Goes, Ends

LEMMA InsertOK == ASSUME IInv, NEW h \in Handlers, Insert(h) PROVE IInv'
<1> DEFINE u == req[h].user
<1>1. Busy(h) /\ TypeOK /\ pc[h] = "save" /\ req[h].view = "register"
  BY DEF Insert, Busy, IInv
<1>2. u \in Users /\ StoredOK /\ (req[h].alone => Stage(h))
  BY <1>1, TheUser
<1>3. UNCHANGED <<account, home, ug, bounds>>
  BY DEF Insert
<1>4. CASE HasRow(u)
  <2>1. UNCHANGED <<row, nextPk>> /\ Answer(h)
    BY <1>4 DEF Insert
  <2>2. RequestsOK' /\ Local' /\ Ends(h) /\ OthersGo(h) /\ SameClash(h)
    BY <1>1, <2>1, Answering
  <2>3. StoredOK' /\ SameUsers(u)
    BY <1>2, <1>3, <2>1 DEF StoredOK, SameUsers
  <2>4. ~req[h].alone
    BY <1>1, <1>2, <1>4 DEF Stage
  <2>5. QED
    BY <1>1, <1>2, <1>3, <2>2, <2>3, <2>4, SameBounds, StepOK DEF Goes, Ends
<1>5. CASE ~HasRow(u)
  <2> DEFINE r == [pk |-> nextPk, Password |-> first, code |-> FALSE, login |-> FALSE]
  <2>1. row' = [row EXCEPT ![u] = r] /\ nextPk' = nextPk + 1 /\ Continue(h, "dirs")
    BY <1>5 DEF Insert
  <2>2. r \in Rows /\ r.Password = first
    BY <1>2, AccountsAssumption DEF StoredOK, Rows
  <2> HIDE DEF r
  <2>3. StoredOK' /\ SameUsers(u) /\ row'[u] = r
    BY <1>2, <1>3, <2>1, <2>2 DEF StoredOK, SameUsers
  <2>4. RequestsOK' /\ Local' /\ Goes(h) /\ OthersGo(h) /\ SameClash(h) /\ pc'[h] = "dirs"
    <3>1. Knows(h, "dirs")
      BY <1>1 DEF Knows
    <3>2. QED
      BY <1>1, <2>1, <3>1, Continuing DEF Places
  <2>5. ASSUME req[h].alone PROVE Stage(h)'
    <3>1. u \notin clash => account[u] = first
      BY <1>1, <1>2, <2>5 DEF Stage
    <3>2. r # Nothing
      BY <2>2, AccountsAssumption
    <3>3. req'[h] = req[h] /\ clash' = clash
      BY <2>1 DEF Continue
    <3>4. QED
      BY <1>3, <2>2, <2>3, <2>4, <3>1, <3>2, <3>3 DEF Stage, Settled, HasRow
  <2>6. QED
    BY <1>1, <1>2, <1>3, <2>3, <2>4, <2>5, SameBounds, StepOK DEF Goes, Ends
<1>6. QED
  BY <1>4, <1>5

LEMMA MakeDirsOK == ASSUME IInv, NEW h \in Handlers, MakeDirs(h) PROVE IInv'
<1> DEFINE u == req[h].user
<1>1. Busy(h) /\ TypeOK /\ Local /\ pc[h] = "dirs"
  BY DEF MakeDirs, Busy, IInv
<1>2. u \in Users /\ StoredOK /\ (req[h].alone => Stage(h)) /\ req[h].view = "register"
  BY <1>1, TheUser DEF Local
<1>3. home' = home \cup {u} /\ Answer(h) /\ UNCHANGED <<row, account, ug, nextPk, bounds>>
  BY DEF MakeDirs
<1>4. RequestsOK' /\ Local' /\ Ends(h) /\ OthersGo(h) /\ SameClash(h)
  BY <1>1, <1>3, Answering
<1>5. StoredOK' /\ SameUsers(u)
  BY <1>2, <1>3 DEF StoredOK, SameUsers
<1>6. clash' = clash
  BY <1>2, <1>3 DEF Answer, PasswordViews
<1>7. SUFFICES ASSUME NEW v \in Users, v = u, req[h].alone, v \notin clash' PROVE Settled(v)'
  BY <1>1, <1>2, <1>3, <1>4, <1>5, SameBounds, StepOK DEF Goes, Ends
<1>8. Settled(v)
  BY <1>1, <1>2, <1>6, <1>7 DEF Stage
<1>9. QED
  BY <1>3, <1>8 DEF Settled, HasRow

\* The steps of deluser before the row goes.
LEMMA DeletingOK ==
  ASSUME IInv, NEW h \in Handlers, pc[h] \in {"groups", "rmtree"},
         NEW l \in {"rmtree", "delete", "account"}, Continue(h, l),
         StoredOK', BoundsOK', UNCHANGED <<row, account>>
  PROVE  IInv'
<1> DEFINE u == req[h].user
<1>1. Busy(h) /\ TypeOK /\ Local
  BY DEF Busy, IInv
<1>2. /\ u \in Users /\ (req[h].alone => Stage(h)) /\ req[h].view = "deluser"
      /\ obj[h] \in Rows
  BY <1>1, TheUser DEF Local
<1>3. SameUsers(u)
  BY DEF SameUsers
<1>4. RequestsOK' /\ Local' /\ Goes(h) /\ OthersGo(h) /\ SameClash(h) /\ pc'[h] = l
  <2>1. Knows(h, l)
    BY <1>2 DEF Knows
  <2>2. QED
    BY <1>1, <1>2, <2>1, Continuing DEF Places
<1>5. ASSUME req[h].alone PROVE Stage(h)'
  <2>1. (u \notin clash => Settled(u)) /\ UpToDate(h)
    BY <1>2, <1>5 DEF Stage
  <2>2. req'[h] = req[h] /\ obj'[h] = obj[h] /\ clash' = clash
    BY DEF Continue
  <2>3. QED
    BY <1>4, <2>1, <2>2 DEF Stage, UpToDate, Settled, HasRow
<1>6. QED
  BY <1>1, <1>2, <1>3, <1>4, <1>5, StepOK DEF Goes, Ends

LEMMA GroupsOK == ASSUME IInv, NEW h \in Handlers, Groups(h) PROVE IInv'
<1>1. StoredOK' /\ UNCHANGED <<row, account, bounds>>
  BY DEF Groups, stored, StoredOK, IInv, TypeOK
<1>2. Continue(h, "account") \/ Continue(h, "rmtree")
  BY DEF Groups
<1>3. QED
  BY <1>1, <1>2, SameBounds, DeletingOK DEF Groups

LEMMA RmtreeOK == ASSUME IInv, NEW h \in Handlers, Rmtree(h) PROVE IInv'
<1>1. StoredOK' /\ UNCHANGED <<row, account, bounds>>
  BY DEF Rmtree, StoredOK, IInv, TypeOK
<1>2. QED
  BY <1>1, SameBounds, DeletingOK DEF Rmtree

LEMMA RmtreeFailsOK == ASSUME IInv, NEW h \in Handlers, RmtreeFails(h) PROVE IInv'
<1>1. StoredOK' /\ BoundsOK' /\ UNCHANGED <<row, account>>
  BY DEF RmtreeFails, stored, StoredOK, BoundsOK, IInv, TypeOK
<1>2. QED
  BY <1>1, DeletingOK DEF RmtreeFails

LEMMA DeleteRowOK == ASSUME IInv, NEW h \in Handlers, DeleteRow(h) PROVE IInv'
<1> DEFINE u == req[h].user
<1>1. Busy(h) /\ TypeOK /\ Local /\ pc[h] = "delete"
  BY DEF DeleteRow, Busy, IInv
<1>2. u \in Users /\ StoredOK /\ req[h].view = "deluser"
  BY <1>1, TheUser DEF Local
<1>3. /\ row' = [row EXCEPT ![u] = IF HasRow(u) /\ @.pk = obj[h].pk THEN Nothing ELSE @]
      /\ Continue(h, "account") /\ UNCHANGED <<account, home, ug, nextPk, bounds>>
  BY DEF DeleteRow
<1>4. StoredOK' /\ SameUsers(u)
  BY <1>2, <1>3 DEF StoredOK, SameUsers
<1>5. RequestsOK' /\ Local' /\ Goes(h) /\ OthersGo(h) /\ SameClash(h) /\ pc'[h] = "account"
  <2>1. Knows(h, "account")
    BY <1>2 DEF Knows
  <2>2. QED
    BY <1>1, <1>3, <2>1, Continuing DEF Places
<1>6. Stage(h)'
  BY <1>5 DEF Stage
<1>7. QED
  BY <1>1, <1>2, <1>3, <1>4, <1>5, <1>6, SameBounds, StepOK DEF Goes, Ends

LEMMA DeleteAccountOK == ASSUME IInv, NEW h \in Handlers, DeleteAccount(h) PROVE IInv'
<1> DEFINE u == req[h].user
<1>1. Busy(h) /\ TypeOK /\ Local /\ pc[h] = "account"
  BY DEF DeleteAccount, Busy, IInv
<1>2. u \in Users /\ StoredOK /\ req[h].view = "deluser"
  BY <1>1, TheUser DEF Local
<1>3. /\ account' = [account EXCEPT ![u] = Nothing]
      /\ Continue(h, "rm") /\ UNCHANGED <<row, home, ug, nextPk, bounds>>
  BY DEF DeleteAccount
<1>4. StoredOK' /\ SameUsers(u) /\ account'[u] = Nothing
  BY <1>2, <1>3 DEF StoredOK, SameUsers
<1>5. RequestsOK' /\ Local' /\ Goes(h) /\ OthersGo(h) /\ SameClash(h) /\ pc'[h] = "rm"
  <2>1. Knows(h, "rm")
    BY <1>2 DEF Knows
  <2>2. QED
    BY <1>1, <1>3, <2>1, Continuing DEF Places
<1>6. Stage(h)'
  BY <1>3, <1>4, <1>5 DEF Stage, Continue
<1>7. QED
  BY <1>1, <1>2, <1>3, <1>4, <1>5, <1>6, SameBounds, StepOK DEF Goes, Ends

LEMMA RmOK == ASSUME IInv, NEW h \in Handlers, Rm(h) PROVE IInv'
<1> DEFINE u == req[h].user
<1>1. Busy(h) /\ TypeOK /\ pc[h] = "rm"
  BY DEF Rm, Busy, IInv
<1>2. u \in Users /\ StoredOK /\ (req[h].alone => Stage(h))
  BY <1>1, TheUser
<1>3. home' = home \ {u} /\ Answer(h) /\ UNCHANGED <<row, account, ug, nextPk, bounds>>
  BY DEF Rm
<1>4. RequestsOK' /\ Local' /\ Ends(h) /\ OthersGo(h) /\ SameClash(h)
  BY <1>1, <1>3, Answering
<1>5. StoredOK' /\ SameUsers(u)
  BY <1>2, <1>3 DEF StoredOK, SameUsers
<1>6. SUFFICES ASSUME NEW v \in Users, v = u, req[h].alone PROVE Settled(v)'
  BY <1>1, <1>2, <1>3, <1>4, <1>5, SameBounds, StepOK DEF Goes, Ends
<1>7. account'[v] = Nothing
  BY <1>1, <1>2, <1>3, <1>6 DEF Stage
<1>8. QED
  BY <1>7 DEF Settled
LEMMA ComeOK ==
  ASSUME IInv, NEW h \in Handlers, NEW v \in Views, NEW u \in Users,
         NEW old \in Passwords, NEW new \in Passwords, Come(h, v, u, old, new)
  PROVE  IInv'
<1> DEFINE mine == [view |-> v, user |-> u, old |-> old, new |-> new, alone |-> Of(u) = {}]
<1>0. TypeOK /\ Local /\ AloneIsAlone /\ AloneIsInOrder /\ Quiet /\ ~Busy(h)
  BY DEF IInv, Come, Busy
<1>1. /\ UNCHANGED <<row, account, home, ug, nextPk, obj, failures, restarts>>
      /\ requests' = requests + 1
  BY DEF Come, stored
<1>2. pc' = [pc EXCEPT ![h] = "find"] /\ pc'[h] = "find"
  BY <1>0 DEF Come, TypeOK
<1>3. /\ req'[h] = mine
      /\ \A g \in Handlers : g # h =>
           req'[g] = IF g \in Of(u) THEN [req[g] EXCEPT !.alone = FALSE] ELSE req[g]
  BY DEF Come
<1>4. clash' = IF Of(u) = {} THEN clash ELSE clash \cup {u}
  BY DEF Come
<1>5. \A g \in Handlers : g # h => (Busy(g)' <=> Busy(g)) /\ pc'[g] = pc[g] /\ obj'[g] = obj[g]
  BY <1>0, <1>1, <1>2 DEF Busy, TypeOK
<1>6. \A g \in Handlers : g \in Of(u) <=> Busy(g) /\ req[g].user = u
  BY DEF Of, Busy
<1>7. (Of(u) = {}) \in BOOLEAN
  OBVIOUS
<1>8. mine \in Requests /\ mine.user = u /\ mine.view = v /\ mine.alone = (Of(u) = {})
  BY <1>7 DEF Requests
<1> HIDE DEF mine
<1>9. \A g \in Handlers : g # h /\ Busy(g) =>
        /\ req'[g] \in Requests
        /\ req'[g].user = req[g].user /\ req'[g].view = req[g].view /\ req'[g].new = req[g].new
        /\ req'[g].alone = IF req[g].user = u THEN FALSE ELSE req[g].alone
        /\ req[g].user # u => req'[g] = req[g]
  <2> SUFFICES ASSUME NEW g \in Handlers, g # h, Busy(g)
               PROVE  /\ req'[g] \in Requests
                      /\ req'[g].user = req[g].user /\ req'[g].view = req[g].view
                      /\ req'[g].new = req[g].new
                      /\ req'[g].alone = IF req[g].user = u THEN FALSE ELSE req[g].alone
                      /\ req[g].user # u => req'[g] = req[g]
    OBVIOUS
  <2>1. req[g] \in Requests
    BY <1>0 DEF Local
  <2>2. CASE req[g].user = u
    <3>1. req'[g] = [req[g] EXCEPT !.alone = FALSE]
      BY <1>3, <1>6, <2>2
    <3>2. QED
      BY <2>1, <2>2, <3>1 DEF Requests
  <2>3. CASE req[g].user # u
    BY <1>3, <1>6, <2>1, <2>3
  <2>4. QED
    BY <2>2, <2>3
<1>10. TypeOK'
  <2>1. req' \in [Handlers -> Requests \cup {Nothing}]
    <3>1. req' = [g \in Handlers |-> req'[g]]
      BY DEF Come
    <3>2. \A g \in Handlers : req'[g] \in Requests \cup {Nothing}
      <4> TAKE g \in Handlers
      <4>1. CASE g = h
        BY <4>1, <1>3, <1>8
      <4>2. CASE g # h /\ Busy(g)
        BY <4>2, <1>9
      <4>3. CASE g # h /\ ~Busy(g)
        BY <4>3, <1>0, <1>3, <1>6 DEF TypeOK
      <4>4. QED
        BY <4>1, <4>2, <4>3
    <3>3. QED
      BY <3>1, <3>2
  <2>2. pc' \in [Handlers -> Places]
    BY <1>0, <1>2 DEF TypeOK, Places
  <2>3. clash' \subseteq Users
    BY <1>0, <1>4 DEF TypeOK
  <2>4. QED
    BY <1>0, <1>1, <2>1, <2>2, <2>3 DEF TypeOK, Places
<1>11. Local'
  <2> SUFFICES ASSUME NEW g \in Handlers, Busy(g)'
               PROVE
                 /\ req'[g] \in Requests
                 /\ pc'[g] \in {"groups", "rmtree", "delete", "account", "rm"} =>
                      req'[g].view = "deluser"
                 /\ pc'[g] = "system" => req'[g].view \in PasswordViews
                 /\ pc'[g] \in {"home", "dirs"} => req'[g].view = "register"
                 /\ pc'[g] = "save" => req'[g].view # "deluser"
                 /\ pc'[g] \in {"save", "system", "groups", "rmtree", "delete"}
                      /\ req'[g].view # "register" => obj'[g] \in Rows
    BY DEF Local, PasswordViews
  <2>1. CASE g = h
    BY <2>1, <1>2, <1>3, <1>8
  <2>2. CASE g # h
    BY ZenonT(40), <2>2, <1>0, <1>5, <1>9 DEF Local, PasswordViews
  <2>3. QED
    BY <2>1, <2>2
<1>12. AloneIsAlone'
  <2> SUFFICES ASSUME NEW g \in Handlers, Busy(g)'
               PROVE  IF req'[g].alone
                      THEN \A k \in Handlers : Busy(k)' /\ req'[k].user = req'[g].user => k = g
                      ELSE req'[g].user \in clash'
    BY DEF AloneIsAlone
  <2>1. CASE g = h /\ Of(u) = {}
    <3>1. ASSUME NEW k \in Handlers, k # h, Busy(k)' PROVE req'[k].user # u
      <4>1. Busy(k) /\ req'[k].user = req[k].user
        BY <3>1, <1>5, <1>9
      <4>2. QED
        BY <4>1, <2>1, <1>6
    <3>2. req'[g].user = u /\ req'[g].alone
      BY <2>1, <1>3, <1>8
    <3>3. QED
      BY <2>1, <3>1, <3>2
  <2>2. CASE g = h /\ Of(u) # {}
    BY <2>2, <1>3, <1>4, <1>8
  <2>3. CASE g # h /\ req[g].user = u
    BY <2>3, <1>4, <1>5, <1>6, <1>9
  <2>4. CASE g # h /\ req[g].user # u /\ req[g].alone
    BY ZenonT(40), <2>4, <1>0, <1>3, <1>5, <1>8, <1>9 DEF AloneIsAlone
  <2>5. CASE g # h /\ req[g].user # u /\ ~req[g].alone
    BY <2>5, <1>0, <1>4, <1>5, <1>9 DEF AloneIsAlone
  <2>6. QED
    BY <2>1, <2>2, <2>3, <2>4, <2>5
<1>13. AloneIsInOrder'
  <2> SUFFICES ASSUME NEW g \in Handlers, Busy(g)', req'[g].alone PROVE Stage(g)'
    BY DEF AloneIsInOrder
  <2>1. CASE g = h
    <3>1. Of(u) = {}
      BY <2>1, <1>3, <1>8
    <3>2. u \notin clash => Settled(u)
      BY <3>1, <1>0, <1>6 DEF Quiet
    <3>3. u \notin clash' => Settled(u)'
      BY <3>1, <3>2, <1>1, <1>4 DEF Settled, HasRow
    <3>4. pc'[g] = "find" /\ req'[g].user = u
      BY <2>1, <1>2, <1>3, <1>8
    <3>5. QED
      BY <3>3, <3>4 DEF Stage, Settled, HasRow
  <2>2. CASE g # h
    <3>1. Busy(g) /\ req[g].user # u /\ req'[g] = req[g] /\ req[g].alone
      BY <2>2, <1>5, <1>9
    <3>2. Stage(g)
      BY <3>1, <1>0 DEF AloneIsInOrder
    <3>3. req[g].user \in clash' <=> req[g].user \in clash
      BY <3>1, <1>4
    <3>4. pc'[g] = pc[g] /\ obj'[g] = obj[g] /\ row' = row /\ account' = account
      BY <2>2, <1>1, <1>5
    <3>5. QED
      BY <3>1, <3>2, <3>3, <3>4 DEF Stage, Settled, UpToDate, HasRow
  <2>3. QED
    BY <2>1, <2>2
<1>14. Quiet'
  <2> SUFFICES ASSUME NEW w \in Users, w \notin clash',
                      \A g \in Handlers : Busy(g)' => req'[g].user # w
               PROVE  Settled(w)'
    BY DEF Quiet
  <2>1. \A g \in Handlers : Busy(g) => req[g].user # w
    BY <1>0, <1>5, <1>9
  <2>2. w \notin clash
    BY <1>4
  <2>3. QED
    BY <2>1, <2>2, <1>0, <1>1 DEF Quiet, Settled, HasRow
<1>15. QED
  BY <1>10, <1>11, <1>12, <1>13, <1>14 DEF IInv

LEMMA RequestOK == ASSUME IInv, NEW h \in Handlers, Request(h) PROVE IInv'
  BY ComeOK, AccountsAssumption DEF Request, login, logout, changepwd, reSetPwd, reSetPwdUser,
     check_answer, register, deluser, Views

\* A command that fails leaves everything stored as it is, and its user among those of whom
\* nothing is said.
LEMMA CommandFailsOK == ASSUME IInv, NEW h \in Handlers, CommandFails(h) PROVE IInv'
<1> USE DEF IInv
<1> DEFINE u == req[h].user
<1>1. Busy(h) /\ TypeOK /\ Local /\ u \in Users /\ req[h] \in Requests
  BY TheUser DEF CommandFails, Calls, Busy
<1>2. UNCHANGED stored /\ clash' = clash \cup {u} /\ StoredOK' /\ BoundsOK'
  BY DEF CommandFails, stored, StoredOK, BoundsOK, TypeOK
<1>3. OthersGo(h)
  BY <1>1 DEF CommandFails, Goto, OthersGo, TypeOK
<1>4. \/ pc'[h] = "idle" /\ req'[h] = Nothing /\ obj'[h] = Nothing
      \/ /\ pc'[h] = AfterCommand(h) /\ obj'[h] = obj[h]
         /\ req'[h] = [req[h] EXCEPT !.alone = FALSE]
         /\ ~EndsAfter(h)
  BY <1>1 DEF CommandFails, Goto, TypeOK
<1>5. Busy(h)' => /\ req'[h] \in Requests /\ req'[h].user = u /\ ~req'[h].alone
                  /\ req'[h].view = req[h].view
  BY <1>1, <1>4 DEF Requests, Busy
<1>6. AfterCommand(h) \in {"home", "rm", "save"}
  BY DEF AfterCommand
<1>7. RequestsOK'
  <2>1. pc' \in [Handlers -> Places]
    BY <1>1, <1>6 DEF CommandFails, Goto, TypeOK, Places
  <2>2. req' \in [Handlers -> Requests \cup {Nothing}]
    <3>1. \/ req' = [req EXCEPT ![h] = Nothing]
          \/ req' = [req EXCEPT ![h] = [req[h] EXCEPT !.alone = FALSE]]
      BY DEF CommandFails
    <3>2. [req[h] EXCEPT !.alone = FALSE] \in Requests
      BY <1>1 DEF Requests
    <3>3. QED
      BY <1>1, <3>1, <3>2 DEF TypeOK
  <2>3. obj' \in [Handlers -> Rows \cup {Nothing}] /\ clash' \subseteq Users
    BY <1>1, <1>2 DEF CommandFails, TypeOK
  <2>4. QED
    BY <2>1, <2>2, <2>3 DEF RequestsOK
<1>8. TypeOK'
  BY <1>2, <1>7 DEF TypeOK, RequestsOK, Places, StoredOK, BoundsOK
<1>9. ASSUME NEW g \in Handlers, Busy(g)', g # h
      PROVE  Busy(g) /\ pc'[g] = pc[g] /\ req'[g] = req[g] /\ obj'[g] = obj[g]
  BY <1>3, <1>9 DEF OthersGo, Busy
<1>10. Local'
  <2>1. CASE Busy(h)'
    <3>1. pc'[h] = AfterCommand(h) /\ obj'[h] = obj[h] /\ ~EndsAfter(h)
      BY <1>4, <2>1 DEF Busy
    <3>2. /\ pc'[h] = "home" => req[h].view = "register"
          /\ pc'[h] = "rm" => req[h].view = "deluser"
          /\ pc'[h] = "save" =>
               req[h].view # "deluser" /\ (req[h].view # "register" => obj[h] \in Rows)
      BY <1>1, <3>1 DEF AfterCommand, EndsAfter, CommandFails, Calls, Local
    <3>3. QED
      BY <1>1, <1>5, <1>6, <1>9, <2>1, <3>1, <3>2 DEF Local
  <2>2. CASE ~Busy(h)'
    BY <1>1, <1>9, <2>2 DEF Local
  <2>3. QED
    BY <2>1, <2>2
<1>11. AloneIsAlone'
  BY <1>1, <1>2, <1>5, <1>9 DEF AloneIsAlone
<1>12. AloneIsInOrder'
  <2> SUFFICES ASSUME NEW g \in Handlers, Busy(g)', req'[g].alone PROVE Stage(g)'
    BY DEF AloneIsInOrder
  <2>1. g # h
    BY <1>5
  <2>2. /\ Busy(g) /\ req[g].alone /\ pc'[g] = pc[g] /\ req'[g] = req[g] /\ obj'[g] = obj[g]
        /\ Stage(g)
    BY <1>9, <2>1 DEF AloneIsInOrder
  <2>3. req[g].user # u /\ req[g].user \in Users
    BY <1>1, <2>1, <2>2 DEF AloneIsAlone, Local, Requests
  <2>4. req[g].user \in clash' <=> req[g].user \in clash
    BY <1>2, <2>3
  <2>5. QED
    BY <1>2, <2>2, <2>4 DEF stored, Stage, Settled, UpToDate, HasRow
<1>13. Quiet'
  <2> SUFFICES ASSUME NEW v \in Users, v \notin clash',
                      \A g \in Handlers : Busy(g)' => req'[g].user # v
               PROVE  Settled(v)'
    BY DEF Quiet
  <2>1. v # u /\ v \notin clash
    BY <1>2
  <2>2. \A g \in Handlers : Busy(g) => req[g].user # v
    BY <1>3, <2>1 DEF OthersGo, Busy
  <2>3. Settled(v)
    BY <2>1, <2>2 DEF Quiet
  <2>4. QED
    BY <1>2, <2>3 DEF stored, Settled, HasRow
<1>14. QED
  BY <1>8, <1>10, <1>11, <1>12, <1>13

\* Steps that no request sees: a row keeps its key and its password.
LEMMA AsideOK ==
  ASSUME IInv, TypeOK', UNCHANGED <<account, pc, req, obj, clash>>,
         \A u \in Users : \/ row'[u] = row[u]
                          \/ HasRow(u) /\ HasRow(u)' /\ row'[u].pk = row[u].pk
                             /\ row'[u].Password = row[u].Password
  PROVE  IInv'
<1> USE DEF IInv
<1>1. Local' /\ AloneIsAlone'
  BY DEF Local, AloneIsAlone, Busy
<1>2. \A u \in Users : Settled(u) => Settled(u)'
  BY DEF Settled, HasRow
<1>3. Quiet'
  BY <1>2 DEF Quiet, Busy
<1>4. AloneIsInOrder'
  <2> SUFFICES ASSUME NEW g \in Handlers, Busy(g), req[g].alone PROVE Stage(g)'
    BY DEF AloneIsInOrder, Busy
  <2>1. Stage(g) /\ req[g].user \in Users
    BY DEF AloneIsInOrder, Local, Requests
  <2> DEFINE u == req[g].user
  <2>2. /\ HasRow(u) <=> HasRow(u)'
        /\ HasRow(u) => row'[u].pk = row[u].pk /\ row'[u].Password = row[u].Password
    BY <2>1 DEF HasRow
  <2>3. QED
    BY <2>1, <2>2 DEF Stage, Settled, UpToDate, HasRow
<1>5. QED
  BY <1>1, <1>3, <1>4

LEMMA ExpireOK == ASSUME IInv, Expire PROVE IInv'
<1>1. /\ row' = [row EXCEPT ![admin].code = FALSE] /\ row[admin] \in Rows
      /\ UNCHANGED <<account, home, ug, nextPk, pc, req, obj, clash, bounds>>
  BY AccountsAssumption DEF Expire, HasRow, IInv, TypeOK
<1>2. row' = [row EXCEPT ![admin] = [row[admin] EXCEPT !.code = FALSE]]
  BY <1>1
<1> DEFINE r == [row[admin] EXCEPT !.code = FALSE]
<1>3. r \in Rows /\ r.pk = row[admin].pk /\ r.Password = row[admin].Password
  BY <1>1 DEF Rows
<1> HIDE DEF r
<1>4. row' \in [Users -> Rows \cup {Nothing}] /\ row'[admin] = r
  BY <1>2, <1>3, AccountsAssumption DEF IInv, TypeOK, r
<1>5. TypeOK'
  BY <1>1, <1>4 DEF IInv, TypeOK, bounds
<1>6. \A u \in Users : u # admin => row'[u] = row[u]
  BY <1>2 DEF IInv, TypeOK
<1>7. HasRow(admin) /\ row'[admin] # Nothing
  BY <1>3, <1>4, AccountsAssumption DEF Expire
<1>8. QED
  BY <1>1, <1>3, <1>4, <1>5, <1>6, <1>7, AsideOK DEF HasRow

LEMMA GroupViewsOK == ASSUME IInv, createnewug \/ delug PROVE IInv'
<1>1. UNCHANGED <<row, account, pc, req, obj, clash>>
  BY DEF createnewug, delug
<1>2. TypeOK'
  BY AccountsAssumption DEF createnewug, delug, IInv, TypeOK
<1>3. QED
  BY <1>1, <1>2, AsideOK

LEMMA RestartOK == ASSUME IInv, Restart PROVE IInv'
<1> USE DEF IInv
<1>1. \A h \in Handlers : ~Busy(h)'
  BY DEF Restart, Busy
<1>2. TypeOK'
  <2>1. pc' \in [Handlers -> Places]
    BY DEF Restart, Places
  <2>2. QED
    BY <2>1 DEF Restart, TypeOK, stored, Places
<1>3. Quiet'
  <2> SUFFICES ASSUME NEW u \in Users, u \notin clash' PROVE Settled(u)'
    BY DEF Quiet
  <2>1. u \notin clash /\ Of(u) = {}
    BY DEF Restart
  <2>2. Settled(u)
    BY <2>1 DEF Quiet, Of, Busy
  <2>3. QED
    BY <2>2 DEF Restart, stored, Settled, HasRow
<1>4. QED
  BY <1>1, <1>2, <1>3 DEF Local, AloneIsAlone, AloneIsInOrder

LEMMA Stutter == ASSUME IInv, UNCHANGED vars PROVE IInv'
<1>1. TypeOK'
  BY DEF IInv, TypeOK, vars, stored, bounds
<1>2. QED
  BY <1>1, AsideOK DEF vars, stored

LEMMA Inductive == IInv /\ [Next]_vars => IInv'
<1> SUFFICES ASSUME IInv, [Next]_vars PROVE IInv'
  OBVIOUS
<1>1. ASSUME NEW h \in Handlers, Request(h) PROVE IInv'
  BY <1>1, RequestOK
<1>2. ASSUME NEW h \in Handlers, Step(h) PROVE IInv'
  BY <1>2, FindOK, NotFoundOK, SaveOK, SystemOK, CreateAccountOK, CreateHomeOK, InsertOK,
     MakeDirsOK, GroupsOK, RmtreeOK, RmtreeFailsOK, DeleteRowOK, DeleteAccountOK, RmOK,
     CommandFailsOK DEF Step
<1>3. QED
  BY <1>1, <1>2, GroupViewsOK, ExpireOK, RestartOK, Stutter DEF Next

LEMMA Always == Spec => []IInv
  BY Initially, Inductive, PTL DEF Spec

-----------------------------------------------------------------------------
(* Whole users: nobody in a group, nothing fails, no restart, and a request *)
(* to delete a user is the only one for it.                                 *)

Entire(u) == (HasRow(u) <=> account[u] # Nothing) /\ (HasRow(u) <=> u \in home)

\* Between mininas_user_create and the INSERT.
Registers(h) == pc[h] = "home" \/ (pc[h] = "save" /\ req[h].view = "register")

\* What is there of the user of a request where the request stands.
Position(h) ==
  LET u == req[h].user IN
  /\ Registers(h) => account[u] # Nothing
  /\ pc[h] = "save" /\ req[h].view = "register" => u \in home
  /\ \/ pc[h] = "save" /\ req[h].view # "register"
     \/ pc[h] \in {"system", "dirs", "groups", "rmtree", "delete"}
     => HasRow(u)
  /\ pc[h] \in {"groups", "rmtree", "delete"} => row[u].pk = obj[h].pk
  /\ pc[h] \in {"delete", "account", "rm"} => u \notin home
  /\ pc[h] \in {"account", "rm"} => ~HasRow(u)
  /\ pc[h] = "rm" => account[u] = Nothing

Deletes(h) == pc[h] \in {"delete", "account", "rm"}

\* A user is whole, or about to be registered, or about to be deleted.
Sound(u) == Entire(u) \/ (~HasRow(u) /\ \E h \in Of(u) : Registers(h))
Intact(u) ==
  /\ (\A h \in Of(u) : ~Deletes(h)) => Sound(u)
  /\ \A h \in Of(u) : Position(h)

AllIntact == \A u \in Users : Intact(u)

Moves(h) == OthersGo(h) /\ (pc'[h] = "idle" \/ (pc'[h] # "idle" /\ req'[h] = req[h]))

LEMMA Answers ==
  ASSUME TypeOK, NEW h \in Handlers, Answer(h)
  PROVE  Moves(h) /\ pc'[h] = "idle"
BY DEF Answer, Goto, TypeOK, Moves, OthersGo

LEMMA Continues ==
  ASSUME TypeOK, NEW h \in Handlers, NEW l, l # "idle", Continue(h, l)
  PROVE  Moves(h) /\ pc'[h] = l /\ req'[h] = req[h] /\ obj'[h] = obj[h]
BY DEF Continue, Goto, TypeOK, Moves, OthersGo

\* A step of one request leaves the other users alone.
LEMMA OwnUser ==
  ASSUME AllIntact, NEW h \in Handlers, Busy(h), Moves(h), NEW u \in Users, u = req[h].user,
         \A v \in Users : v # u =>
           row'[v] = row[v] /\ account'[v] = account[v] /\ (v \in home' <=> v \in home),
         Intact(u)'
  PROVE  AllIntact'
<1> SUFFICES ASSUME NEW v \in Users, v # u PROVE Intact(v)'
  BY DEF AllIntact
<1>1. \A g \in Handlers : g \in Of(v) => g # h
  BY DEF Of
<1>2. \A g \in Handlers : g \in Of(v)' <=> g \in Of(v)
  BY DEF Of, Moves, OthersGo
<1>3. \A g \in Of(v) : /\ g \in Handlers /\ req[g].user = v
                       /\ pc'[g] = pc[g] /\ req'[g] = req[g] /\ obj'[g] = obj[g]
  BY <1>1 DEF Of, Moves, OthersGo
<1>4. Of(v)' = Of(v)
  BY <1>2 DEF Of
<1>5. row'[v] = row[v] /\ account'[v] = account[v] /\ (v \in home' <=> v \in home)
  OBVIOUS
<1>6. (HasRow(v)' <=> HasRow(v)) /\ (Entire(v)' <=> Entire(v))
  BY <1>5 DEF HasRow, Entire
<1>7. \A g \in Of(v) : /\ Registers(g)' <=> Registers(g)
                       /\ Deletes(g)' <=> Deletes(g)
                       /\ Position(g)' <=> Position(g)
  BY <1>3, <1>5 DEF Registers, Deletes, Position, HasRow
<1>8. Intact(v)
  BY DEF AllIntact
<1>9. QED
  BY <1>4, <1>6, <1>7, <1>8 DEF Intact, Sound

\* A request that does not delete: neither does any other of the user.
LEMMA NoneDeletes ==
  ASSUME IInv, Calm, AllIntact, NEW h \in Handlers, Busy(h), req[h].view # "deluser",
         NEW u \in Users, u = req[h].user
  PROVE  /\ Sound(u) /\ Position(h)
         /\ \A g \in Of(u) : /\ g \in Handlers /\ Busy(g) /\ req[g].user = u /\ Position(g)
                             /\ pc[g] \notin {"groups", "rmtree", "delete", "account", "rm"}
<1>1. h \in Of(u)
  BY DEF Of, Busy
<1>2. \A g \in Of(u) : g \in Handlers /\ Busy(g) /\ req[g].user = u
  BY DEF Of, Busy
<1>3. \A g \in Of(u) : req[g].view # "deluser"
  BY <1>1 DEF Calm
<1>4. \A g \in Of(u) : pc[g] \notin {"groups", "rmtree", "delete", "account", "rm"}
  BY <1>2, <1>3 DEF IInv, Local
<1>5. QED
  BY <1>1, <1>2, <1>4 DEF AllIntact, Intact, Deletes

\* It takes nothing away that others rely on.
LEMMA Grows ==
  ASSUME IInv, Calm, AllIntact, NEW h \in Handlers, Busy(h), req[h].view # "deluser",
         Moves(h), NEW u \in Users, u = req[h].user,
         \A v \in Users : v # u =>
           row'[v] = row[v] /\ account'[v] = account[v] /\ (v \in home' <=> v \in home),
         HasRow(u) => HasRow(u)', account[u] # Nothing => account'[u] # Nothing,
         u \in home => u \in home',
         pc'[h] # "idle" => Position(h)', ~Deletes(h)', Sound(u)'
  PROVE  AllIntact'
<1>1. \A g \in Of(u)' : g \in Handlers /\ (g = h => pc'[h] # "idle")
  BY DEF Of
<1>2. \A g \in Of(u)' : g # h => /\ g \in Of(u)
                                 /\ pc'[g] = pc[g] /\ req'[g] = req[g] /\ obj'[g] = obj[g]
  BY DEF Of, Moves, OthersGo
<1>3. \A g \in Of(u)' : Position(g)'
  <2> SUFFICES ASSUME NEW g \in Of(u)', g # h PROVE Position(g)'
    BY <1>1
  <2>1. /\ pc'[g] = pc[g] /\ req'[g] = req[g] /\ req[g].user = u /\ Position(g)
        /\ pc[g] \notin {"groups", "rmtree", "delete", "account", "rm"}
    BY <1>2, NoneDeletes
  <2>2. QED
    BY <2>1 DEF Position, Registers
<1>4. Intact(u)'
  BY <1>3 DEF Intact
<1>5. QED
  BY <1>4, OwnUser

\* The user stays as it is, and the request, if it registers, goes on to.
LEMMA StaysSound ==
  ASSUME NEW h \in Handlers, Busy(h), Moves(h), NEW u \in Users, u = req[h].user, Sound(u),
         HasRow(u)' <=> HasRow(u), account'[u] = Nothing <=> account[u] = Nothing,
         u \in home' <=> u \in home,
         Registers(h) => HasRow(u) \/ (pc'[h] # "idle" /\ Registers(h)')
  PROVE  Sound(u)'
<1>1. CASE Entire(u)
  BY <1>1 DEF Entire, Sound
<1>2. CASE ~HasRow(u)
  <2>1. SUFFICES ASSUME NEW g \in Of(u), Registers(g)
                 PROVE  g \in Of(u)' /\ Registers(g)'
    BY <1>1, <1>2 DEF Sound
  <2>2. CASE g = h
    BY <1>2, <2>1, <2>2 DEF Of, Moves
  <2>3. CASE g # h
    BY <2>1, <2>3 DEF Of, Moves, OthersGo, Registers
  <2>4. QED
    BY <2>2, <2>3
<1>3. QED
  BY <1>1, <1>2 DEF Sound

\* A request that deletes is the only one.
LEMMA Deleting ==
  ASSUME IInv, Calm, AllIntact, NEW h \in Handlers, Busy(h), req[h].view = "deluser",
         Moves(h), NEW u \in Users, u = req[h].user,
         \A v \in Users : v # u =>
           row'[v] = row[v] /\ account'[v] = account[v] /\ (v \in home' <=> v \in home),
         pc'[h] # "idle" => Position(h)', ~Deletes(h)' => Entire(u)'
  PROVE  AllIntact'
<1>1. Of(u) = {h}
  BY DEF Calm, Of, Busy
<1>2. \A g \in Of(u)' : g = h
  <2>1. \A g \in Of(u)' : g # h => g \in Of(u)
    BY DEF Of, Moves, OthersGo
  <2>2. QED
    BY <1>1, <2>1
<1>3. \A g \in Of(u)' : pc'[g] # "idle"
  BY DEF Of
<1>4. Deletes(h)' => h \in Of(u)'
  BY DEF Of, Deletes, Moves
<1>5. Intact(u)'
  BY <1>2, <1>3, <1>4 DEF Intact, Sound
<1>6. QED
  BY <1>5, OwnUser

\* What the only request knows.
LEMMA OnlyOne ==
  ASSUME IInv, Calm, AllIntact, NEW h \in Handlers, Busy(h), req[h].view = "deluser",
         NEW u \in Users, u = req[h].user
  PROVE  Position(h) /\ (~Deletes(h) /\ ~Registers(h) => Entire(u))
<1>1. Of(u) = {h}
  BY DEF Calm, Of, Busy
<1>2. QED
  BY <1>1 DEF AllIntact, Intact, Sound

-----------------------------------------------------------------------------
(* One lemma per step again *)

LEMMA FindKeeps ==
  ASSUME IInv, Calm, AllIntact, NEW h \in Handlers, Find(h) PROVE AllIntact'
<1>1. TypeOK /\ Busy(h) /\ pc[h] = "find" /\ UNCHANGED stored
  BY DEF IInv, Find, Busy
<1>2. PICK u \in Users : u = req[h].user
  BY <1>1, TheUser
<1>3. UNCHANGED <<row, account, home>> /\ HasRow(u) /\ HasRow(u)'
  BY <1>1, <1>2 DEF stored, Find, Found, HasRow
<1>4. /\ Moves(h) /\ req'[h] = req[h] /\ obj'[h] = row[u] /\ pc'[h] = After(req[h].view)
      /\ pc'[h] # "idle"
  BY <1>1, <1>2 DEF Find, Goto, After, TypeOK, Moves, OthersGo
<1>5. /\ pc'[h] \in {"save", "system", "groups"} /\ req[h].view # "register"
      /\ pc'[h] = "groups" => req[h].view = "deluser"
  BY <1>4 DEF After, Find
<1>6. Position(h)' /\ ~Deletes(h)' /\ ~Registers(h) /\ ~Deletes(h)
  BY <1>1, <1>2, <1>3, <1>4, <1>5 DEF Position, Registers, Deletes
<1>7. CASE req[h].view = "deluser"
  <2>1. Entire(u)
    BY <1>1, <1>2, <1>6, <1>7, OnlyOne
  <2>2. Entire(u)'
    BY <1>3, <2>1 DEF Entire
  <2>3. QED
    BY <1>1, <1>2, <1>3, <1>4, <1>6, <1>7, <2>2, Deleting
<1>8. CASE req[h].view # "deluser"
  <2>1. Sound(u)
    BY <1>1, <1>2, <1>8, NoneDeletes
  <2>2. Sound(u)'
    BY <1>1, <1>2, <1>3, <1>4, <1>6, <2>1, StaysSound
  <2>3. QED
    BY <1>1, <1>2, <1>3, <1>4, <1>6, <1>8, <2>2, Grows
<1>9. QED
  BY <1>7, <1>8

LEMMA NotFoundKeeps ==
  ASSUME IInv, Calm, AllIntact, NEW h \in Handlers, NotFound(h) PROVE AllIntact'
<1>1. TypeOK /\ Busy(h) /\ pc[h] = "find" /\ UNCHANGED <<row, account, home>> /\ Answer(h)
  BY DEF IInv, NotFound, Busy, stored
<1>2. PICK u \in Users : u = req[h].user
  BY <1>1, TheUser
<1>3. Moves(h) /\ pc'[h] = "idle" /\ (HasRow(u)' <=> HasRow(u))
  BY <1>1, Answers DEF HasRow
<1>4. ~Deletes(h)' /\ ~Registers(h) /\ ~Deletes(h)
  BY <1>1, <1>3 DEF Registers, Deletes
<1>5. CASE req[h].view = "deluser"
  <2>1. Entire(u)
    BY <1>1, <1>2, <1>4, <1>5, OnlyOne
  <2>2. Entire(u)'
    BY <1>1, <1>3, <2>1 DEF Entire
  <2>3. QED
    BY <1>1, <1>2, <1>3, <1>4, <1>5, <2>2, Deleting
<1>6. CASE req[h].view # "deluser"
  <2>1. Sound(u)
    BY <1>1, <1>2, <1>6, NoneDeletes
  <2>2. Sound(u)'
    BY <1>1, <1>2, <1>3, <1>4, <2>1, StaysSound
  <2>3. QED
    BY <1>1, <1>2, <1>3, <1>4, <1>6, <2>2, Grows
<1>7. QED
  BY <1>5, <1>6

LEMMA SaveKeeps ==
  ASSUME IInv, Calm, AllIntact, NEW h \in Handlers, Save(h) PROVE AllIntact'
<1>1. TypeOK /\ Local /\ Busy(h) /\ pc[h] = "save" /\ req[h].view # "register"
  BY DEF IInv, Save, Busy
<1>2. PICK u \in Users : u = req[h].user
  BY <1>1, TheUser
<1>3. req[h].view # "deluser" /\ obj[h] \in Rows /\ req[h].new \in Passwords
  BY <1>1 DEF Local, Requests
<1>4. Sound(u) /\ HasRow(u)
  BY <1>1, <1>2, <1>3, NoneDeletes DEF Position
<1> DEFINE r == Changed(req[h].view, obj[h], req[h].new)
<1>5. r \in Rows /\ r # Nothing
  BY <1>3, ChangedOK, AccountsAssumption
<1>6. /\ row' = [row EXCEPT ![u] = r] \/ row' = row
      /\ Answer(h) \/ (req[h].view = "reSetPwd" /\ Continue(h, "system"))
      /\ UNCHANGED <<account, home>>
  BY <1>2 DEF Save
<1> HIDE DEF r
<1>7. HasRow(u)' /\ \A v \in Users : v # u => row'[v] = row[v]
  BY <1>1, <1>4, <1>5, <1>6 DEF TypeOK, HasRow
<1>8. Moves(h) /\ (pc'[h] = "idle" \/ (pc'[h] = "system" /\ req'[h] = req[h]))
  BY <1>1, <1>6, Answers, Continues
<1>9. ~Deletes(h)' /\ (pc'[h] # "idle" => Position(h)') /\ ~Registers(h)
  BY <1>1, <1>2, <1>7, <1>8 DEF Deletes, Position, Registers
<1>10. Sound(u)'
  BY <1>1, <1>2, <1>4, <1>6, <1>7, <1>8, <1>9, StaysSound
<1>11. QED
  BY <1>1, <1>2, <1>3, <1>6, <1>7, <1>8, <1>9, <1>10, Grows

LEMMA SystemKeeps ==
  ASSUME IInv, Calm, AllIntact, NEW h \in Handlers, System(h) PROVE AllIntact'
<1>1. /\ TypeOK /\ Local /\ Busy(h) /\ pc[h] = "system" /\ UNCHANGED <<row, home>>
      /\ Answer(h) \/ Continue(h, "save")
  BY DEF IInv, System, Busy
<1>2. PICK u \in Users : u = req[h].user
  BY <1>1, TheUser
<1>3. req[h].view \notin {"deluser", "register"} /\ req[h].new \in Passwords
  BY <1>1 DEF Local, Requests
<1>4. Sound(u) /\ HasRow(u)
  BY <1>1, <1>2, <1>3, NoneDeletes DEF Position
<1>5. /\ account'[u] = Nothing <=> account[u] = Nothing
      /\ \A v \in Users : v # u => account'[v] = account[v]
  <2>1. account' = [account EXCEPT ![u] = IF @ = Nothing THEN Nothing ELSE req[h].new]
    BY <1>2 DEF System, SetPassword
  <2>2. req[h].new # Nothing
    BY <1>3, AccountsAssumption
  <2>3. QED
    BY <1>1, <2>1, <2>2 DEF TypeOK
<1>6. Moves(h) /\ (pc'[h] = "idle" \/ (pc'[h] = "save" /\ req'[h] = req[h]))
  BY <1>1, Answers, Continues
<1>7. ~Deletes(h)' /\ ~Registers(h) /\ HasRow(u)'
  BY <1>1, <1>4, <1>6 DEF Deletes, Registers, HasRow
<1>8. pc'[h] # "idle" => Position(h)'
  BY <1>2, <1>3, <1>6, <1>7 DEF Position, Registers
<1>9. Sound(u)'
  BY <1>1, <1>2, <1>4, <1>5, <1>6, <1>7, StaysSound
<1>10. QED
  BY <1>1, <1>2, <1>3, <1>5, <1>6, <1>7, <1>8, <1>9, Grows

LEMMA CreateAccountKeeps ==
  ASSUME IInv, Calm, AllIntact, NEW h \in Handlers, CreateAccount(h) PROVE AllIntact'
<1>1. /\ TypeOK /\ Busy(h) /\ pc[h] = "find" /\ req[h].view = "register"
      /\ UNCHANGED <<row, home>> /\ Continue(h, "home")
  BY DEF IInv, CreateAccount, Busy
<1>2. PICK u \in Users : u = req[h].user
  BY <1>1, TheUser
<1>3. /\ account'[u] # Nothing /\ ~HasRow(u) /\ ~HasRow(u)'
      /\ \A v \in Users : v # u => account'[v] = account[v]
  BY <1>1, <1>2, AccountsAssumption DEF CreateAccount, TypeOK, HasRow
<1>4. Moves(h) /\ pc'[h] = "home" /\ req'[h] = req[h]
  BY <1>1, Continues
<1>5. Position(h)' /\ ~Deletes(h)' /\ Registers(h)' /\ h \in Of(u)'
  BY <1>2, <1>3, <1>4 DEF Position, Deletes, Registers, Of
<1>6. Sound(u)'
  BY <1>3, <1>5 DEF Sound
<1>7. QED
  BY <1>1, <1>2, <1>3, <1>4, <1>5, <1>6, Grows

LEMMA CreateHomeKeeps ==
  ASSUME IInv, Calm, AllIntact, NEW h \in Handlers, CreateHome(h) PROVE AllIntact'
<1>1. /\ TypeOK /\ Local /\ Busy(h) /\ pc[h] = "home" /\ home' = home \cup {req[h].user}
      /\ UNCHANGED <<row, account>> /\ Continue(h, "save")
  BY DEF IInv, CreateHome, Busy
<1>2. PICK u \in Users : u = req[h].user
  BY <1>1, TheUser
<1>3. req[h].view = "register"
  BY <1>1 DEF Local
<1>4. Sound(u) /\ account[u] # Nothing
  BY <1>1, <1>2, <1>3, NoneDeletes DEF Position, Registers
<1>5. Moves(h) /\ pc'[h] = "save" /\ req'[h] = req[h] /\ (HasRow(u)' <=> HasRow(u))
  BY <1>1, Continues DEF HasRow
<1>6. Position(h)' /\ ~Deletes(h)' /\ Registers(h)' /\ h \in Of(u)'
  BY <1>1, <1>2, <1>3, <1>4, <1>5 DEF Position, Deletes, Registers, Of
<1>7. Sound(u)'
  BY <1>1, <1>2, <1>4, <1>5, <1>6 DEF Sound, Entire
<1>8. QED
  BY <1>1, <1>2, <1>3, <1>5, <1>6, <1>7, Grows

LEMMA InsertKeeps ==
  ASSUME IInv, Calm, AllIntact, NEW h \in Handlers, Insert(h) PROVE AllIntact'
<1>1. /\ TypeOK /\ Busy(h) /\ pc[h] = "save" /\ req[h].view = "register"
      /\ UNCHANGED <<account, home>>
  BY DEF IInv, Insert, Busy
<1>2. PICK u \in Users : u = req[h].user
  BY <1>1, TheUser
<1>3. Sound(u) /\ account[u] # Nothing /\ u \in home
  BY <1>1, <1>2, NoneDeletes DEF Position, Registers
<1>4. CASE HasRow(u)
  <2>1. row' = row /\ Answer(h)
    BY <1>2, <1>4 DEF Insert
  <2>2. Moves(h) /\ pc'[h] = "idle" /\ HasRow(u)' /\ ~Deletes(h)'
    BY <1>1, <1>4, <2>1, Answers DEF HasRow, Deletes
  <2>3. Sound(u)'
    BY <1>1, <1>3, <2>2 DEF Sound, Entire
  <2>4. QED
    BY <1>1, <1>2, <2>1, <2>2, <2>3, Grows
<1>5. CASE ~HasRow(u)
  <2> DEFINE r == [pk |-> nextPk, Password |-> first, code |-> FALSE, login |-> FALSE]
  <2>1. row' = [row EXCEPT ![u] = r] /\ Continue(h, "dirs")
    BY <1>2, <1>5 DEF Insert
  <2>2. r \in Rows
    BY <1>1, AccountsAssumption DEF Rows, TypeOK
  <2> HIDE DEF r
  <2>3. HasRow(u)' /\ \A v \in Users : v # u => row'[v] = row[v]
    BY <1>1, <2>1, <2>2, AccountsAssumption DEF HasRow, TypeOK
  <2>4. Moves(h) /\ pc'[h] = "dirs" /\ req'[h] = req[h]
    BY <1>1, <2>1, Continues
  <2>5. Position(h)' /\ ~Deletes(h)'
    BY <1>2, <2>3, <2>4 DEF Position, Registers, Deletes
  <2>6. Sound(u)'
    BY <1>1, <1>3, <2>3 DEF Sound, Entire
  <2>7. QED
    BY <1>1, <1>2, <2>3, <2>4, <2>5, <2>6, Grows
<1>6. QED
  BY <1>4, <1>5

LEMMA MakeDirsKeeps ==
  ASSUME IInv, Calm, AllIntact, NEW h \in Handlers, MakeDirs(h) PROVE AllIntact'
<1>1. /\ TypeOK /\ Local /\ Busy(h) /\ pc[h] = "dirs" /\ home' = home \cup {req[h].user}
      /\ UNCHANGED <<row, account>> /\ Answer(h)
  BY DEF IInv, MakeDirs, Busy
<1>2. PICK u \in Users : u = req[h].user
  BY <1>1, TheUser
<1>3. req[h].view = "register"
  BY <1>1 DEF Local
<1>4. Sound(u) /\ HasRow(u)
  BY <1>1, <1>2, <1>3, NoneDeletes DEF Position
<1>5. Moves(h) /\ pc'[h] = "idle" /\ HasRow(u)' /\ ~Deletes(h)'
  BY <1>1, <1>4, Answers DEF HasRow, Deletes
<1>6. Sound(u)'
  BY <1>1, <1>2, <1>4, <1>5 DEF Sound, Entire
<1>7. QED
  BY <1>1, <1>2, <1>3, <1>5, <1>6, Grows

LEMMA GroupsKeeps ==
  ASSUME IInv, Calm, AllIntact, NEW h \in Handlers, Groups(h) PROVE AllIntact'
<1>1. /\ TypeOK /\ Local /\ Busy(h) /\ pc[h] = "groups" /\ UNCHANGED <<row, account, home>>
      /\ Continue(h, "rmtree")
  BY DEF IInv, Groups, Busy, stored, Raises, Calm
<1>2. PICK u \in Users : u = req[h].user
  BY <1>1, TheUser
<1>3. req[h].view = "deluser"
  BY <1>1 DEF Local
<1>4. Position(h) /\ Entire(u)
  BY <1>1, <1>2, <1>3, OnlyOne DEF Deletes, Registers
<1>5. Moves(h) /\ pc'[h] = "rmtree" /\ req'[h] = req[h] /\ obj'[h] = obj[h]
  BY <1>1, Continues
<1>6. Position(h)' /\ Entire(u)'
  BY <1>1, <1>2, <1>4, <1>5 DEF Position, Registers, Entire, HasRow
<1>7. QED
  BY <1>1, <1>2, <1>3, <1>5, <1>6, Deleting

LEMMA RmtreeKeeps ==
  ASSUME IInv, Calm, AllIntact, NEW h \in Handlers, Rmtree(h) PROVE AllIntact'
<1>1. /\ TypeOK /\ Local /\ Busy(h) /\ pc[h] = "rmtree" /\ UNCHANGED <<row, account>>
      /\ home' = home \ {req[h].user} /\ Continue(h, "delete")
  BY DEF IInv, Rmtree, Busy
<1>2. PICK u \in Users : u = req[h].user
  BY <1>1, TheUser
<1>3. req[h].view = "deluser"
  BY <1>1 DEF Local
<1>4. Position(h)
  BY <1>1, <1>2, <1>3, OnlyOne
<1>5. Moves(h) /\ pc'[h] = "delete" /\ req'[h] = req[h] /\ obj'[h] = obj[h]
  BY <1>1, Continues
<1>6. Position(h)' /\ Deletes(h)'
  BY <1>1, <1>2, <1>4, <1>5 DEF Position, Registers, HasRow, Deletes
<1>7. QED
  BY <1>1, <1>2, <1>3, <1>5, <1>6, Deleting

LEMMA DeleteRowKeeps ==
  ASSUME IInv, Calm, AllIntact, NEW h \in Handlers, DeleteRow(h) PROVE AllIntact'
<1>1. /\ TypeOK /\ Local /\ Busy(h) /\ pc[h] = "delete" /\ UNCHANGED <<account, home>>
      /\ Continue(h, "account")
  BY DEF IInv, DeleteRow, Busy
<1>2. PICK u \in Users : u = req[h].user
  BY <1>1, TheUser
<1>3. req[h].view = "deluser"
  BY <1>1 DEF Local
<1>4. HasRow(u) /\ row[u].pk = obj[h].pk /\ u \notin home
  BY <1>1, <1>2, <1>3, OnlyOne DEF Position
<1>5. Moves(h) /\ pc'[h] = "account" /\ req'[h] = req[h] /\ obj'[h] = obj[h]
  BY <1>1, Continues
<1>6. row'[u] = Nothing /\ \A v \in Users : v # u => row'[v] = row[v]
  BY <1>1, <1>2, <1>4 DEF DeleteRow, TypeOK
<1>7. Position(h)' /\ Deletes(h)'
  BY <1>1, <1>2, <1>4, <1>5, <1>6 DEF Position, Registers, HasRow, Deletes
<1>8. QED
  BY <1>1, <1>2, <1>3, <1>5, <1>6, <1>7, Deleting

LEMMA DeleteAccountKeeps ==
  ASSUME IInv, Calm, AllIntact, NEW h \in Handlers, DeleteAccount(h) PROVE AllIntact'
<1>1. /\ TypeOK /\ Local /\ Busy(h) /\ pc[h] = "account" /\ UNCHANGED <<row, home>>
      /\ account' = [account EXCEPT ![req[h].user] = Nothing] /\ Continue(h, "rm")
  BY DEF IInv, DeleteAccount, Busy
<1>2. PICK u \in Users : u = req[h].user
  BY <1>1, TheUser
<1>3. req[h].view = "deluser"
  BY <1>1 DEF Local
<1>4. ~HasRow(u) /\ u \notin home
  BY <1>1, <1>2, <1>3, OnlyOne DEF Position
<1>5. Moves(h) /\ pc'[h] = "rm" /\ req'[h] = req[h]
  BY <1>1, Continues
<1>6. account'[u] = Nothing /\ \A v \in Users : v # u => account'[v] = account[v]
  BY <1>1, <1>2 DEF TypeOK
<1>7. Position(h)' /\ Deletes(h)'
  BY <1>1, <1>2, <1>4, <1>5, <1>6 DEF Position, Registers, HasRow, Deletes
<1>8. QED
  BY <1>1, <1>2, <1>3, <1>5, <1>6, <1>7, Deleting

LEMMA RmKeeps ==
  ASSUME IInv, Calm, AllIntact, NEW h \in Handlers, Rm(h) PROVE AllIntact'
<1>1. /\ TypeOK /\ Local /\ Busy(h) /\ pc[h] = "rm" /\ UNCHANGED <<row, account>>
      /\ home' = home \ {req[h].user} /\ Answer(h)
  BY DEF IInv, Rm, Busy
<1>2. PICK u \in Users : u = req[h].user
  BY <1>1, TheUser
<1>3. req[h].view = "deluser"
  BY <1>1 DEF Local
<1>4. ~HasRow(u) /\ account[u] = Nothing
  BY <1>1, <1>2, <1>3, OnlyOne DEF Position
<1>5. Moves(h) /\ pc'[h] = "idle"
  BY <1>1, Answers
<1>6. Entire(u)'
  BY <1>1, <1>2, <1>4 DEF Entire, HasRow
<1>7. QED
  BY <1>1, <1>2, <1>3, <1>5, <1>6, Deleting

\* A new request, for whatever user, changes nothing yet.
LEMMA ComeKeeps ==
  ASSUME IInv, AllIntact, NEW h \in Handlers, NEW v \in Views, NEW w \in Users,
         NEW old \in Passwords, NEW new \in Passwords, Come(h, v, w, old, new)
  PROVE  AllIntact'
<1> SUFFICES ASSUME NEW u \in Users PROVE Intact(u)'
  BY DEF AllIntact
<1>1. TypeOK /\ Local /\ ~Busy(h) /\ UNCHANGED <<row, account, home, obj>>
  BY DEF IInv, Come, Busy, stored
<1>2. pc'[h] = "find" /\ \A g \in Handlers : g # h => pc'[g] = pc[g]
  BY <1>1 DEF Come, TypeOK
<1>3. \A g \in Of(u) : /\ g \in Handlers /\ g # h /\ pc'[g] = pc[g]
                       /\ req'[g].user = req[g].user /\ req'[g].view = req[g].view
                       /\ req[g].user = u /\ pc[g] # "idle"
  <2> SUFFICES ASSUME NEW g \in Of(u)
               PROVE  /\ g \in Handlers /\ g # h /\ pc'[g] = pc[g]
                      /\ req'[g].user = req[g].user /\ req'[g].view = req[g].view
                      /\ req[g].user = u /\ pc[g] # "idle"
    OBVIOUS
  <2>1. g \in Handlers /\ Busy(g) /\ g # h /\ req[g].user = u
    BY <1>1 DEF Of, Busy
  <2>2. req[g] \in Requests
    BY <1>1, <2>1 DEF Local
  <2>3. req'[g] = [req[g] EXCEPT !.alone = FALSE] \/ req'[g] = req[g]
    BY <2>1 DEF Come
  <2>4. QED
    BY <1>2, <2>1, <2>2, <2>3 DEF Busy, Requests
<1>4. \A g \in Of(u) : g \in Of(u)'
  BY <1>3 DEF Of
<1>5. \A g \in Of(u)' : g # h => g \in Of(u)
  <2> SUFFICES ASSUME NEW g \in Of(u)', g # h PROVE g \in Of(u)
    OBVIOUS
  <2>1. g \in Handlers /\ Busy(g) /\ req'[g].user = u
    BY <1>2 DEF Of, Busy
  <2>2. req[g] \in Requests
    BY <1>1, <2>1 DEF Local
  <2>3. req'[g] = [req[g] EXCEPT !.alone = FALSE] \/ req'[g] = req[g]
    BY <2>1 DEF Come
  <2>4. req[g].user = u
    BY <2>1, <2>2, <2>3 DEF Requests
  <2>5. QED
    BY <2>1, <2>4 DEF Of, Busy
<1>6. HasRow(u)' <=> HasRow(u)
  BY <1>1 DEF HasRow
<1>7. \A g \in Of(u) : /\ Deletes(g)' <=> Deletes(g)
                       /\ Registers(g)' <=> Registers(g)
                       /\ Position(g) => Position(g)'
  BY <1>1, <1>3 DEF Deletes, Registers, Position, HasRow
<1>8. Position(h)' /\ ~Deletes(h)'
  BY <1>2 DEF Position, Registers, Deletes
<1>9. Intact(u)
  BY DEF AllIntact
<1>10. Entire(u)' <=> Entire(u)
  BY <1>1, <1>6 DEF Entire
<1>11. (\A g \in Of(u)' : ~Deletes(g)') => Sound(u)'
  BY <1>4, <1>6, <1>7, <1>9, <1>10 DEF Intact, Sound
<1>12. \A g \in Of(u)' : Position(g)'
  BY <1>5, <1>7, <1>8, <1>9 DEF Intact
<1>13. QED
  BY <1>11, <1>12 DEF Intact

\* Steps that no request sees.
LEMMA AsideKeeps ==
  ASSUME AllIntact, UNCHANGED <<account, home, pc, req, obj>>,
         \A u \in Users : \/ row'[u] = row[u]
                          \/ HasRow(u) /\ HasRow(u)' /\ row'[u].pk = row[u].pk
  PROVE  AllIntact'
<1> SUFFICES ASSUME NEW u \in Users PROVE Intact(u)'
  BY DEF AllIntact
<1>1. /\ HasRow(u)' <=> HasRow(u)
      /\ HasRow(u) => row'[u].pk = row[u].pk
  BY DEF HasRow
<1>2. Of(u)' = Of(u) /\ \A g \in Of(u) : req[g].user = u
  BY DEF Of
<1>3. \A g \in Of(u) : Position(g) => Position(g)'
  BY <1>1, <1>2 DEF Position, Registers
<1>4. (Entire(u)' <=> Entire(u)) /\ \A g \in Of(u) : Registers(g)' <=> Registers(g)
  BY <1>1 DEF Entire, Registers
<1>5. QED
  BY <1>1, <1>2, <1>3, <1>4 DEF AllIntact, Intact, Sound, Deletes

LEMMA NoneFails ==
  ASSUME Calm, Calm', NEW h \in Handlers PROVE ~RmtreeFails(h) /\ ~CommandFails(h)
<1>1. failures = 0 /\ failures' = 0
  BY DEF Calm
<1>2. QED
  BY <1>1 DEF RmtreeFails, CommandFails

LEMMA KeepsIntact ==
  ASSUME IInv, Calm, Calm', AllIntact, [Next]_vars PROVE AllIntact'
<1>1. ASSUME NEW h \in Handlers, Request(h) PROVE AllIntact'
  BY <1>1, ComeKeeps, AccountsAssumption
     DEF Request, login, logout, changepwd, reSetPwd, reSetPwdUser, check_answer, register,
         deluser, Views
<1>2. ASSUME NEW h \in Handlers, Step(h) PROVE AllIntact'
  BY <1>2, FindKeeps, NotFoundKeeps, SaveKeeps, SystemKeeps, CreateAccountKeeps,
     CreateHomeKeeps, InsertKeeps, MakeDirsKeeps, GroupsKeeps, RmtreeKeeps, DeleteRowKeeps,
     DeleteAccountKeeps, RmKeeps, NoneFails DEF Step
<1>3. CASE createnewug \/ delug
  BY <1>3, AsideKeeps DEF createnewug, delug
<1>4. CASE Expire
  <2>1. /\ row' = [row EXCEPT ![admin].code = FALSE] /\ row[admin] \in Rows
        /\ UNCHANGED <<account, home, pc, req, obj>> /\ row \in [Users -> Rows \cup {Nothing}]
    BY <1>4, AccountsAssumption DEF Expire, HasRow, IInv, TypeOK
  <2>2. row' = [row EXCEPT ![admin] = [row[admin] EXCEPT !.code = FALSE]]
    BY <2>1
  <2> DEFINE r == [row[admin] EXCEPT !.code = FALSE]
  <2>3. r \in Rows /\ r.pk = row[admin].pk
    BY <2>1 DEF Rows
  <2> HIDE DEF r
  <2>4. row'[admin] = r /\ \A u \in Users : u # admin => row'[u] = row[u]
    BY <2>1, <2>2, AccountsAssumption DEF r
  <2>5. HasRow(admin) /\ HasRow(admin)'
    BY <1>4, <2>3, <2>4, AccountsAssumption DEF Expire, HasRow
  <2>6. QED
    BY <2>1, <2>3, <2>4, <2>5, AsideKeeps
<1>5. CASE Restart
  <2>1. restarts = 0 /\ restarts' = restarts + 1 /\ restarts' = 0
    BY <1>5 DEF Restart, Calm
  <2>2. QED
    BY <2>1
<1>6. CASE UNCHANGED vars
  BY <1>6, AsideKeeps DEF vars, stored
<1>7. QED
  BY <1>1, <1>2, <1>3, <1>4, <1>5, <1>6 DEF Next

-----------------------------------------------------------------------------
(* The theorems *)

\* Every variable has its type: a row always has a password, and a thread a request, whatever
\* the requests do at a time (views.py).
THEOREM TypeCorrect == Spec => []TypeOK
<1>1. IInv => TypeOK
  BY DEF IInv
<1>2. QED
  BY <1>1, Always, PTL

\* Once a password was changed by a request of its own, the row and the account have the same
\* one, until requests for the user overlap, are cut off or have a command fail (views.py,
\* changepwd, reSetPwd, reSetPwdUser, register, deluser).
THEOREM SamePassword == Spec => []PasswordsAgree
<1>1. IInv => PasswordsAgree
  BY DEF IInv, Quiet, PasswordsAgree, Settled, Of, Busy
<1>2. QED
  BY <1>1, Always, PTL

\* Requests that overlap as they like leave no user with a row and no account or directory,
\* nor the other way round, as long as one that deletes a user is the only one for it, nobody
\* is in a group, no command and no rmtree fails and the server runs (register, deluser and
\* the views that save a row).
THEOREM WholeUsers == Spec => UsersAreWhole
<1>1. Init => AllIntact
  <2> SUFFICES ASSUME Init, NEW u \in Users PROVE Intact(u)
    BY DEF AllIntact
  <2>1. Of(u) = {}
    BY DEF Init, Of
  <2>2. Entire(u)
    <3>1. first # Nothing /\ \A r \in Rows : r # Nothing
      BY AccountsAssumption
    <3>2. [pk |-> 0, Password |-> first, code |-> FALSE, login |-> FALSE] \in Rows
      BY AccountsAssumption DEF Rows
    <3>3. QED
      BY <3>1, <3>2 DEF Init, Entire, HasRow
  <2>3. QED
    BY <2>1, <2>2 DEF Intact, Sound
<1>2. AllIntact => Whole
  BY DEF AllIntact, Intact, Sound, Whole, Entire
<1>3. IInv /\ Calm /\ Calm' /\ AllIntact /\ [Next]_vars => AllIntact'
  BY KeepsIntact
<1>4. QED
  BY <1>1, <1>2, <1>3, Always, PTL DEF Spec, UsersAreWhole

=============================================================================
