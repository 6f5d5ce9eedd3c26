------------------------------ MODULE Accounts ------------------------------
(***************************************************************************)
(* Users of the appliance.  A user is a row of the table User, an account  *)
(* of the system (Unix and Samba, made by the commands mininas_user_...),  *)
(* and a home directory.  The views of views.py change them in several     *)
(* steps, in the order written there; requests run in threads of one       *)
(* process and share nothing but the database and the system.              *)
(*                                                                         *)
(* A view reads a row into an object, changes a field of the object and    *)
(* calls save(), which writes ALL fields: an UPDATE by primary key, and an *)
(* INSERT when no row has that key any more.  edituser, getusername and    *)
(* the logins of devices save a row in the way logout does, and are left   *)
(* out.                                                                    *)
(***************************************************************************)
EXTENDS Naturals, FiniteSets

CONSTANTS
  Users,          \* values of UserName
  admin,
  Passwords,
  first,          \* "123456", which register gives
  Nothing,        \* no row, no account
  Handlers,       \* threads of the web server
  MaxRequests,    \* bound
  MaxFailures,    \* bound
  MaxRestarts     \* bound

Rows == [pk : Nat, Password : Passwords, code : BOOLEAN, login : BOOLEAN]

ASSUME AccountsAssumption ==
  /\ admin \in Users /\ first \in Passwords /\ Nothing \notin Passwords \cup Rows
  /\ MaxRequests \in Nat /\ MaxFailures \in Nat /\ MaxRestarts \in Nat

VARIABLES
  row,        \* the row of a name in User, or Nothing: UserName is unique
  account,    \* the password of the account of a name, or Nothing
  home,       \* names that have a directory under FILE_SAVE_PATH
  ug,         \* names that have a row in Usergroup
  nextPk,     \* AUTO_INCREMENT
  pc,         \* where a thread is in its view
  req,        \* the request it serves
  obj,        \* the object it has read
  clash,      \* history: users of whom requests overlapped, were cut off, or called a command
              \* of the system that failed
  requests,   \* bound
  failures,   \* bound
  restarts    \* bound

stored == <<row, account, home, ug, nextPk>>
bounds == <<requests, failures, restarts>>
vars   == <<stored, pc, req, obj, clash, bounds>>

Views == {"login", "logout", "changepwd", "reSetPwd", "reSetPwdUser", "check_answer",
          "register", "deluser"}
PasswordViews == {"changepwd", "reSetPwd", "reSetPwdUser"}

\* old and new are the passwords that come with it; alone: no other request for the user
\* has overlapped this one, and no command it called has failed.
Requests == [view : Views, user : Users, old : Passwords, new : Passwords, alone : BOOLEAN]

\* The appliance comes with the account of admin.
Init ==
  /\ row = [u \in Users |-> IF u = admin
              THEN [pk |-> 0, Password |-> first, code |-> FALSE, login |-> FALSE]
              ELSE Nothing]
  /\ account = [u \in Users |-> IF u = admin THEN first ELSE Nothing]
  /\ home = {admin} /\ ug = {} /\ nextPk = 1
  /\ pc = [h \in Handlers |-> "idle"]
  /\ req = [h \in Handlers |-> Nothing]
  /\ obj = [h \in Handlers |-> Nothing]
  /\ clash = {} /\ requests = 0 /\ failures = 0 /\ restarts = 0

-----------------------------------------------------------------------------
(* A request comes and ends *)

Of(u) == {h \in Handlers : pc[h] # "idle" /\ req[h].user = u}

Come(h, v, u, old, new) ==
  /\ pc[h] = "idle" /\ requests < MaxRequests
  /\ requests' = requests + 1
  /\ pc' = [pc EXCEPT ![h] = "find"]
  /\ req' = [g \in Handlers |->
       IF g = h THEN [view |-> v, user |-> u, old |-> old, new |-> new, alone |-> Of(u) = {}]
       ELSE IF g \in Of(u) THEN [req[g] EXCEPT !.alone = FALSE] ELSE req[g]]
  /\ clash' = IF Of(u) = {} THEN clash ELSE clash \cup {u}
  /\ UNCHANGED <<stored, obj, failures, restarts>>

Goto(h, l) == pc' = [pc EXCEPT ![h] = l]

\* A password that was changed by a request of its own sets things right.
Answer(h) ==
  /\ Goto(h, "idle")
  /\ req' = [req EXCEPT ![h] = Nothing] /\ obj' = [obj EXCEPT ![h] = Nothing]
  /\ clash' = IF req[h].alone /\ req[h].view \in PasswordViews
                 /\ pc[h] # "find"
              THEN clash \ {req[h].user} ELSE clash

Continue(h, l) == Goto(h, l) /\ UNCHANGED <<req, obj, clash>>

-----------------------------------------------------------------------------
(* The first query of a view *)

HasRow(u) == row[u] # Nothing

Matches(h, r) ==
  /\ req[h].view \in {"login", "changepwd"} => r.Password = req[h].old
  /\ req[h].view = "reSetPwd" => r.code

Found(h) == HasRow(req[h].user) /\ Matches(h, row[req[h].user])

\* Where each view goes on with the row it found.
After_unset(v) == IF v = "deluser" THEN "groups" ELSE "save"
After(v) ==
  IF v \in {"changepwd", "reSetPwdUser"} THEN "system"
  ELSE IF v = "deluser" THEN "groups" ELSE "save"

Find(h) ==
  /\ pc[h] = "find" /\ req[h].view # "register" /\ Found(h)
  /\ obj' = [obj EXCEPT ![h] = row[req[h].user]]
  /\ Goto(h, After(req[h].view))
  /\ UNCHANGED <<stored, req, clash, bounds>>

NotFound(h) ==
  /\ pc[h] = "find"
  /\ IF req[h].view = "register" THEN HasRow(req[h].user) ELSE ~Found(h)
  /\ Answer(h)
  /\ UNCHANGED <<stored, bounds>>

-----------------------------------------------------------------------------
(* save() *)

\* The fields the view has set.
Changed_code(v, r, new) == [r EXCEPT !.code = new]
Changed(v, r, new) ==
  [r EXCEPT !.login    = v = "login" \/ (@ /\ v # "logout"),
            !.code     = @ \/ v = "check_answer",
            !.Password = IF v \in PasswordViews THEN new ELSE @]

\* An UPDATE of the row with the key, or an INSERT, which fails when another row has the
\* name.
CanSave(r, u) == HasRow(u) => row[u].pk = r.pk

Save(h) ==
  LET u == req[h].user
      r == Changed(req[h].view, obj[h], req[h].new) IN
  /\ pc[h] = "save" /\ req[h].view # "register"
  /\ IF CanSave(r, u)
     THEN /\ row' = [row EXCEPT ![u] = r]
          /\ IF req[h].view = "reSetPwd" THEN Continue(h, "system") ELSE Answer(h)
     ELSE UNCHANGED row /\ Answer(h)
  /\ UNCHANGED <<account, home, ug, nextPk, bounds>>

-----------------------------------------------------------------------------
(* Passwords of the system *)

\* mininas_user_password
SetPassword(u, p) == account' = [account EXCEPT ![u] = IF @ = Nothing THEN Nothing ELSE p]

System(h) ==
  /\ pc[h] = "system"
  /\ SetPassword(req[h].user, req[h].new)
  /\ IF req[h].view = "reSetPwd" THEN Answer(h) ELSE Continue(h, "save")
  /\ UNCHANGED <<row, home, ug, nextPk, bounds>>

-----------------------------------------------------------------------------
(* register *)

\* mininas_user_create does nothing when there is the account.
CreateAccount(h) ==
  LET u == req[h].user IN
  /\ pc[h] = "find" /\ req[h].view = "register" /\ ~HasRow(u)
  /\ account' = [account EXCEPT ![u] = IF @ = Nothing THEN first ELSE @]
  /\ Continue(h, "home")
  /\ UNCHANGED <<row, home, ug, nextPk, bounds>>

CreateHome(h) ==
  /\ pc[h] = "home"
  /\ home' = home \cup {req[h].user}
  /\ Continue(h, "save")
  /\ UNCHANGED <<row, account, ug, nextPk, bounds>>

\* An INSERT, which fails when there is the name.
Insert(h) ==
  LET u == req[h].user IN
  /\ pc[h] = "save" /\ req[h].view = "register"
  /\ IF HasRow(u)
     THEN UNCHANGED <<row, nextPk>> /\ Answer(h)
     ELSE /\ row' = [row EXCEPT ![u] = [pk |-> nextPk, Password |-> first, code |-> FALSE,
                                        login |-> FALSE]]
          /\ nextPk' = nextPk + 1
          /\ Continue(h, "dirs")
  /\ UNCHANGED <<account, home, ug, bounds>>

\* The directories of system_path, under the home directory.
MakeDirs(h) ==
  /\ pc[h] = "dirs"
  /\ home' = home \cup {req[h].user}
  /\ Answer(h)
  /\ UNCHANGED <<row, account, ug, nextPk, bounds>>

-----------------------------------------------------------------------------
(* deluser *)

\* The first row of Usergroup raises an exception, for it has no UserName: the row of the
\* user stays, the rest is done.
Raises_always(u) == TRUE
Raises(u) == u \in ug

Groups(h) ==
  /\ pc[h] = "groups"
  /\ IF Raises(req[h].user) THEN Continue(h, "account") ELSE Continue(h, "rmtree")
  /\ UNCHANGED <<stored, bounds>>

Rmtree(h) ==
  /\ pc[h] = "rmtree"
  /\ home' = home \ {req[h].user}
  /\ Continue(h, "delete")
  /\ UNCHANGED <<row, account, ug, nextPk, bounds>>

\* An exception, with a file written into the directory meanwhile: the same as with a row of
\* Usergroup.
RmtreeFails(h) ==
  /\ pc[h] = "rmtree"
  /\ failures < MaxFailures /\ failures' = failures + 1
  /\ Continue(h, "account")
  /\ UNCHANGED <<stored, requests, restarts>>

DeleteRow(h) ==
  LET u == req[h].user IN
  /\ pc[h] = "delete"
  /\ row' = [row EXCEPT ![u] = IF HasRow(u) /\ @.pk = obj[h].pk THEN Nothing ELSE @]
  /\ Continue(h, "account")
  /\ UNCHANGED <<account, home, ug, nextPk, bounds>>

\* mininas_user_delete
DeleteAccount(h) ==
  /\ pc[h] = "account"
  /\ account' = [account EXCEPT ![req[h].user] = Nothing]
  /\ Continue(h, "rm")
  /\ UNCHANGED <<row, home, ug, nextPk, bounds>>

\* rm -rf; then the query for Sharefuser.username raises an exception.
Rm(h) ==
  /\ pc[h] = "rm"
  /\ home' = home \ {req[h].user}
  /\ Answer(h)
  /\ UNCHANGED <<row, account, ug, nextPk, bounds>>

-----------------------------------------------------------------------------
(* Commands that fail *)

\* Where a view calls a mininas_user_... command, or rm.
Calls(h) ==
  \/ pc[h] \in {"system", "home", "account", "rm"}
  \/ pc[h] = "find" /\ req[h].view = "register" /\ ~HasRow(req[h].user)

EndsAfter(h) == pc[h] = "rm" \/ (pc[h] = "system" /\ req[h].view = "reSetPwd")

AfterCommand(h) ==
  CASE pc[h] = "find"    -> "home"
    [] pc[h] = "account" -> "rm"
    [] OTHER             -> "save"

\* Nobody looks at the exit status: the view goes on as if the command had done its work.
CommandFails(h) ==
  /\ Calls(h)
  /\ failures < MaxFailures /\ failures' = failures + 1
  /\ clash' = clash \cup {req[h].user}
  /\ IF EndsAfter(h)
     THEN /\ Goto(h, "idle")
          /\ req' = [req EXCEPT ![h] = Nothing] /\ obj' = [obj EXCEPT ![h] = Nothing]
     ELSE /\ Goto(h, AfterCommand(h))
          /\ req' = [req EXCEPT ![h].alone = FALSE] /\ UNCHANGED obj
  /\ UNCHANGED <<stored, requests, restarts>>

-----------------------------------------------------------------------------
(* Groups, time and restarts *)

\* Every user gets a row in Usergroup, in the group or not.
createnewug ==
  /\ requests < MaxRequests /\ requests' = requests + 1
  /\ ug' = ug \cup {u \in Users : HasRow(u)}
  /\ UNCHANGED <<row, account, home, nextPk, pc, req, obj, clash, failures, restarts>>

\* All groups are deleted.
delug ==
  /\ requests < MaxRequests /\ requests' = requests + 1
  /\ ug # {} /\ ug' = {}
  /\ UNCHANGED <<row, account, home, nextPk, pc, req, obj, clash, failures, restarts>>

\* The code of check_answer is good for 180 seconds; a request takes less.
Expire ==
  /\ HasRow(admin) /\ row[admin].code
  /\ row' = [row EXCEPT ![admin].code = FALSE]
  /\ Of(admin) = {}
  /\ UNCHANGED <<account, home, ug, nextPk, pc, req, obj, clash, bounds>>

Restart ==
  /\ restarts < MaxRestarts /\ restarts' = restarts + 1
  /\ clash' = clash \cup {u \in Users : Of(u) # {}}
  /\ pc' = [h \in Handlers |-> "idle"]
  /\ req' = [h \in Handlers |-> Nothing] /\ obj' = [h \in Handlers |-> Nothing]
  /\ UNCHANGED <<stored, requests, failures>>


login(h) == \E u \in Users, p \in Passwords : Come(h, "login", u, p, first)
logout(h) == \E u \in Users : Come(h, "logout", u, first, first)
changepwd(h) ==
  \E u \in Users, old \in Passwords, new \in Passwords : Come(h, "changepwd", u, old, new)
reSetPwd(h) == \E new \in Passwords : Come(h, "reSetPwd", admin, first, new)
reSetPwdUser(h) ==
  \E u \in Users, new \in Passwords : Come(h, "reSetPwdUser", u, first, new)
check_answer(h) == Come(h, "check_answer", admin, first, first)
register(h) == \E u \in Users \ {admin} : Come(h, "register", u, first, first)
deluser(h) == \E u \in Users \ {admin} : Come(h, "deluser", u, first, first)

Request(h) ==
  \/ login(h) \/ logout(h) \/ changepwd(h) \/ reSetPwd(h) \/ reSetPwdUser(h)
  \/ check_answer(h) \/ register(h) \/ deluser(h)

Step(h) ==
  \/ Find(h) \/ NotFound(h) \/ Save(h) \/ System(h)
  \/ CreateAccount(h) \/ CreateHome(h) \/ Insert(h) \/ MakeDirs(h)
  \/ Groups(h) \/ Rmtree(h) \/ RmtreeFails(h) \/ DeleteRow(h) \/ DeleteAccount(h) \/ Rm(h)
  \/ CommandFails(h)

Next ==
  \/ \E h \in Handlers : Request(h) \/ Step(h)
  \/ createnewug \/ delug \/ Expire \/ Restart

Spec == Init /\ [][Next]_vars

-----------------------------------------------------------------------------
(* Properties *)

TypeOK ==
  /\ row \in [Users -> Rows \cup {Nothing}]
  /\ account \in [Users -> Passwords \cup {Nothing}]
  /\ home \subseteq Users /\ ug \subseteq Users /\ nextPk \in Nat
  /\ pc \in [Handlers -> {"idle", "find", "save", "system", "home", "dirs", "groups", "rmtree",
                          "delete", "account", "rm"}]
  /\ req \in [Handlers -> Requests \cup {Nothing}]
  /\ obj \in [Handlers -> Rows \cup {Nothing}]
  /\ clash \subseteq Users /\ requests \in Nat /\ failures \in Nat /\ restarts \in Nat

\* The web page and the network shares take the same password of a user, unless requests
\* for the user overlapped or were cut off, or a command for it failed, since its password
\* was last changed by a request alone.
PasswordsAgree ==
  \A u \in Users : HasRow(u) /\ account[u] # Nothing /\ u \notin clash /\ Of(u) = {} =>
    row[u].Password = account[u]

\* A user is there as a row, an account and a directory, or not at all: requests for one
\* user may overlap as they like, as long as none of them deletes it, nobody is in a group,
\* no command and no rmtree fails, and the server is not restarted.
Whole ==
  \A u \in Users : Of(u) = {} =>
    (HasRow(u) <=> account[u] # Nothing) /\ (HasRow(u) <=> u \in home)

Calm ==
  /\ ug = {} /\ failures = 0 /\ restarts = 0
  /\ \A u \in Users : \A h \in Of(u) : req[h].view = "deluser" => Of(u) = {h}

UsersAreWhole == []Calm => []Whole

\* The password of a row is changed by the views that are for it, and never by a login, a
\* logout or an answer to the questions.
ChangesPassword(h, u) ==
  /\ pc[h] = "save" /\ pc'[h] # "save"
  /\ req[h].user = u /\ req[h].view \in PasswordViews

OnlyChangedOnRequest ==
  [][\A u \in Users : HasRow(u) /\ HasRow(u)' /\ row'[u].Password # row[u].Password =>
       \E h \in Handlers : ChangesPassword(h, u)]_vars

=============================================================================
