------------------------------ MODULE FileOps ------------------------------
(***************************************************************************)
(* The operations on stored files and folders (views.py), and the process  *)
(* that keeps their index, Fileinfo_up, by inotify (watch.py).             *)
(*                                                                         *)
(* The views change the tree and the index in separate steps, in one order *)
(* or the other, and leave some rows to the watcher, which runs behind.    *)
(* One request is at work at a time, on one row of those it names; Samba   *)
(* writes and removes files at any step.                                   *)
(*                                                                         *)
(* pyinotify is external: with this mask an event names the directory by   *)
(* the path it had when its watch was added, also after it was renamed,    *)
(* and a new directory is watched from when its event is handled.          *)
(*                                                                         *)
(* A path is the sequence of its names; no name is the end of another, and *)
(* folders and files have different names.  Thumbnails, tags, sizes and    *)
(* the Thunder folders are left out.                                       *)
(***************************************************************************)
EXTENDS Naturals, SequencesExt

CONSTANTS
  Paths,       \* folders that may exist, under FILE_SAVE_PATH
  Files,       \* names of files, records [stem, ext]
  Roots,       \* folders there are at first, watched
  Stored,      \* files there are at first, indexed
  NoFile,
  MaxOps,      \* bound: requests
  MaxChanges   \* bound: changes by Samba

Places    == [dir : Paths, file : Files]
Absent    == <<>>
Unwatched == <<"?">>

ASSUME FileAssumption ==
  /\ \A p \in Paths : p \in Seq(STRING) /\ \A i \in 1 .. Len(p) : SubSeq(p, 1, i) \in Paths
  /\ Absent \notin Paths /\ Unwatched \notin Paths
  /\ Files \subseteq [stem : STRING, ext : STRING] /\ NoFile \notin Files
  /\ \A p \in Roots : \A i \in 1 .. Len(p) : SubSeq(p, 1, i) \in Roots
  /\ \A p \in Paths : SubSeq(p, 1, 1) \in Roots
  /\ Roots \subseteq Paths /\ Stored \subseteq [dir : Roots, file : Files]
  /\ IsFiniteSet(Stored)
  /\ {MaxOps, MaxChanges} \subseteq Nat

VARIABLES
  (* the tree *)
  watch,      \* of a folder: the path of its watch; Unwatched; Absent: no such folder
  files,      \* the files
  (* the index *)
  rows,       \* Fileinfo_up
  lastId,     \* its AUTO_INCREMENT
  (* watch.py *)
  queue,      \* inotify events not handled
  stage,      \* what it does next: "wait" for an event, "open" the file of the first one,
              \* "select" its row, or "insert" one
  inserting,  \* the file it has read, until its row is there
  (* the request *)
  pc, op,
  row,        \* f, uf: the row object of a file
  from, to,   \* the folder, before and after
  todo,       \* the row objects of a loop still to come
  (* bounds and history *)
  ops, changes,
  mishaps     \* what happened that the index may not survive:
              \* "overtaken": a rename or move of what the watcher was still to handle;
              \* "meddled": Samba changed what a request was at work on;
              \* "deaf": a change in a folder not yet watched, or renamed since;
              \* "replaced": filerename took the name of another file;
              \* "sibling": photom found a file of that name with another suffix;
              \* "elsewhere": the path of a folder is also inside another path, or twice in one;
              \* "failed": photofo was refused after it had changed the rows;
              \* "ended": a file went away before the watcher read it, which ended the watcher

tree    == <<watch, files>>
index   == <<rows, lastId>>
watcher == <<queue, stage, inserting>>
request == <<pc, op, row, from, to, todo>>
vars    == <<tree, index, watcher, request, ops, changes, mishaps>>

OnFiles   == {"deletefile", "filerename", "photom"}
Exists(p) == watch[p] # Absent
NoPlace   == [dir |-> <<>>, file |-> NoFile]
NoObject  == [id |-> 0, at |-> NoPlace]

Init ==
  /\ watch = [p \in Paths |-> IF p \in Roots THEN p ELSE Absent]
  /\ files = Stored
  /\ rows = LET s == SetToSeq(Stored) IN {[id |-> i, at |-> s[i]] : i \in DOMAIN s}
  /\ lastId = Cardinality(Stored)
  /\ queue = <<>> /\ stage = "wait" /\ inserting = NoPlace
  /\ pc = "idle" /\ op = "none" /\ row = NoObject /\ from = <<>> /\ to = <<>> /\ todo = {}
  /\ ops = 0 /\ changes = 0 /\ mishaps = {}

-----------------------------------------------------------------------------
(* Pieces the handlers share, each mutant before what it is a mutant of *)

Under(p, q) == IsPrefix(p, q)
Found(p, q) == {i \in 1 .. Len(q) - Len(p) + 1 : SubSeq(q, i, i + Len(p) - 1) = p}
Occurs(p, q) == Found(p, q) # {}

\* f.save(): every column of the object is written, a row that is gone comes back.
Save_anew(r) == rows' = rows \cup {r}
Save(r) == rows' = {x \in rows : x.id # r.id} \cup {r}

Unlisted_ever(l) == TRUE
Unlisted(l) == \A r \in rows : r.at # l

Unlist(l) == rows' = {r \in rows : r.at # l}

\* filter(path__contains=...)
Beneath_only(p) == {r \in rows : r.at.dir = p}
Beneath(p) == {r \in rows : Occurs(p, r.at.dir)}

\* str(f.path).replace(oname, newfilename + "/"), of an oname that occurs once.
Renamed_flat(p, n, q) == n
Renamed(p, n, q) ==
  LET i == Min(Found(p, q)) IN SubSeq(q, 1, i - 1) \o n \o SubSeq(q, i + Len(p), Len(q))

\* npath + oname + "/" + db_path.split(opath)[-1]
Rehung(p, n, q) == n \o <<Last(p)>> \o SubSeq(q, Max(Found(p, q)) + Len(p), Len(q))

\* What inotify reports of a change of the files at S.
Events(kind, S) ==
  LET heard == {l \in S : watch[l.dir] # Unwatched}
      s == SetToSeq(heard)
  IN [i \in DOMAIN s |-> [kind |-> kind, at |-> [s[i] EXCEPT !.dir = watch[@]]]]

\* os.rename of a folder: what is under p is under n, with the watches it has.
\* Movable bounds the tree: the new paths are among Paths.
Movable(p, n) == \A q \in Paths : Exists(q) /\ Under(p, q)
                   => n \o SubSeq(q, Len(p) + 1, Len(q)) \in Paths
MoveFolder(p, n) ==
  LET back(q) == p \o SubSeq(q, Len(n) + 1, Len(q)) IN
  /\ watch' = [q \in Paths |-> IF Under(n, q) /\ back(q) \in Paths THEN watch[back(q)]
                               ELSE IF Under(p, q) THEN Absent ELSE watch[q]]
  /\ files' = {IF Under(p, l.dir)
               THEN [l EXCEPT !.dir = n \o SubSeq(@, Len(p) + 1, Len(@))] ELSE l : l \in files}

-----------------------------------------------------------------------------
(* History, noted by the steps *)

Note(why, happens) == mishaps' = mishaps \cup IF happens THEN {why} ELSE {}

\* Places the request reads or changes.
Touches(l) ==
  IF op \in OnFiles THEN l \in {from, to} ELSE Under(from, l.dir) \/ Under(to, l.dir)

\* A change that inotify does not report, or under a path that is no longer true.
Deaf(l) == watch[l.dir] # l.dir

\* The watcher has still to handle what happened where a move comes from or goes to.
Pending == {e.at : e \in {x \in Range(queue) : x.kind # "create"}}
             \cup ({inserting} \ {NoPlace})

-----------------------------------------------------------------------------
(* Samba *)

Meddles(l) ==
  /\ changes < MaxChanges /\ changes' = changes + 1
  /\ mishaps' = mishaps \cup {w \in {"deaf", "meddled"} :
                                \/ w = "deaf" /\ Deaf(l)
                                \/ w = "meddled" /\ pc # "idle" /\ Touches(l)}
  /\ UNCHANGED <<watch, index, stage, inserting, request, ops>>

SmbWrite(l) ==
  /\ Exists(l.dir)
  /\ files' = files \cup {l}
  /\ queue' = queue \o Events("close", {l})
  /\ Meddles(l)

SmbRemove(l) ==
  /\ l \in files
  /\ files' = files \ {l}
  /\ queue' = queue \o Events("delete", {l})
  /\ Meddles(l)

-----------------------------------------------------------------------------
(* watch.py *)

Watching == UNCHANGED <<files, request, ops, changes>>
Due(kind) == stage = "wait" /\ queue # <<>> /\ Head(queue).kind = kind

\* pyinotify itself: the new directory, and those made in it in the meantime.
auto_add ==
  /\ Due("create")
  /\ queue' = Tail(queue)
  /\ watch' = [q \in Paths |->
       IF /\ Head(queue).at.dir \in Paths /\ Exists(Head(queue).at.dir)
          /\ Under(Head(queue).at.dir, q) /\ watch[q] = Unwatched
       THEN q ELSE watch[q]]
  /\ UNCHANGED <<index, stage, inserting, mishaps>> /\ Watching

\* Is there still such a file?
process_IN_CLOSE_WRITE ==
  /\ Due("close")
  /\ IF Head(queue).at \in files THEN stage' = "open" /\ UNCHANGED queue
                                 ELSE queue' = Tail(queue) /\ UNCHANGED stage
  /\ UNCHANGED <<watch, index, inserting, mishaps>> /\ Watching

\* It is read, for its size, its hash and its tags; nothing catches what is raised when
\* it has gone: the process ends, with its watches, and nothing starts it again.
Open ==
  /\ stage = "open"
  /\ IF Head(queue).at \in files
     THEN /\ stage' = "select" /\ queue' = Tail(queue) /\ inserting' = Head(queue).at
          /\ UNCHANGED watch
     ELSE /\ stage' = "wait" /\ queue' = <<>>
          /\ watch' = [q \in Paths |-> IF Exists(q) THEN Unwatched ELSE Absent]
          /\ UNCHANGED inserting
  /\ Note("ended", Head(queue).at \notin files)
  /\ UNCHANGED index /\ Watching

Select ==
  /\ stage = "select"
  /\ IF Unlisted(inserting) THEN stage' = "insert" /\ UNCHANGED inserting
                            ELSE stage' = "wait" /\ inserting' = NoPlace
  /\ UNCHANGED <<watch, index, queue, mishaps>> /\ Watching

Insert ==
  /\ stage = "insert"
  /\ stage' = "wait" /\ inserting' = NoPlace
  /\ lastId' = lastId + 1
  /\ rows' = rows \cup {[id |-> lastId', at |-> inserting]}
  /\ UNCHANGED <<watch, queue, mishaps>> /\ Watching

process_IN_DELETE ==
  /\ Due("delete")
  /\ queue' = Tail(queue)
  /\ Unlist(Head(queue).at)
  /\ UNCHANGED <<watch, lastId, stage, inserting, mishaps>> /\ Watching

-----------------------------------------------------------------------------
(* The views *)

At(label) == pc = label
Goto(label) == pc' = label

\* An operation on files begins with the row of the file.
Begin(o, r, target) ==
  /\ At("idle") /\ ops < MaxOps
  /\ ops' = ops + 1
  /\ op' = o /\ row' = r /\ from' = r.at /\ to' = target /\ todo' = {}
  /\ Goto("disk")
  /\ Note("overtaken", o # "deletefile" /\ Pending \cap {r.at, target} # {})
  /\ UNCHANGED <<tree, index, watcher, changes>>

View ==
  \E r \in rows :
    /\ r.at \in Places
    /\ \/ Begin("deletefile", r, r.at)
       \/ \E f \in Files : f.ext = r.at.file.ext /\ Begin("filerename", r, [r.at EXCEPT !.file = f])
       \/ \E p \in Paths : /\ Exists(p) /\ p # r.at.dir
                           /\ Begin("photom", r, [r.at EXCEPT !.dir = p])

\* The row is left to the watcher.
deletefile ==
  /\ At("disk") /\ op = "deletefile"
  /\ files' = files \ {from}
  /\ queue' = queue \o Events("delete", files \cap {from})
  /\ Goto("idle")
  /\ Note("deaf", from \in files /\ Deaf(from))
  /\ UNCHANGED <<watch, index, stage, inserting, op, row, from, to, todo, ops, changes>>

\* os.rename replaces a file that has the name; when it fails, nothing is saved.
filerename ==
  /\ At("disk") /\ op = "filerename"
  /\ files' = IF from \in files THEN (files \ {from}) \cup {to} ELSE files
  /\ row' = [row EXCEPT !.at = to]
  /\ Goto(IF from \in files THEN "save" ELSE "idle")
  /\ Note("replaced", {from, to} \subseteq files /\ from # to)
  /\ UNCHANGED <<watch, index, watcher, op, from, to, todo, ops, changes>>

\* Where the name is taken the file is removed, and its row still moves; a row without
\* a file is deleted, and saved again as a new one.
photom ==
  /\ At("disk") /\ op = "photom"
  /\ IF to \in files THEN
        /\ files' = files \ {from}
        /\ queue' = queue \o Events("delete", files \cap {from})
        /\ Goto(IF from \in files THEN "save" ELSE "idle")
        /\ UNCHANGED <<rows, lastId>> /\ row' = [row EXCEPT !.at = to]
     ELSE IF from \in files THEN
        /\ files' = (files \ {from}) \cup {to}
        /\ row' = [row EXCEPT !.at = to]
        /\ Goto("save")
        /\ UNCHANGED <<rows, lastId, queue>>
     ELSE
        /\ lastId' = lastId + 1
        /\ rows' = {x \in rows : x.id # row.id}
        /\ row' = [id |-> lastId', at |-> to]
        /\ Goto("save")
        /\ UNCHANGED <<files, queue>>
  /\ Note("deaf", {from, to} \subseteq files /\ Deaf(from))
  /\ UNCHANGED <<watch, stage, inserting, op, from, to, todo, ops, changes>>

save ==
  /\ At("save")
  /\ Save(row)
  /\ Goto(IF op = "photom" THEN "twins" ELSE "idle")
  /\ UNCHANGED <<tree, lastId, watcher, op, row, from, to, todo, ops, changes, mishaps>>

\* ff = filter(name=f.name, path=npath); if len(ff)>1: ff[0].delete()
Twins ==
  LET ff == {x \in rows : /\ x.at.dir = row.at.dir
                          /\ x.at.file.stem = row.at.file.stem} IN
  /\ At("twins")
  /\ IF Cardinality(ff) > 1 THEN \E x \in ff : rows' = rows \ {x} ELSE rows' = rows
  /\ Goto("idle")
  /\ Note("sibling", Cardinality(ff) > 1 /\ \E x \in ff : x.at.file # row.at.file)
  /\ UNCHANGED <<tree, lastId, watcher, op, row, from, to, todo, ops, changes>>

\* An operation on folders; from and to are their paths.
Folder(o, p, q) ==
  /\ At("idle") /\ ops < MaxOps
  /\ ops' = ops + 1
  /\ op' = o /\ row' = NoObject /\ from' = p /\ to' = q
  /\ UNCHANGED <<lastId, stage, inserting, changes>>

\* os.makedirs; one event, for the first directory it makes.
photoa(p) ==
  LET new == {q \in Paths : Under(q, p) /\ ~Exists(q)}
      top == CHOOSE q \in new : \A x \in new : Len(q) <= Len(x)
      parent == watch[Front(top)] IN
  /\ ~Exists(p)
  /\ Folder("photoa", p, p)
  /\ watch' = [q \in Paths |-> IF q \in new THEN Unwatched ELSE watch[q]]
  /\ queue' = IF parent = Unwatched THEN queue
              ELSE Append(queue, [kind |-> "create",
                                  at |-> [dir |-> Append(parent, Last(top)), file |-> NoFile]])
  /\ UNCHANGED <<files, rows, pc, todo, mishaps>>

\* The rows a folder operation goes through; after them photofo moves the folder.
Loop(o, S) ==
  /\ todo' = S
  /\ Goto(IF S # {} THEN "each" ELSE IF o = "photofo" THEN "move" ELSE "idle")
Elsewhere(o, p) == \E r \in Beneath(p) : IF o = "photod" THEN ~Under(p, r.at.dir)
                                         ELSE Found(p, r.at.dir) # {1}

\* shutil.rmtree: an event for each file.
photod(p) ==
  LET gone == {l \in files : Under(p, l.dir)} IN
  /\ Exists(p) /\ Len(p) > 1
  /\ Folder("photod", p, p)
  /\ files' = files \ gone
  /\ watch' = [q \in Paths |-> IF Under(p, q) THEN Absent ELSE watch[q]]
  /\ queue' = queue \o Events("delete", gone)
  /\ pc' = "query" /\ todo' = {}
  /\ Note("deaf", \E l \in gone : watch[l.dir] # Unwatched /\ Deaf(l))
  /\ UNCHANGED rows

photor(p, n) ==
  /\ Exists(p) /\ Len(p) > 1 /\ ~Exists(n) /\ Front(n) = Front(p)
  /\ Folder("photor", p, n)
  /\ Movable(p, n) /\ MoveFolder(p, n)
  /\ pc' = "query" /\ todo' = {}
  /\ Note("overtaken", \E l \in Pending : Under(p, l.dir) \/ Under(n, l.dir))
  /\ UNCHANGED <<rows, queue>>

query ==
  /\ At("query")
  /\ Loop(op, Beneath(from))
  /\ Note("elsewhere", Elsewhere(op, from))
  /\ UNCHANGED <<tree, index, watcher, op, row, from, to, ops, changes>>

\* shutil.move does not replace a folder, nor move one into itself.
Refused(p, q) == (q \in Paths /\ Exists(q)) \/ Under(p, q)

\* Into the folder n, by its last name.
photofo(p, n) ==
  /\ Exists(p) /\ Exists(n) /\ Len(p) > 1
  /\ ~Refused(p, Append(n, Last(p))) => Movable(p, Append(n, Last(p)))
  /\ Folder("photofo", p, Append(n, Last(p)))
  /\ Loop("photofo", Beneath(p))
  /\ mishaps' = mishaps \cup {w \in {"overtaken", "elsewhere"} :
       \/ w = "overtaken" /\ \E l \in Pending : Under(p, l.dir) \/ Under(to', l.dir)
       \/ w = "elsewhere" /\ Elsewhere("photofo", p)}
  /\ UNCHANGED <<tree, rows, queue>>

\* photod deletes by fus.delete(), which queries anew, once for each row it has found.
each ==
  \E r \in todo :
    /\ At("each")
    /\ \/ op = "photod" /\ rows' = rows \ Beneath(from)
       \/ op = "photor" /\ Save([r EXCEPT !.at.dir = Renamed(from, to, @)])
       \/ op = "photofo" /\ Save([r EXCEPT !.at.dir = Rehung(from, Front(to), @)])
    /\ Loop(op, todo \ {r})
    /\ Note("elsewhere", op = "photod" /\ Elsewhere(op, from))
    /\ UNCHANGED <<tree, lastId, watcher, op, row, from, to, ops, changes>>

\* shutil.move, whose refusal leaves the rows as they are.
move ==
  /\ At("move")
  /\ IF Refused(from, to) THEN UNCHANGED tree ELSE MoveFolder(from, to)
  /\ Note("failed", Refused(from, to) /\ from # to)
  /\ Goto("idle")
  /\ UNCHANGED <<index, watcher, op, row, from, to, todo, ops, changes>>

-----------------------------------------------------------------------------
(* The system *)

FolderView ==
  \/ \E p \in Paths : photoa(p) \/ photod(p)
  \/ \E p, n \in Paths : photor(p, n) \/ photofo(p, n)

Handle == deletefile \/ filerename \/ photom \/ save \/ Twins \/ query \/ each \/ move

Notify == auto_add \/ process_IN_CLOSE_WRITE \/ Open \/ Select \/ Insert \/ process_IN_DELETE

Next ==
  \/ \E l \in Places : SmbWrite(l) \/ SmbRemove(l)
  \/ Notify \/ View \/ FolderView \/ Handle

Spec == Init /\ [][Next]_vars

-----------------------------------------------------------------------------
(* Properties *)

Object == [id : Nat, at : [dir : Seq(STRING), file : Files]]

TypeOK ==
  /\ watch \in [Paths -> Paths \cup {Absent, Unwatched}]
  /\ files \subseteq {l \in Places : Exists(l.dir)}
  /\ rows \subseteq Object /\ \A r, x \in rows : r.id = x.id => r = x
  /\ lastId \in Nat /\ \A r \in rows : r.id <= lastId
  /\ queue \in Seq([kind : {"close", "delete", "create"},
                    at : [dir : Seq(STRING), file : Files \cup {NoFile}]])
  /\ stage \in {"wait", "open", "select", "insert"}
  /\ stage = "open" => queue # <<>> /\ Head(queue).kind = "close"
  /\ inserting \in IF stage \in {"select", "insert"} THEN Places ELSE {NoPlace}
  /\ pc \in {"idle", "disk", "save", "twins", "query", "each", "move"}
  /\ todo \subseteq Object
  /\ pc \in {"save", "twins"} => row \in Object
  /\ ops \in Nat /\ changes \in Nat

\* Nothing is under way.
Settled == pc = "idle" /\ stage = "wait" /\ queue = <<>>

\* The index is what the pages show and the only way to a file: once requests and
\* watcher are done it lists what is on the disk, each file once, after any mixture of
\* operations and of changes by Samba, unless a mishap happened, the end of the watcher
\* among them: nothing in views.py or watch.py prevents one.

\* A row stands for a file that is there.
RowHasFile ==
  Settled /\ mishaps = {} => \A r \in rows : r.at \in files

\* A file has a row; that a rename replaced another file cannot break this.
FileHasRow ==
  Settled /\ mishaps \subseteq {"replaced"} => \A l \in files : ~Unlisted(l)

\* And only one, although watch.py and photom both insert rows of their own accord.
OneRowEach ==
  Settled /\ mishaps = {} => \A r, x \in rows : r.at = x.at => r = x

=============================================================================
