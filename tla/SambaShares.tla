---------------------------- MODULE SambaShares ----------------------------
(***************************************************************************)
(* Shared folders: views.py keeps a Sharefuser row for every share,        *)
(* sambactl.py keeps the shares in samba.json, renders smb.conf from it,   *)
(* and smbd serves what it read last.  A request rewrites the three one    *)
(* after the other, the two files by truncating them first.  delraid and   *)
(* createraid take the volume of the folders away and make a new one.      *)
(***************************************************************************)
EXTENDS Naturals, FiniteSets

CONSTANTS Handlers,     \* the threads that serve requests
          Shares,       \* the shares that may ever be made
          NoShare,      \* no share
          Late,         \* the mark of a file written to a deleted share
          LastNumber,   \* the last of the numbers given to shares (99)
          NoOption,     \* no setting
          Options,      \* the values of the settings of a share
          MaxFiles      \* bound: shares with files in one folder

ASSUME ConstantsAssumption ==
  /\ LastNumber \in Nat
  /\ NoOption \notin Options
  /\ NoShare \notin Shares
  /\ Late \notin Shares

VARIABLES rows,     \* how many Sharefuser rows have a number
          json,     \* samba.json, as it was last written
          conf,     \* smb.conf, as it was last written
          torn,     \* the files that are truncated and not yet written
          served,   \* what smbd read last
          files,    \* which shares the files in the folder of a number are of
          mounted,  \* the volume of the folders is there
          made,     \* the shares made so far
          rebooting,\* delraid has set the timer for the reboot
          job       \* what each handler is doing

vars == <<rows, json, conf, torn, served, files, mounted, made, rebooting, job>>

Numbers == 0 .. LastNumber
Entry == [share : Shares, number : Numbers, option : Options]
Config == SUBSET Entry     \* the other settings of the two files say nothing of shares

Ops == {"none", "add", "edit", "remove", "global", "drop", "make"}
Steps == {"idle", "row", "load", "open", "write", "render", "openconf", "writeconf",
          "lookup", "erase", "unrow", "restart", "disable", "timer", "unrows", "format"}
Job == [op : Ops, pc : Steps, share : Shares \cup {NoShare}, number : Numbers,
        option : Options \cup {NoOption}, data : Config]
NoJob == [op |-> "none", pc |-> "idle", share |-> NoShare, number |-> 0,
          option |-> NoOption, data |-> {}]

TypeOK ==
  /\ rows \in [Numbers -> Nat]
  /\ json \in Config /\ conf \in Config /\ served \in Config
  /\ torn \subseteq {"json", "conf"}
  /\ files \in [Numbers -> SUBSET (Shares \cup {Late})]
  /\ mounted \in BOOLEAN
  /\ made \subseteq Shares
  /\ rebooting \in BOOLEAN
  /\ job \in [Handlers -> Job]

Init ==
  /\ rows = [n \in Numbers |-> 0]
  /\ json = {} /\ conf = {} /\ served = {}
  /\ torn = {}
  /\ files = [n \in Numbers |-> {}]
  /\ mounted = TRUE
  /\ made = {}
  /\ rebooting = FALSE
  /\ job = [h \in Handlers |-> NoJob]

-----------------------------------------------------------------------------
(* The order of the steps.  setnosf (drop) writes the two files the other  *)
(* way round.                                                              *)
Order == [row |-> "load", load |-> "open", open |-> "write", write |-> "render",
          render |-> "openconf", openconf |-> "writeconf",
          lookup |-> "erase", erase |-> "unrow", unrow |-> "restart",
          unrows |-> "format"]
DropOrder_unrendered == [disable |-> "load", load |-> "open", open |-> "write",    \* mutant
                         write |-> "timer"]
DropOrder == [disable |-> "load", load |-> "openconf", openconf |-> "writeconf",
              writeconf |-> "open", open |-> "write", write |-> "timer"]
After(j) ==
  IF j.op = "drop" THEN DropOrder[j.pc]
  ELSE IF j.pc # "writeconf" THEN Order[j.pc]
  ELSE IF j.op = "remove" THEN "lookup" ELSE "restart"

Advance(h) == job' = [job EXCEPT ![h].pc = After(job[h])]
Take(h, d) == job' = [job EXCEPT ![h].pc = After(job[h]), ![h].data = d]
End(h)     == job' = [job EXCEPT ![h] = NoJob]   \* an answer, or the exception of status 500

(* The number of a new share: the first without a row, or the last of all. *)
Free_first == 0                                               \* mutant
Free_past ==                                                  \* mutant
  IF \A n \in Numbers : rows[n] > 0 THEN LastNumber + 1
  ELSE CHOOSE n \in Numbers : rows[n] = 0 /\ \A m \in 0 .. n - 1 : rows[m] > 0
Free ==
  IF \A n \in Numbers : rows[n] > 0 THEN LastNumber
  ELSE CHOOSE n \in Numbers : rows[n] = 0 /\ \A m \in 0 .. n - 1 : rows[m] > 0

(* What each request makes of the content of samba.json. *)
addsf(c, j) ==
  c \cup {[share |-> j.share, number |-> j.number, option |-> j.option]}
editsf_others(c, j) ==                                        \* mutant
  {[e EXCEPT !.option = j.option] : e \in c}
editsf(c, j) ==
  {IF e.number = j.number THEN [e EXCEPT !.option = j.option] ELSE e : e \in c}
delsf(c, j) == {e \in c : e.number # j.number}
editconf(c, j) == c
setnosf_keeping(c) == c                                       \* mutant
setnosf(c) == {}

Changed(c, j) ==
  IF j.op = "add" THEN addsf(c, j)
  ELSE IF j.op = "edit" THEN editsf(c, j)
  ELSE IF j.op = "remove" THEN delsf(c, j)
  ELSE IF j.op = "global" THEN editconf(c, j)
  ELSE setnosf(c)

(* What smbd makes of smb.conf: an empty file shares nothing. *)
Loaded == IF "conf" \in torn THEN {} ELSE conf

-----------------------------------------------------------------------------
(* Requests arrive. *)
Start(h, o, p, s, n, v) ==
  /\ job[h].pc = "idle"
  /\ job' = [job EXCEPT ![h] = [op |-> o, pc |-> p, share |-> s, number |-> n,
                                option |-> v, data |-> {}]]
  /\ UNCHANGED <<rows, json, conf, torn, served, files, mounted, rebooting>>

setsharefolder(h) ==
  \E s \in Shares \ made, v \in Options :
    Start(h, "add", "row", s, Free, v) /\ made' = made \cup {s}

editsharefolder(h) ==
  \E n \in Numbers, v \in Options : Start(h, "edit", "load", NoShare, n, v) /\ UNCHANGED made

delsharefolder(h) ==
  \E n \in Numbers : Start(h, "remove", "load", NoShare, n, NoOption) /\ UNCHANGED made

winviewedit(h) ==
  Start(h, "global", "load", NoShare, 0, NoOption) /\ UNCHANGED made

delraid(h) == Start(h, "drop", "disable", NoShare, 0, NoOption) /\ UNCHANGED made

createraid(h) ==
  /\ ~mounted
  /\ Start(h, "make", "unrows", NoShare, 0, NoOption)
  /\ UNCHANGED made

-----------------------------------------------------------------------------
(* The steps of a request that changes shares. *)
SaveRow(h) ==
  /\ job[h].pc = "row"
  /\ rows' = [rows EXCEPT ![job[h].number] = @ + 1]
  /\ Advance(h)
  /\ UNCHANGED <<json, conf, torn, served, files, mounted, made, rebooting>>

(* A truncated samba.json cannot be evaluated: the request ends here. *)
LoadFails(h) ==
  /\ job[h].pc \in {"load", "render"}
  /\ "json" \in torn
  /\ End(h)
  /\ UNCHANGED <<rows, json, conf, torn, served, files, mounted, made, rebooting>>

Load(h) ==
  /\ job[h].pc = "load"
  /\ "json" \notin torn
  /\ Take(h, Changed(json, job[h]))
  /\ UNCHANGED <<rows, json, conf, torn, served, files, mounted, made, rebooting>>

OpenJson(h) ==
  /\ job[h].pc = "open"
  /\ torn' = torn \cup {"json"}
  /\ Advance(h)
  /\ UNCHANGED <<rows, json, conf, served, files, mounted, made, rebooting>>

WriteJson(h) ==
  /\ job[h].pc = "write"
  /\ json' = job[h].data
  /\ torn' = torn \ {"json"}
  /\ Advance(h)
  /\ UNCHANGED <<rows, conf, served, files, mounted, made, rebooting>>

makeconf(h) ==
  /\ job[h].pc = "render"
  /\ "json" \notin torn
  /\ Take(h, json)
  /\ UNCHANGED <<rows, json, conf, torn, served, files, mounted, made, rebooting>>

OpenConf(h) ==
  /\ job[h].pc = "openconf"
  /\ torn' = torn \cup {"conf"}
  /\ Advance(h)
  /\ UNCHANGED <<rows, json, conf, served, files, mounted, made, rebooting>>

WriteConf(h) ==
  /\ job[h].pc = "writeconf"
  /\ conf' = job[h].data
  /\ torn' = torn \ {"conf"}
  /\ Advance(h)
  /\ UNCHANGED <<rows, json, served, files, mounted, made, rebooting>>

(* smbd is restarted and the request is answered with success. *)
RestartSmbd(h) ==
  /\ job[h].pc = "restart"
  /\ served' = Loaded
  /\ End(h)
  /\ UNCHANGED <<rows, json, conf, torn, files, mounted, made, rebooting>>

(* delsharefolder looks for the row after samba.json has changed. *)
Lookup(h) ==
  /\ job[h].pc = "lookup"
  /\ IF rows[job[h].number] > 0 THEN Advance(h) ELSE End(h)
  /\ UNCHANGED <<rows, json, conf, torn, served, files, mounted, made, rebooting>>

Erased_not(n) == files                                        \* mutant
Erased(n) == IF mounted THEN [files EXCEPT ![n] = {}] ELSE files

Erase(h) ==
  /\ job[h].pc = "erase"
  /\ files' = Erased(job[h].number)
  /\ Advance(h)
  /\ UNCHANGED <<rows, json, conf, torn, served, mounted, made, rebooting>>

DeleteRow(h) ==
  /\ job[h].pc = "unrow"
  /\ rows' = [rows EXCEPT ![job[h].number] = IF @ > 0 THEN @ - 1 ELSE 0]
  /\ Advance(h)
  /\ UNCHANGED <<json, conf, torn, served, files, mounted, made, rebooting>>

-----------------------------------------------------------------------------
(* The volume.  The command that disables it fails while it is in use. *)
DisablePool(h) ==
  /\ job[h].pc = "disable"
  /\ mounted' \in {mounted, FALSE}
  /\ Advance(h)
  /\ UNCHANGED <<rows, json, conf, torn, served, files, made, rebooting>>

(* delraid is answered with success: the reboot will come in five seconds. *)
OrderReboot(h) ==
  /\ job[h].pc = "timer"
  /\ rebooting' = TRUE
  /\ End(h)
  /\ UNCHANGED <<rows, json, conf, torn, served, files, mounted, made>>

DeleteRows(h) ==
  /\ job[h].pc = "unrows"
  /\ rows' = [n \in Numbers |-> 0]
  /\ Advance(h)
  /\ UNCHANGED <<json, conf, torn, served, files, mounted, made, rebooting>>

(* The disks are unfit, or they become the new volume with empty folders. *)
Format(h) ==
  /\ job[h].pc = "format"
  /\ \/ UNCHANGED <<files, mounted>>
     \/ mounted' = TRUE /\ files' = [n \in Numbers |-> {}]
  /\ End(h)
  /\ UNCHANGED <<rows, json, conf, torn, served, made, rebooting>>

-----------------------------------------------------------------------------
(* The surroundings: clients write files, smbd reads its file again for a  *)
(* new client, the web server or the whole machine is restarted.           *)
ClientWrites ==
  /\ mounted
  /\ \E e \in served :
       /\ Cardinality(files[e.number]) < MaxFiles
       /\ files' = [files EXCEPT ![e.number] =
                      @ \cup {IF \E f \in json : f.share = e.share THEN e.share ELSE Late}]
  /\ UNCHANGED <<rows, json, conf, torn, served, mounted, made, rebooting, job>>

Reload ==
  /\ served' = Loaded
  /\ UNCHANGED <<rows, json, conf, torn, files, mounted, made, rebooting, job>>

(* Five seconds after delraid, whatever requests are at work. *)
Reboot ==
  /\ rebooting
  /\ rebooting' = FALSE
  /\ job' = [h \in Handlers |-> NoJob]
  /\ served' = Loaded
  /\ UNCHANGED <<rows, json, conf, torn, files, mounted, made>>

(* The timer of delraid is lost with the web server. *)
Crash ==
  /\ rebooting' = FALSE
  /\ job' = [h \in Handlers |-> NoJob]
  /\ served' \in {served, Loaded}
  /\ UNCHANGED <<rows, json, conf, torn, files, mounted, made>>

Step(h) ==
  \/ SaveRow(h) \/ LoadFails(h) \/ Load(h) \/ OpenJson(h) \/ WriteJson(h)
  \/ makeconf(h) \/ OpenConf(h) \/ WriteConf(h) \/ RestartSmbd(h)
  \/ Lookup(h) \/ Erase(h) \/ DeleteRow(h)
  \/ DisablePool(h) \/ OrderReboot(h) \/ DeleteRows(h) \/ Format(h)

Request(h) ==
  \/ setsharefolder(h) \/ editsharefolder(h) \/ delsharefolder(h)
  \/ winviewedit(h) \/ delraid(h) \/ createraid(h)

Next ==
  \/ \E h \in Handlers : Request(h) \/ Step(h)
  \/ ClientWrites \/ Reload \/ Reboot \/ Crash

Spec == Init /\ [][Next]_vars

(* An administrator who makes shares only while there is a volume, and no  *)
(* crash while the volume is taken away, nor the reboot for an earlier     *)
(* time that it was.                                                       *)
SteadyRequest(h) ==
  \/ mounted /\ setsharefolder(h)
  \/ editsharefolder(h) \/ delsharefolder(h)
  \/ winviewedit(h) \/ delraid(h) \/ createraid(h)

SteadyNext ==
  \/ \E h \in Handlers : SteadyRequest(h) \/ Step(h)
  \/ ClientWrites \/ Reload
  \/ (\A h \in Handlers : job[h].op # "drop") /\ (Reboot \/ Crash)

SteadySpec == Init /\ [][SteadyNext]_vars

-----------------------------------------------------------------------------
(* The shares the administrator sees: those of samba.json, which is good   *)
(* for nothing once it was left truncated.                                 *)
Writing == \E h \in Handlers : job[h].pc = "write"
Broken == "json" \in torn /\ ~Writing
Listed == IF Broken THEN {} ELSE json

(* Every listed share has its row: it can be deleted with its folder, and  *)
(* its number is not given to another share.                               *)
EntriesHaveRows == \A e \in Listed : rows[e.number] > 0

(* Two shares have the same folder only under the last number, which is    *)
(* given out again when all numbers are taken.                             *)
NumberIsOwn ==
  \A e, f \in Listed : e.number = f.number /\ e # f => e.number = LastNumber

(* The folder of a share holds no file that was written to another share   *)
(* while that was listed: what is deleted is gone before its number is     *)
(* used again.  What a client writes to a share after its deletion, before *)
(* smbd is restarted, is Late and may show in the next share.              *)
FolderIsOwn ==
  mounted => \A e \in Listed :
    e.number # LastNumber => files[e.number] \subseteq {e.share, Late}

(* A request that is answered after it restarted smbd leaves smbd serving   *)
(* the shares that are listed.  delraid is answered while smbd serves the   *)
(* old ones; after its reboot smbd serves what is listed then, unless the   *)
(* reboot cuts off another request.                                         *)
AnsweredIsServed ==
  [][/\ \A h \in Handlers : RestartSmbd(h) => served' = json
     /\ Reboot /\ (\A h \in Handlers : job[h].pc = "idle") => served' = json]_vars

(* The steps of the requests amount to the changes of an abstract          *)
(* registry, each made at once.                                            *)
Abstract == INSTANCE ShareRegistry WITH shares <- Listed, lost <- Broken
Registry == Abstract!Spec
=============================================================================
