------------------------- MODULE SambaSharesProofs -------------------------
(* What TLAPS proves of SambaShares, for any shares, numbers and options.  *)
EXTENDS SambaShares, WellFoundedInduction, TLAPS

(* Every non-empty set of naturals has a least element. *)
LEMMA MinimalIsLeast ==
  ASSUME NEW R, R = {ss \in Nat \X Nat : ss[1] < ss[2]},
         NEW T \in SUBSET Nat, \E x \in T : \A y \in T : ~ (<<y, x>> \in R)
  PROVE  \E x \in T : \A y \in T : x <= y
<1>1. PICK x \in T : \A y \in T : ~ (<<y, x>> \in R)
  OBVIOUS
<1>2. ASSUME NEW y \in T PROVE x <= y
  <2>1. x \in Nat /\ y \in Nat
    OBVIOUS
  <2>2. y < x => <<y, x>> \in {ss \in Nat \X Nat : ss[1] < ss[2]}
    BY <2>1
  <2>3. ~ (y < x)
    BY <1>1, <2>2
  <2>4. QED
    BY <2>1, <2>3
<1>3. QED
  BY <1>2

LEMMA Least ==
  ASSUME NEW T \in SUBSET Nat, T # {}
  PROVE  \E x \in T : \A y \in T : x <= y
<1>1. IsWellFoundedOn({ss \in Nat \X Nat : ss[1] < ss[2]}, Nat)
  BY NatLessThanWellFounded, Zenon DEF OpToRel
<1>2. \E x \in T : \A y \in T : ~ (<<y, x>> \in {ss \in Nat \X Nat : ss[1] < ss[2]})
  BY <1>1, WFMin, Zenon
<1>3. QED
  BY <1>2, MinimalIsLeast

(* A new share gets a number of its own while there is one. *)
LEMMA FreeIsFree ==
  ASSUME TypeOK
  PROVE  Free \in Numbers /\ (Free = LastNumber \/ rows[Free] = 0)
<1> USE ConstantsAssumption DEF Numbers
<1> DEFINE T == {n \in Numbers : rows[n] = 0}
<1>1. CASE \A n \in Numbers : rows[n] > 0
  BY <1>1 DEF Free
<1>2. CASE ~ \A n \in Numbers : rows[n] > 0
  <2>1. rows \in [Numbers -> Nat]
    BY DEF TypeOK
  <2>2. T # {} /\ T \in SUBSET Nat
    BY <1>2, <2>1
  <2>3. PICK x \in T : \A y \in T : x <= y
    BY <2>2, Least
  <2>4. rows[x] = 0 /\ x \in Numbers /\ \A m \in 0 .. x - 1 : rows[m] > 0
    BY <2>1, <2>3
  <2>5. Free = CHOOSE n \in Numbers : rows[n] = 0 /\ \A m \in 0 .. n - 1 : rows[m] > 0
    BY <1>2 DEF Free
  <2>6. QED
    BY <2>4, <2>5
<1>3. QED
  BY <1>1, <1>2

-----------------------------------------------------------------------------
(* The steps that each kind of request takes, and what it brings along. *)
Flow(j) ==
  /\ j.op = "none" <=> j.pc = "idle"
  /\ j.op = "make" <=> j.pc \in {"unrows", "format"}
  /\ j.pc = "row" => j.op = "add"
  /\ j.pc \in {"disable", "timer"} => j.op = "drop"
  /\ j.op = "drop" =>
       j.pc \in {"disable", "load", "openconf", "writeconf", "open", "write", "timer"}
  /\ j.pc \in {"lookup", "erase", "unrow"} => j.op = "remove"
  /\ j.op = "add" => j.share \in Shares
  /\ j.op \in {"add", "edit"} => j.option \in Options

LEMMA FlowAfter ==
  ASSUME NEW j \in Job, Flow(j), j.pc \notin {"idle", "restart", "timer", "format"},
         NEW d \in Config
  PROVE  /\ After(j) \in Steps
         /\ Flow([j EXCEPT !.pc = After(j)])
         /\ Flow([j EXCEPT !.pc = After(j), !.data = d])
BY DEF Flow, After, Order, DropOrder, Job, Steps, Ops

Shape == TypeOK /\ \A h \in Handlers : Flow(job[h])

(* What a job is after a step: the next one, with or without new content. *)
LEMMA Advanced ==
  ASSUME Shape, NEW h \in Handlers, Advance(h),
         job[h].pc \notin {"idle", "restart", "timer", "format"}
  PROVE  job' \in [Handlers -> Job] /\ \A g \in Handlers : Flow(job'[g])
<1>1. job[h] \in Job /\ Flow(job[h])
  BY DEF Shape, TypeOK
<1>2. {} \in Config
  BY DEF Config
<1>3. After(job[h]) \in Steps /\ Flow([job[h] EXCEPT !.pc = After(job[h])])
  BY <1>1, <1>2, FlowAfter
<1>4. [job[h] EXCEPT !.pc = After(job[h])] \in Job
  BY <1>1, <1>3 DEF Job
<1>5. job' = [job EXCEPT ![h] = [job[h] EXCEPT !.pc = After(job[h])]]
  BY DEF Advance, Shape, TypeOK
<1>6. QED
  BY <1>3, <1>4, <1>5 DEF Shape, TypeOK

LEMMA Taken ==
  ASSUME Shape, NEW h \in Handlers, NEW d \in Config, Take(h, d),
         job[h].pc \notin {"idle", "restart", "timer", "format"}
  PROVE  job' \in [Handlers -> Job] /\ \A g \in Handlers : Flow(job'[g])
<1>1. job[h] \in Job /\ Flow(job[h])
  BY DEF Shape, TypeOK
<1>2. After(job[h]) \in Steps /\ Flow([job[h] EXCEPT !.pc = After(job[h]), !.data = d])
  BY <1>1, FlowAfter
<1>3. [job[h] EXCEPT !.pc = After(job[h]), !.data = d] \in Job
  BY <1>1, <1>2 DEF Job
<1>4. job' = [job EXCEPT ![h] = [job[h] EXCEPT !.pc = After(job[h]), !.data = d]]
  BY DEF Take, Shape, TypeOK
<1>5. QED
  BY <1>2, <1>3, <1>4 DEF Shape, TypeOK

LEMMA NoJobFits == NoJob \in Job /\ Flow(NoJob)
BY ConstantsAssumption DEF NoJob, Job, Flow, Ops, Steps, Numbers, Config

LEMMA Ended ==
  ASSUME Shape, NEW h \in Handlers, End(h)
  PROVE  job' \in [Handlers -> Job] /\ \A g \in Handlers : Flow(job'[g])
BY NoJobFits DEF End, Shape, TypeOK

LEMMA Started ==
  ASSUME Shape, NEW h \in Handlers, Request(h)
  PROVE  Shape'
<1> USE ConstantsAssumption DEF Start, Numbers
<1>0. Free \in Numbers
  BY FreeIsFree DEF Shape
<1> DEFINE Fits(o, p, sh, n, v) ==
      LET j == [op |-> o, pc |-> p, share |-> sh, number |-> n, option |-> v, data |-> {}]
      IN  j \in Job /\ Flow(j)
<1>1. ASSUME NEW o, NEW p, NEW sh, NEW n, NEW v, Start(h, o, p, sh, n, v), Fits(o, p, sh, n, v),
             made' \subseteq Shares
      PROVE  Shape'
  BY <1>1 DEF Shape, TypeOK
<1> HIDE DEF Start
<1>2. CASE setsharefolder(h)
  <2>1. PICK sh \in Shares \ made, v \in Options :
          Start(h, "add", "row", sh, Free, v) /\ made' = made \cup {sh}
    BY <1>2 DEF setsharefolder
  <2>2. Fits("add", "row", sh, Free, v)
    BY <1>0 DEF Job, Flow, Ops, Steps, Config
  <2>3. QED
    BY <1>1, <2>1, <2>2 DEF Shape, TypeOK
<1>3. CASE editsharefolder(h)
  <2>1. PICK n \in Numbers, v \in Options :
          Start(h, "edit", "load", NoShare, n, v) /\ UNCHANGED made
    BY <1>3 DEF editsharefolder
  <2>2. Fits("edit", "load", NoShare, n, v)
    BY DEF Job, Flow, Ops, Steps, Config
  <2>3. QED
    BY <1>1, <2>1, <2>2 DEF Shape, TypeOK
<1>4. CASE delsharefolder(h)
  <2>1. PICK n \in Numbers :
          Start(h, "remove", "load", NoShare, n, NoOption) /\ UNCHANGED made
    BY <1>4 DEF delsharefolder
  <2>2. Fits("remove", "load", NoShare, n, NoOption)
    BY DEF Job, Flow, Ops, Steps, Config
  <2>3. QED
    BY <1>1, <2>1, <2>2 DEF Shape, TypeOK
<1>5. Fits("global", "load", NoShare, 0, NoOption)
  BY DEF Job, Flow, Ops, Steps, Config
<1>6. Fits("drop", "disable", NoShare, 0, NoOption)
  BY DEF Job, Flow, Ops, Steps, Config
<1>7. Fits("make", "unrows", NoShare, 0, NoOption)
  BY DEF Job, Flow, Ops, Steps, Config
<1> HIDE DEF Fits
<1>8. CASE winviewedit(h)
  BY <1>1, <1>5, <1>8 DEF winviewedit, Shape, TypeOK
<1>9. CASE delraid(h)
  BY <1>1, <1>6, <1>9 DEF delraid, Shape, TypeOK
<1>10. CASE createraid(h)
  BY <1>1, <1>7, <1>10 DEF createraid, Shape, TypeOK
<1>11. QED
  BY <1>2, <1>3, <1>4, <1>8, <1>9, <1>10 DEF Request

LEMMA ChangedFits ==
  ASSUME TypeOK, NEW j \in Job, Flow(j)
  PROVE  Changed(json, j) \in Config
<1>1. json \in SUBSET Entry
  BY DEF TypeOK, Config
<1>2. j.number \in Numbers
  BY DEF Job
<1>3. addsf(json, j) \in Config \/ j.op # "add"
  BY <1>1, <1>2 DEF addsf, Config, Entry, Flow
<1>4. editsf(json, j) \in Config \/ j.op # "edit"
  <2>1. CASE j.op = "edit"
    <3>1. \A e \in json : [e EXCEPT !.option = j.option] \in Entry
      BY <1>1, <2>1 DEF Entry, Flow
    <3>2. QED
      BY <1>1, <3>1 DEF editsf, Config
  <2>2. QED
    BY <2>1
<1>5. delsf(json, j) \in Config /\ editconf(json, j) \in Config /\ setnosf(json) \in Config
  BY <1>1 DEF delsf, editconf, setnosf, Config
<1>6. QED
  BY <1>3, <1>4, <1>5 DEF Changed

LEMMA LoadedFits == ASSUME TypeOK PROVE Loaded \in Config
BY DEF Loaded, TypeOK, Config

LEMMA StepShape ==
  ASSUME Shape, NEW h \in Handlers, Step(h)
  PROVE  Shape'
<1>0. job[h] \in Job /\ Flow(job[h]) /\ TypeOK
  BY DEF Shape, TypeOK
<1>1. CASE SaveRow(h)
  <2>1. job' \in [Handlers -> Job] /\ \A g \in Handlers : Flow(job'[g])
    BY <1>1, Advanced DEF SaveRow
  <2>2. job[h].number \in Numbers /\ rows[job[h].number] + 1 \in Nat
    BY <1>0 DEF Job, TypeOK
  <2>3. rows' \in [Numbers -> Nat]
    BY <1>0, <1>1, <2>2 DEF SaveRow, TypeOK
  <2>4. QED
    BY <1>1, <2>1, <2>3 DEF SaveRow, Shape, TypeOK
<1>2. CASE LoadFails(h)
  BY <1>2, Ended DEF LoadFails, Shape, TypeOK
<1>3. CASE Load(h)
  <2>1. job' \in [Handlers -> Job] /\ \A g \in Handlers : Flow(job'[g])
    BY <1>0, <1>3, ChangedFits, Taken DEF Load
  <2>2. QED
    BY <1>3, <2>1 DEF Load, Shape, TypeOK
<1>4. CASE OpenJson(h)
  <2>1. job' \in [Handlers -> Job] /\ \A g \in Handlers : Flow(job'[g])
    BY <1>4, Advanced DEF OpenJson
  <2>2. QED
    BY <1>4, <2>1 DEF OpenJson, Shape, TypeOK
<1>5. CASE WriteJson(h)
  <2>1. job' \in [Handlers -> Job] /\ \A g \in Handlers : Flow(job'[g])
    BY <1>5, Advanced DEF WriteJson
  <2>2. job[h].data \in Config
    BY <1>0 DEF Job
  <2>3. QED
    BY <1>5, <2>1, <2>2 DEF WriteJson, Shape, TypeOK
<1>6. CASE makeconf(h)
  <2>1. job' \in [Handlers -> Job] /\ \A g \in Handlers : Flow(job'[g])
    BY <1>0, <1>6, Taken DEF makeconf, TypeOK
  <2>2. QED
    BY <1>6, <2>1 DEF makeconf, Shape, TypeOK
<1>7. CASE OpenConf(h)
  <2>1. job' \in [Handlers -> Job] /\ \A g \in Handlers : Flow(job'[g])
    BY <1>7, Advanced DEF OpenConf
  <2>2. QED
    BY <1>7, <2>1 DEF OpenConf, Shape, TypeOK
<1>8. CASE WriteConf(h)
  <2>1. job' \in [Handlers -> Job] /\ \A g \in Handlers : Flow(job'[g])
    BY <1>8, Advanced DEF WriteConf
  <2>2. job[h].data \in Config
    BY <1>0 DEF Job
  <2>3. QED
    BY <1>8, <2>1, <2>2 DEF WriteConf, Shape, TypeOK
<1>9. CASE RestartSmbd(h)
  BY <1>0, <1>9, Ended, LoadedFits DEF RestartSmbd, Shape, TypeOK
<1>10. CASE Lookup(h)
  <2>1. job' \in [Handlers -> Job] /\ \A g \in Handlers : Flow(job'[g])
    BY <1>10, Advanced, Ended DEF Lookup
  <2>2. QED
    BY <1>10, <2>1 DEF Lookup, Shape, TypeOK
<1>11. CASE Erase(h)
  <2>1. job' \in [Handlers -> Job] /\ \A g \in Handlers : Flow(job'[g])
    BY <1>11, Advanced DEF Erase
  <2>2. files' \in [Numbers -> SUBSET (Shares \cup {Late})]
    BY <1>0, <1>11 DEF Erase, Erased, TypeOK
  <2>3. QED
    BY <1>11, <2>1, <2>2 DEF Erase, Shape, TypeOK
<1>12. CASE DeleteRow(h)
  <2>1. job' \in [Handlers -> Job] /\ \A g \in Handlers : Flow(job'[g])
    BY <1>12, Advanced DEF DeleteRow
  <2>2. job[h].number \in Numbers /\ rows[job[h].number] \in Nat
    BY <1>0 DEF Job, TypeOK
  <2>3. (IF rows[job[h].number] > 0 THEN rows[job[h].number] - 1 ELSE 0) \in Nat
    BY <2>2
  <2>4. rows' \in [Numbers -> Nat]
    BY <1>0, <1>12, <2>2, <2>3 DEF DeleteRow, TypeOK
  <2>5. QED
    BY <1>12, <2>1, <2>4 DEF DeleteRow, Shape, TypeOK
<1>13. CASE DisablePool(h)
  <2>1. job' \in [Handlers -> Job] /\ \A g \in Handlers : Flow(job'[g])
    BY <1>13, Advanced DEF DisablePool
  <2>2. QED
    BY <1>13, <2>1 DEF DisablePool, Shape, TypeOK
<1>14. CASE OrderReboot(h)
  BY <1>0, <1>14, Ended DEF OrderReboot, Shape, TypeOK
<1>15. CASE DeleteRows(h)
  <2>1. job' \in [Handlers -> Job] /\ \A g \in Handlers : Flow(job'[g])
    BY <1>15, Advanced DEF DeleteRows
  <2>2. QED
    BY <1>15, <2>1 DEF DeleteRows, Shape, TypeOK
<1>16. CASE Format(h)
  <2>1. job' \in [Handlers -> Job] /\ \A g \in Handlers : Flow(job'[g])
    BY <1>16, Ended DEF Format
  <2>2. QED
    BY <1>16, <2>1 DEF Format, Shape, TypeOK
<1>17. QED
  BY <1>1, <1>2, <1>3, <1>4, <1>5, <1>6, <1>7, <1>8, <1>9, <1>10, <1>11, <1>12,
     <1>13, <1>14, <1>15, <1>16 DEF Step, Shape

LEMMA OutsideShape ==
  ASSUME Shape, ClientWrites \/ Reload \/ Reboot \/ Crash
  PROVE  Shape'
<1>1. CASE ClientWrites
  <2>1. PICK e \in served :
          files' = [files EXCEPT ![e.number] =
            @ \cup {IF \E f \in json : f.share = e.share THEN e.share ELSE Late}]
    BY <1>1 DEF ClientWrites
  <2>2. e \in Entry
    BY DEF Shape, TypeOK, Config
  <2>3. files' \in [Numbers -> SUBSET (Shares \cup {Late})]
    BY <2>1, <2>2 DEF Entry, Shape, TypeOK
  <2>4. QED
    BY <1>1, <2>3 DEF ClientWrites, Shape, TypeOK
<1>2. CASE Reload
  BY <1>2, LoadedFits DEF Reload, Shape, TypeOK
<1>3. CASE Reboot \/ Crash
  BY <1>3, LoadedFits, NoJobFits DEF Reboot, Crash, Shape, TypeOK
<1>4. QED
  BY <1>1, <1>2, <1>3

LEMMA ShapeKept == Shape /\ [Next]_vars => Shape'
<1> SUFFICES ASSUME Shape, [Next]_vars PROVE Shape'
  OBVIOUS
<1>1. CASE UNCHANGED vars
  BY <1>1 DEF vars, Shape, TypeOK
<1>2. QED
  BY <1>1, Started, StepShape, OutsideShape DEF Next

LEMMA ShapeFirst == Init => Shape
<1> SUFFICES ASSUME Init PROVE Shape
  OBVIOUS
<1>1. job \in [Handlers -> Job] /\ \A h \in Handlers : Flow(job[h])
  BY NoJobFits DEF Init
<1>2. /\ rows \in [Numbers -> Nat] /\ files \in [Numbers -> SUBSET (Shares \cup {Late})]
      /\ torn \subseteq {"json", "conf"} /\ made \subseteq Shares
      /\ mounted \in BOOLEAN /\ rebooting \in BOOLEAN
  BY DEF Init
<1>3. json \in Config /\ conf \in Config /\ served \in Config
  BY DEF Init, Config
<1>4. QED
  BY <1>1, <1>2, <1>3 DEF Shape, TypeOK

\* The state keeps its shape for any handlers, shares and numbers, and a request
\* at work brings along what its step needs (sambactl.py, views.py: every
\* function that assigns).
THEOREM TypeCorrect == Spec => []TypeOK
<1>1. Shape => TypeOK
  BY DEF Shape
<1>2. QED
  BY ShapeFirst, ShapeKept, <1>1, PTL DEF Spec

-----------------------------------------------------------------------------
(* One request at a time: the handler h is the only one.  The invariant    *)
(* says what is known of samba.json and the rows between the steps.        *)
Good(h) == "json" \notin torn \/ job[h].pc = "write"
Holding(j) ==
  \/ j.pc \in {"open", "write"}
  \/ j.op = "drop" /\ j.pc \in {"openconf", "writeconf"}
Adding(j) == j.op = "add" /\ j.pc \in {"row", "load", "open", "write"}
Gone(j) ==
  \/ j.pc \in {"lookup", "erase", "unrow"}
  \/ j.op = "remove" /\ j.pc \in {"render", "openconf", "writeconf"}
Kept(c) == \A e \in c : rows[e.number] > 0
Own(c) == \A e, f \in c : e.number = f.number /\ e # f => e.number = LastNumber
Reads(j) == j.pc \notin {"idle", "row", "load", "write", "disable", "unrows", "format"}

(* What is known of a job at work. *)
JobSound(j) ==
  /\ Reads(j) => "json" \notin torn
  /\ Holding(j) => j.data = Changed(json, j)
  /\ j.op = "add" => mounted
  /\ j.op = "make" => ~mounted
  /\ Adding(j) /\ j.pc # "row" => rows[j.number] > 0
  /\ Gone(j) => \A e \in json : e.number # j.number

(* What is known of samba.json as long as it can be read. *)
JsonSound(j) ==
  /\ Adding(j) => \A e \in json : e.number = j.number => e.number = LastNumber
  /\ Kept(json)
  /\ Own(json)
  /\ ~mounted /\ (j.op # "drop" \/ j.pc = "timer") => json = {}

Sound(h) == Shape /\ JobSound(job[h]) /\ (Good(h) => JsonSound(job[h]))

LEMMA NextStep ==
  ASSUME NEW j \in Job, Flow(j)
  PROVE  /\ j.pc = "row" => After(j) = "load"
         /\ j.pc = "load" => After(j) = IF j.op = "drop" THEN "openconf" ELSE "open"
         /\ j.pc = "open" => After(j) = "write"
         /\ j.pc = "write" => After(j) = IF j.op = "drop" THEN "timer" ELSE "render"
         /\ j.pc = "render" => After(j) = "openconf"
         /\ j.pc = "openconf" => After(j) = "writeconf"
         /\ j.pc = "writeconf" => After(j) = IF j.op = "drop" THEN "open"
                                  ELSE IF j.op = "remove" THEN "lookup" ELSE "restart"
         /\ j.pc = "lookup" => After(j) = "erase"
         /\ j.pc = "erase" => After(j) = "unrow"
         /\ j.pc = "unrow" => After(j) = "restart"
         /\ j.pc = "disable" => After(j) = "load"
         /\ j.pc = "unrows" => After(j) = "format"
BY DEF After, Order, DropOrder, Flow

LEMMA AdvancedJob ==
  ASSUME Shape, NEW h \in Handlers, Advance(h)
  PROVE  job'[h] = [job[h] EXCEPT !.pc = After(job[h])]
BY DEF Advance, Shape, TypeOK

LEMMA TakenJob ==
  ASSUME Shape, NEW h \in Handlers, NEW d, Take(h, d)
  PROVE  job'[h] = [job[h] EXCEPT !.pc = After(job[h]), !.data = d]
BY DEF Take, Shape, TypeOK

(* A change depends on the request only, not on the step it is at. *)
SameRequest(k, j) ==
  k.op = j.op /\ k.share = j.share /\ k.number = j.number /\ k.option = j.option

LEMMA ChangedFixed ==
  ASSUME NEW j, NEW k, SameRequest(k, j), NEW c
  PROVE  Changed(c, k) = Changed(c, j)
BY DEF SameRequest, Changed, addsf, editsf, delsf, editconf

(* What a request makes of a sound samba.json is sound again. *)
LEMMA ChangedSound ==
  ASSUME NEW h \in Handlers, Sound(h), Good(h), job[h].pc = "write"
  PROVE  LET c == Changed(json, job[h]) IN
         /\ Kept(c)
         /\ Own(c)
         /\ job[h].op = "remove" => \A e \in c : e.number # job[h].number
         /\ ~mounted => c = {}
<1> DEFINE j == job[h]
<1>0. /\ j \in Job /\ Flow(j) /\ json \in SUBSET Entry
      /\ Kept(json) /\ Own(json)
      /\ ~mounted /\ j.op # "drop" => json = {}
      /\ j.op = "add" => mounted
  BY DEF Sound, JobSound, JsonSound, Shape, TypeOK, Config
<1>1. CASE j.op = "add"
  <2>1. Changed(json, j) = addsf(json, j)
    BY <1>1 DEF Changed
  <2>2. rows[j.number] > 0 /\ \A e \in json : e.number = j.number => e.number = LastNumber
    BY <1>1 DEF Sound, JobSound, JsonSound, Adding
  <2>3. QED
    BY <1>0, <1>1, <2>1, <2>2 DEF addsf, Kept, Own
<1>2. CASE j.op = "edit"
  <2>1. Changed(json, j) = editsf(json, j)
    BY <1>2 DEF Changed
  <2>2. \A e \in json : [e EXCEPT !.option = j.option].number = e.number
    BY <1>0 DEF Entry
  <2>3. \A g \in editsf(json, j) : \E e \in json :
          g.number = e.number /\ g = IF e.number = j.number THEN [e EXCEPT !.option = j.option] ELSE e
    BY <2>2 DEF editsf
  <2>4. Kept(editsf(json, j))
    BY <1>0, <2>3 DEF Kept
  <2>5. Own(editsf(json, j))
    BY <1>0, <2>3 DEF Own
  <2>6. json = {} => editsf(json, j) = {}
    BY DEF editsf
  <2>7. QED
    BY <1>0, <1>2, <2>1, <2>4, <2>5, <2>6
<1>3. CASE j.op = "remove"
  BY <1>0, <1>3 DEF Changed, delsf, Kept, Own
<1>4. CASE j.op = "global"
  BY <1>0, <1>4 DEF Changed, editconf
<1>5. CASE j.op \notin {"add", "edit", "remove", "global"}
  BY <1>0, <1>5 DEF Changed, setnosf, Kept, Own
<1>6. QED
  BY <1>1, <1>2, <1>3, <1>4, <1>5

LEMMA StepSound ==
  ASSUME NEW h \in Handlers, Sound(h), Step(h)
  PROVE  Sound(h)'
<1> DEFINE j == job[h]
<1> USE DEF Reads, Holding, Adding, Gone, Kept, Own
<1>0. /\ Shape /\ Shape' /\ j \in Job /\ Flow(j) /\ TypeOK /\ TypeOK'
      /\ JobSound(j) /\ (Good(h) => JsonSound(j))
  BY StepShape DEF Sound, Shape, TypeOK
<1>a. SUFFICES JobSound(job[h])' /\ (Good(h)' => JsonSound(job[h])')
  BY <1>0 DEF Sound
<1>1. CASE SaveRow(h)
  <2>1. j.pc = "row" /\ j.op = "add" /\ job'[h] = [j EXCEPT !.pc = "load"]
    BY <1>0, <1>1, AdvancedJob, NextStep DEF SaveRow, Flow
  <2>2. rows[j.number] \in Nat /\ j.number \in Numbers
    BY <1>0 DEF TypeOK, Job
  <2>3. rows'[j.number] > 0 /\ \A n \in Numbers : rows[n] > 0 => rows'[n] > 0
    BY <1>0, <1>1, <2>2 DEF SaveRow, TypeOK
  <2>4. \A e \in json : e.number \in Numbers
    BY <1>0 DEF TypeOK, Config, Entry
  <2>5. UNCHANGED <<json, torn, mounted>>
    BY <1>1 DEF SaveRow
  <2>6. QED
    BY <1>0, <2>1, <2>3, <2>4, <2>5 DEF JobSound, JsonSound, Good, Job
<1>2. CASE LoadFails(h)
  <2>1. job'[h] = NoJob /\ "json" \in torn'
    BY <1>0, <1>2 DEF LoadFails, End, TypeOK
  <2>2. QED
    BY <2>1 DEF JobSound, Good, NoJob
<1>3. CASE Load(h)
  <2>taken. j.pc = "load" /\ Good(h) /\ Take(h, Changed(json, j))
    BY <1>3 DEF Load, Good
  <2>job. job'[h] = [j EXCEPT !.pc = After(j), !.data = Changed(json, j)]
    BY <1>0, <2>taken, TakenJob
  <2>same. SameRequest(job'[h], j)
    BY <1>0, <2>job DEF SameRequest, Job
  <2>1. /\ job'[h].pc = IF j.op = "drop" THEN "openconf" ELSE "open"
        /\ job'[h].data = Changed(json, j)
    BY <1>0, <2>taken, <2>job, NextStep DEF Job
  <2>2. Changed(json, job'[h]) = Changed(json, j)
    BY <2>same, ChangedFixed
  <2>3. UNCHANGED <<rows, json, torn, mounted>> /\ "json" \notin torn
    BY <1>3 DEF Load
  <2>4. QED
    BY <1>0, <2>same, <2>taken, <2>1, <2>2, <2>3 DEF JobSound, JsonSound, Good, Flow, SameRequest
<1>4. CASE OpenJson(h)
  <2>same. SameRequest(job'[h], j)
    BY <1>0, <1>4, AdvancedJob DEF OpenJson, SameRequest, Job
  <2>1. /\ j.pc = "open" /\ Good(h)
        /\ job'[h] = [j EXCEPT !.pc = "write"]
    BY <1>0, <1>4, AdvancedJob, NextStep DEF OpenJson, Good, JobSound
  <2>2. Changed(json, job'[h]) = Changed(json, j)
    BY <2>same, ChangedFixed
  <2>3. UNCHANGED <<rows, json, mounted>>
    BY <1>4 DEF OpenJson
  <2>4. QED
    BY <1>0, <2>1, <2>2, <2>3 DEF JobSound, JsonSound, Good, Job
<1>5. CASE WriteJson(h)
  <2>1. /\ j.pc = "write" /\ Good(h)
        /\ job'[h] = [j EXCEPT !.pc = IF j.op = "drop" THEN "timer" ELSE "render"]
    BY <1>0, <1>5, AdvancedJob, NextStep DEF WriteJson, Good
  <2>2. json' = Changed(json, j) /\ "json" \notin torn'
    BY <1>0, <1>5 DEF WriteJson, JobSound
  <2>3. UNCHANGED <<rows, mounted>>
    BY <1>5 DEF WriteJson
  <2>4. /\ Kept(json)' /\ Own(json)' /\ (~mounted => json' = {})
        /\ j.op = "remove" => \A e \in json' : e.number # j.number
    <3>1. LET c == Changed(json, j) IN
          /\ Kept(c) /\ Own(c) /\ (~mounted => c = {})
          /\ j.op = "remove" => \A e \in c : e.number # j.number
      BY <2>1, ChangedSound
    <3>2. QED
      BY <2>2, <2>3, <3>1
  <2>5. QED
    BY <1>0, <2>1, <2>2, <2>3, <2>4 DEF JobSound, JsonSound, Good, Job, Flow
<1>6. CASE makeconf(h)
  <2>1. /\ j.pc = "render" /\ Good(h)
        /\ job'[h] = [j EXCEPT !.pc = "openconf", !.data = json]
    BY ZenonT(40), <1>0, <1>6, TakenJob, NextStep DEF makeconf, Good
  <2>2. UNCHANGED <<rows, json, torn, mounted>>
    BY <1>6 DEF makeconf
  <2>3. QED
    BY <1>0, <2>1, <2>2 DEF JobSound, JsonSound, Good, Job, Flow
<1>7. CASE OpenConf(h)
  <2>same. SameRequest(job'[h], j)
    BY <1>0, <1>7, AdvancedJob DEF OpenConf, SameRequest, Job
  <2>1. j.pc = "openconf" /\ job'[h] = [j EXCEPT !.pc = "writeconf"]
    BY <1>0, <1>7, AdvancedJob, NextStep DEF OpenConf
  <2>2. UNCHANGED <<rows, json, mounted>> /\ ("json" \in torn' <=> "json" \in torn)
    BY <1>7 DEF OpenConf
  <2>3. Changed(json, job'[h]) = Changed(json, j)
    BY <2>same, ChangedFixed
  <2>4. QED
    BY <1>0, <2>1, <2>2, <2>3 DEF JobSound, JsonSound, Good, Job
<1>8. CASE WriteConf(h)
  <2>same. SameRequest(job'[h], j)
    BY <1>0, <1>8, AdvancedJob DEF WriteConf, SameRequest, Job
  <2>1. /\ j.pc = "writeconf"
        /\ job'[h] = [j EXCEPT !.pc = IF j.op = "drop" THEN "open"
                                     ELSE IF j.op = "remove" THEN "lookup" ELSE "restart"]
    BY <1>0, <1>8, AdvancedJob, NextStep DEF WriteConf
  <2>2. UNCHANGED <<rows, json, mounted>> /\ ("json" \in torn' <=> "json" \in torn)
    BY <1>8 DEF WriteConf
  <2>3. Changed(json, job'[h]) = Changed(json, j)
    BY <2>same, ChangedFixed
  <2>4. QED
    BY <1>0, <2>1, <2>2, <2>3 DEF JobSound, JsonSound, Good, Job
<1>9. CASE RestartSmbd(h)
  <2>1. j.pc = "restart" /\ Good(h) /\ job'[h] = NoJob
    BY <1>0, <1>9 DEF RestartSmbd, End, TypeOK, Good, JobSound
  <2>2. UNCHANGED <<rows, json, torn, mounted>>
    BY <1>9 DEF RestartSmbd
  <2>3. QED
    BY <1>0, <2>1, <2>2 DEF JobSound, JsonSound, Good, NoJob, Flow
<1>10. CASE Lookup(h)
  <2>1. j.pc = "lookup" /\ Good(h) /\ "json" \notin torn
    BY <1>0, <1>10 DEF Lookup, Good, JobSound
  <2>2. job'[h] = NoJob \/ job'[h] = [j EXCEPT !.pc = "erase"]
    <3>1. CASE Advance(h)
      BY <1>0, <2>1, <3>1, AdvancedJob, NextStep
    <3>2. CASE End(h)
      BY <1>0, <3>2 DEF End, TypeOK
    <3>3. QED
      BY <1>10, <3>1, <3>2 DEF Lookup
  <2>3. UNCHANGED <<rows, json, torn, mounted>>
    BY <1>10 DEF Lookup
  <2>4. QED
    BY <1>0, <2>1, <2>2, <2>3 DEF JobSound, JsonSound, Good, NoJob, Flow, Job
<1>11. CASE Erase(h)
  <2>1. /\ j.pc = "erase" /\ Good(h)
        /\ job'[h] = [j EXCEPT !.pc = "unrow"]
    BY <1>0, <1>11, AdvancedJob, NextStep DEF Erase, Good, JobSound
  <2>2. UNCHANGED <<rows, json, torn, mounted>>
    BY <1>11 DEF Erase
  <2>3. QED
    BY <1>0, <2>1, <2>2 DEF JobSound, JsonSound, Good, Job, Flow
<1>12. CASE DeleteRow(h)
  <2>1. /\ j.pc = "unrow" /\ j.op = "remove" /\ Good(h)
        /\ job'[h] = [j EXCEPT !.pc = "restart"]
    BY <1>0, <1>12, AdvancedJob, NextStep DEF DeleteRow, Good, JobSound, Flow
  <2>2. UNCHANGED <<json, torn, mounted>>
    BY <1>12 DEF DeleteRow
  <2>3. \A e \in json : rows'[e.number] = rows[e.number]
    <3>1. \A e \in json : e.number # j.number /\ e.number \in Numbers
      BY <1>0, <2>1 DEF JobSound, TypeOK, Config, Entry
    <3>2. QED
      BY <1>0, <1>12, <3>1 DEF DeleteRow, TypeOK
  <2>4. QED
    BY <1>0, <2>1, <2>2, <2>3 DEF JobSound, JsonSound, Good, Job
<1>13. CASE DisablePool(h)
  <2>1. /\ j.pc = "disable" /\ j.op = "drop"
        /\ job'[h] = [j EXCEPT !.pc = "load"]
    BY <1>0, <1>13, AdvancedJob, NextStep DEF DisablePool, Flow
  <2>2. UNCHANGED <<rows, json, torn>>
    BY <1>13 DEF DisablePool
  <2>3. QED
    BY <1>0, <2>1, <2>2 DEF JobSound, JsonSound, Good, Job
<1>14. CASE OrderReboot(h)
  <2>1. j.pc = "timer" /\ Good(h) /\ job'[h] = NoJob
    BY <1>0, <1>14 DEF OrderReboot, End, TypeOK, Good, JobSound
  <2>2. UNCHANGED <<rows, json, torn, mounted>>
    BY <1>14 DEF OrderReboot
  <2>3. QED
    BY <1>0, <2>1, <2>2 DEF JobSound, JsonSound, Good, NoJob, Flow
<1>15. CASE DeleteRows(h)
  <2>1. /\ j.pc = "unrows" /\ j.op = "make"
        /\ job'[h] = [j EXCEPT !.pc = "format"]
    BY <1>0, <1>15, AdvancedJob, NextStep DEF DeleteRows, Flow
  <2>2. UNCHANGED <<json, torn, mounted>> /\ ~mounted
    BY <1>0, <2>1, <1>15 DEF DeleteRows, JobSound
  <2>3. Good(h) => json = {}
    BY <1>0, <2>1, <2>2 DEF JsonSound
  <2>4. QED
    BY <1>0, <2>1, <2>2, <2>3 DEF JobSound, JsonSound, Good, Job
<1>16. CASE Format(h)
  <2>1. j.pc = "format" /\ j.op = "make" /\ job'[h] = NoJob
    BY <1>0, <1>16 DEF Format, End, TypeOK, Flow
  <2>2. UNCHANGED <<rows, json, torn>> /\ (mounted => mounted')
    BY <1>16 DEF Format
  <2>3. QED
    BY <1>0, <2>1, <2>2 DEF JobSound, JsonSound, Good, NoJob
<1>17. QED
  BY <1>1, <1>2, <1>3, <1>4, <1>5, <1>6, <1>7, <1>8, <1>9, <1>10, <1>11, <1>12,
     <1>13, <1>14, <1>15, <1>16 DEF Step

LEMMA RequestSound ==
  ASSUME NEW h \in Handlers, Sound(h), SteadyRequest(h)
  PROVE  Sound(h)'
<1> USE DEF Reads, Holding, Adding, Gone, Kept, Own
<1>0. Shape /\ Shape' /\ JobSound(job[h]) /\ (Good(h) => JsonSound(job[h]))
  BY Started DEF Sound, SteadyRequest, Request
<1> DEFINE Begun(o, p, n) ==
      job'[h].op = o /\ job'[h].pc = p /\ job'[h].number = n /\ job[h].pc = "idle"
<1>1. ASSUME NEW o, NEW p, NEW sh, NEW n, NEW v, Start(h, o, p, sh, n, v)
      PROVE  Begun(o, p, n) /\ UNCHANGED <<rows, json, torn, mounted>>
  BY <1>0, <1>1 DEF Start, Shape, TypeOK
<1>2. job[h].pc = "idle" => job[h].op = "none"
  BY <1>0 DEF Shape, Flow
<1>3. CASE mounted /\ setsharefolder(h)
  <2>1. Begun("add", "row", Free) /\ UNCHANGED <<rows, json, torn, mounted>>
    BY <1>1, <1>3 DEF setsharefolder
  <2>2. Good(h) => \A e \in json : e.number = Free => e.number = LastNumber
    BY <1>0, FreeIsFree DEF JsonSound, Shape
  <2>3. QED
    BY <1>0, <1>2, <1>3, <2>1, <2>2 DEF Sound, JobSound, JsonSound, Good
<1>4. CASE editsharefolder(h) \/ delsharefolder(h) \/ winviewedit(h)
  <2>1. PICK o \in {"edit", "remove", "global"}, n \in Numbers \cup {0} :
          Begun(o, "load", n) /\ UNCHANGED <<rows, json, torn, mounted>>
    BY <1>1, <1>4 DEF editsharefolder, delsharefolder, winviewedit
  <2>2. QED
    BY <1>0, <1>2, <2>1 DEF Sound, JobSound, JsonSound, Good
<1>5. CASE delraid(h)
  <2>1. Begun("drop", "disable", 0) /\ UNCHANGED <<rows, json, torn, mounted>>
    BY <1>1, <1>5 DEF delraid
  <2>2. QED
    BY <1>0, <1>2, <2>1 DEF Sound, JobSound, JsonSound, Good
<1>6. CASE createraid(h)
  <2>1. Begun("make", "unrows", 0) /\ UNCHANGED <<rows, json, torn, mounted>> /\ ~mounted
    BY <1>1, <1>6 DEF createraid
  <2>2. QED
    BY <1>0, <1>2, <2>1 DEF Sound, JobSound, JsonSound, Good
<1>7. QED
  BY <1>3, <1>4, <1>5, <1>6 DEF SteadyRequest

LEMMA OutsideSound ==
  ASSUME NEW h \in Handlers, Sound(h),
         ClientWrites \/ Reload \/ (job[h].op # "drop" /\ (Reboot \/ Crash))
  PROVE  Sound(h)'
<1> USE DEF Reads, Holding, Adding, Gone, Kept, Own
<1>0. Shape /\ Shape' /\ JobSound(job[h]) /\ (Good(h) => JsonSound(job[h]))
  BY OutsideShape DEF Sound
<1>1. UNCHANGED <<rows, json, torn, mounted>>
  BY DEF ClientWrites, Reload, Reboot, Crash
<1>2. CASE ClientWrites \/ Reload
  <2>1. UNCHANGED job
    BY <1>2 DEF ClientWrites, Reload
  <2>2. QED
    BY <1>0, <1>1, <2>1 DEF Sound, JobSound, JsonSound, Good, Changed,
       addsf, editsf, delsf, editconf, setnosf
<1>3. CASE job[h].op # "drop" /\ (Reboot \/ Crash)
  <2>1. job'[h] = NoJob
    BY <1>3 DEF Reboot, Crash
  <2>2. Good(h)' => Good(h)
    BY <1>1, <2>1 DEF Good, NoJob
  <2>3. QED
    BY <1>0, <1>1, <1>3, <2>1, <2>2 DEF Sound, JobSound, JsonSound, NoJob
<1>4. QED
  BY <1>2, <1>3

LEMMA SteadyIsNext == [SteadyNext]_vars => [Next]_vars
BY DEF SteadyNext, Next, SteadyRequest, Request

LEMMA SoundKept ==
  ASSUME NEW h, Handlers = {h}
  PROVE  Sound(h) /\ [SteadyNext]_vars => Sound(h)'
<1> SUFFICES ASSUME Sound(h), [SteadyNext]_vars PROVE Sound(h)'
  OBVIOUS
<1>1. CASE UNCHANGED vars
  <2>1. UNCHANGED <<rows, json, torn, mounted, job>> /\ Shape'
    BY <1>1, ShapeKept DEF Sound, vars
  <2>2. QED
    BY <2>1 DEF Sound, JobSound, JsonSound, Good, Changed, Kept, Own,
       addsf, editsf, delsf, editconf, setnosf
<1>2. CASE SteadyNext
  <2>1. CASE \E g \in Handlers : SteadyRequest(g) \/ Step(g)
    BY <2>1, RequestSound, StepSound
  <2>2. CASE ClientWrites \/ Reload \/ ((\A g \in Handlers : job[g].op # "drop") /\ (Reboot \/ Crash))
    <3>1. h \in Handlers
      OBVIOUS
    <3>2. ClientWrites \/ Reload \/ (job[h].op # "drop" /\ (Reboot \/ Crash))
      BY <2>2, <3>1, Zenon
    <3>3. QED
      BY <3>1, <3>2, OutsideSound
  <2>3. QED
    BY <1>2, <2>1, <2>2 DEF SteadyNext
<1>3. QED
  BY <1>1, <1>2

LEMMA SoundFirst ==
  ASSUME NEW h, Handlers = {h}
  PROVE  Init => Sound(h)
<1> SUFFICES ASSUME Init PROVE Sound(h)
  OBVIOUS
<1>1. Shape /\ job[h] = NoJob /\ json = {}
  BY ShapeFirst DEF Init
<1>2. QED
  BY <1>1 DEF Sound, JobSound, JsonSound, NoJob, Reads, Holding, Adding, Gone, Kept, Own

\* With one request at a time every listed share has its row, for any numbers and
\* shares, whenever the process dies: views.py:2915 saves the row before addsf,
\* views.py:2949 runs delsf before the row is deleted.
THEOREM EntriesAreKept ==
  ASSUME NEW h, Handlers = {h}
  PROVE  SteadySpec => []EntriesHaveRows
<1>1. Sound(h) => EntriesHaveRows
  BY DEF Sound, JsonSound, Good, EntriesHaveRows, Listed, Broken, Writing, Kept
<1>2. QED
  BY SoundFirst, SoundKept, <1>1, PTL DEF SteadySpec

\* With one request at a time two listed shares have one number only when it is the
\* last one (views.py:2898-2906).
THEOREM NumbersAreOwn ==
  ASSUME NEW h, Handlers = {h}
  PROVE  SteadySpec => []NumberIsOwn
<1>1. Sound(h) => NumberIsOwn
  BY DEF Sound, JsonSound, Good, NumberIsOwn, Listed, Broken, Writing, Own
<1>2. QED
  BY SoundFirst, SoundKept, <1>1, PTL DEF SteadySpec

-----------------------------------------------------------------------------
(* Whose files a folder holds.  A share keeps its number in whatever the   *)
(* machine remembers of it, so a file is written to the folder of the      *)
(* share it is meant for, or to a folder that is nobody's any more.        *)
Known(j) == json \cup conf \cup served \cup j.data

Tracked(j) ==
  /\ \A e \in Known(j) : e.share \in made
  /\ \A e, f \in Known(j) : e.share = f.share => e.number = f.number
  /\ j.op = "add" => /\ j.share \in made
                     /\ \A e \in Known(j) : e.share = j.share => e.number = j.number

Traced(e, j) ==
  \/ \E f \in Known(j) : f.share = e.share /\ f.number = e.number
  \/ j.op = "add" /\ e.share = j.share /\ e.number = j.number

LEMMA TrackedOn ==
  ASSUME NEW h \in Handlers, Tracked(job[h]), made \subseteq made',
         job'[h].op = "add" => SameRequest(job'[h], job[h]),
         \A e \in Known(job[h])' : Traced(e, job[h])
  PROVE  Tracked(job[h])'
<1> DEFINE j == job[h]
           K == Known(job[h])'
<1> HIDE DEF K
<1>1. \A e \in K : e.share \in made'
  BY DEF K, Tracked, Traced
<1>2. \A e, f \in K : e.share = f.share => e.number = f.number
  <2>1. ASSUME NEW e \in K, NEW f \in K, e.share = f.share PROVE e.number = f.number
    <3>1. Traced(e, j) /\ Traced(f, j)
      BY DEF K
    <3>2. QED
      BY <2>1, <3>1 DEF Traced, Tracked
  <2>2. QED
    BY <2>1
<1>3. ASSUME job'[h].op = "add"
      PROVE  job'[h].share \in made' /\ \A e \in K : e.share = job'[h].share => e.number = job'[h].number
  <2>1. j.op = "add" /\ job'[h].share = j.share /\ job'[h].number = j.number
    BY <1>3 DEF SameRequest
  <2>2. \A e \in K : Traced(e, j)
    BY DEF K
  <2>3. QED
    BY <2>1, <2>2 DEF Traced, Tracked
<1>4. QED
  BY <1>1, <1>2, <1>3 DEF K, Tracked

(* A step that brings nothing to what is known. *)
LEMMA TrackedSame ==
  ASSUME NEW h \in Handlers, Tracked(job[h]), made \subseteq made',
         job'[h].op = "add" => SameRequest(job'[h], job[h]),
         Known(job[h])' \subseteq Known(job[h])
  PROVE  Tracked(job[h])'
<1>1. \A e \in Known(job[h])' : Traced(e, job[h])
  BY DEF Traced
<1>2. QED
  BY <1>1, TrackedOn

(* A change keeps the share and the number of every entry but a new one. *)
LEMMA ChangedFrom ==
  ASSUME Shape, NEW h \in Handlers, NEW e \in Changed(json, job[h])
  PROVE  \/ \E f \in json : f.share = e.share /\ f.number = e.number
         \/ job[h].op = "add" /\ e.share = job[h].share /\ e.number = job[h].number
<1> DEFINE j == job[h]
<1>1. json \in SUBSET Entry
  BY DEF Shape, TypeOK, Config
<1>2. CASE j.op = "add"
  BY <1>1, <1>2 DEF Changed, addsf
<1>3. CASE j.op = "edit"
  <2>1. PICK f \in json : e = IF f.number = j.number THEN [f EXCEPT !.option = j.option] ELSE f
    BY <1>3 DEF Changed, editsf
  <2>2. e.share = f.share /\ e.number = f.number
    BY <1>1, <2>1 DEF Entry
  <2>3. QED
    BY <2>1, <2>2
<1>4. CASE j.op \notin {"add", "edit"}
  BY <1>1, <1>4 DEF Changed, delsf, editconf, setnosf
<1>5. QED
  BY <1>2, <1>3, <1>4

(* A job goes on with what it has. *)
LEMMA AdvancedSame ==
  ASSUME Shape, NEW h \in Handlers, Advance(h)
  PROVE  SameRequest(job'[h], job[h]) /\ job'[h].data = job[h].data
BY ZenonT(40), AdvancedJob DEF SameRequest, Shape, TypeOK, Job

LEMMA TakenSame ==
  ASSUME Shape, NEW h \in Handlers, NEW d, Take(h, d)
  PROVE  SameRequest(job'[h], job[h]) /\ job'[h].data = d
<1>1. job[h] \in Job /\ job'[h] = [job[h] EXCEPT !.pc = After(job[h]), !.data = d]
  BY TakenJob DEF Shape, TypeOK
<1>2. QED
  BY <1>1 DEF SameRequest, Job

LEMMA StepTracked ==
  ASSUME NEW h \in Handlers, Shape, Tracked(job[h]), Step(h)
  PROVE  Tracked(job[h])'
<1> DEFINE j == job[h]
<1>0. Loaded \subseteq conf
  BY DEF Loaded
<1>1. CASE SaveRow(h) \/ OpenJson(h) \/ WriteJson(h) \/ OpenConf(h) \/ WriteConf(h) \/ Erase(h)
           \/ DeleteRow(h) \/ DisablePool(h) \/ DeleteRows(h)
  <2>1. Advance(h) /\ UNCHANGED <<served, made>>
        /\ json' \in {json, j.data} /\ conf' \in {conf, j.data}
    BY <1>1 DEF SaveRow, OpenJson, WriteJson, OpenConf, WriteConf, Erase, DeleteRow,
       DisablePool, DeleteRows
  <2>2. SameRequest(job'[h], j) /\ Known(job[h])' \subseteq Known(j)
    BY <2>1, AdvancedSame DEF Known
  <2>3. QED
    BY <2>1, <2>2, TrackedSame
<1>2. CASE LoadFails(h) \/ RestartSmbd(h) \/ Format(h) \/ OrderReboot(h)
  <2>1. job'[h] = NoJob /\ UNCHANGED <<json, conf, made>> /\ served' \in {served, Loaded}
    BY <1>2 DEF LoadFails, RestartSmbd, Format, OrderReboot, End, Shape, TypeOK
  <2>2. job'[h].op # "add" /\ Known(job[h])' \subseteq Known(j)
    BY <1>0, <2>1 DEF Known, NoJob
  <2>3. QED
    BY <2>1, <2>2, TrackedSame
<1>3. CASE Lookup(h)
  <2>1. UNCHANGED <<json, conf, served, made>> /\ (Advance(h) \/ job'[h] = NoJob)
    BY <1>3 DEF Lookup, End, Shape, TypeOK
  <2>2. CASE Advance(h)
    <3>1. SameRequest(job'[h], j) /\ Known(job[h])' \subseteq Known(j)
      BY <2>1, <2>2, AdvancedSame DEF Known
    <3>2. QED
      BY <2>1, <3>1, TrackedSame
  <2>3. CASE job'[h] = NoJob
    <3>1. job'[h].op # "add" /\ Known(job[h])' \subseteq Known(j)
      BY <2>1, <2>3 DEF Known, NoJob
    <3>2. QED
      BY <2>1, <3>1, TrackedSame
  <2>4. QED
    BY <2>1, <2>2, <2>3
<1>4. CASE Load(h)
  <2>1. Take(h, Changed(json, j)) /\ UNCHANGED <<json, conf, served, made>>
    BY <1>4 DEF Load
  <2>2. SameRequest(job'[h], j) /\ job'[h].data = Changed(json, j)
    BY <2>1, TakenSame
  <2>3. \A e \in Known(job[h])' : Traced(e, j)
    BY <2>1, <2>2, ChangedFrom DEF Known, Traced
  <2>4. QED
    BY <2>1, <2>2, <2>3, TrackedOn
<1>5. CASE makeconf(h)
  <2>1. Take(h, json) /\ UNCHANGED <<json, conf, served, made>>
    BY <1>5 DEF makeconf
  <2>2. SameRequest(job'[h], j) /\ job'[h].data = json
    BY <2>1, TakenSame
  <2>3. Known(job[h])' \subseteq Known(j)
    BY <2>1, <2>2 DEF Known
  <2>4. QED
    BY <2>1, <2>2, <2>3, TrackedSame
<1>6. QED
  BY <1>1, <1>2, <1>3, <1>4, <1>5 DEF Step

LEMMA RequestTracked ==
  ASSUME NEW h \in Handlers, Shape, Tracked(job[h]), SteadyRequest(h)
  PROVE  Tracked(job[h])'
<1> DEFINE j == job[h]
<1>1. ASSUME NEW o, NEW p, NEW sh, NEW n, NEW v, Start(h, o, p, sh, n, v)
      PROVE  /\ job'[h].op = o /\ job'[h].share = sh /\ job'[h].number = n /\ job'[h].data = {}
             /\ UNCHANGED <<json, conf, served>>
  BY <1>1 DEF Start, Shape, TypeOK
<1>2. CASE setsharefolder(h)
  <2>1. PICK s \in Shares \ made :
          /\ job'[h].share = s /\ job'[h].data = {}
          /\ UNCHANGED <<json, conf, served>> /\ made' = made \cup {s}
    BY <1>1, <1>2 DEF setsharefolder
  <2>2. Known(job[h])' \subseteq Known(j)
    BY <2>1 DEF Known
  <2>3. \A e \in Known(job[h])' : e.share \in made /\ e.share # s
    BY <2>1, <2>2 DEF Tracked
  <2>4. QED
    BY <2>1, <2>2, <2>3 DEF Tracked
<1>3. CASE \/ editsharefolder(h) \/ delsharefolder(h) \/ winviewedit(h)
           \/ delraid(h) \/ createraid(h)
  <2>1. PICK o, p, sh, n, v : Start(h, o, p, sh, n, v) /\ o # "add"
    BY <1>3 DEF editsharefolder, delsharefolder, winviewedit, delraid, createraid
  <2>2. UNCHANGED made
    BY <1>3 DEF editsharefolder, delsharefolder, winviewedit, delraid, createraid
  <2>3. job'[h].op # "add" /\ Known(job[h])' \subseteq Known(j)
    BY <1>1, <2>1 DEF Known
  <2>4. QED
    BY <2>2, <2>3, TrackedSame
<1>4. QED
  BY <1>2, <1>3 DEF SteadyRequest

LEMMA TrackedKept ==
  ASSUME NEW h, Handlers = {h}
  PROVE  Shape /\ Tracked(job[h]) /\ [SteadyNext]_vars => Tracked(job[h])'
<1> SUFFICES ASSUME Shape, Tracked(job[h]), [SteadyNext]_vars PROVE Tracked(job[h])'
  OBVIOUS
<1>0. h \in Handlers /\ Loaded \subseteq conf
  BY DEF Loaded
<1>1. CASE UNCHANGED vars \/ ClientWrites \/ Reload
  <2>1. UNCHANGED <<json, conf, made, job>> /\ served' \in {served, Loaded}
    BY <1>1 DEF vars, ClientWrites, Reload
  <2>2. SameRequest(job'[h], job[h]) /\ Known(job[h])' \subseteq Known(job[h])
    BY <1>0, <2>1 DEF SameRequest, Known
  <2>3. QED
    BY <1>0, <2>1, <2>2, TrackedSame
<1>2. CASE Reboot \/ Crash
  <2>1. job'[h] = NoJob /\ UNCHANGED <<json, conf, made>> /\ served' \in {served, Loaded}
    BY <1>2 DEF Reboot, Crash
  <2>2. job'[h].op # "add" /\ Known(job[h])' \subseteq Known(job[h])
    BY <1>0, <2>1 DEF Known, NoJob
  <2>3. QED
    BY <1>0, <2>1, <2>2, TrackedSame
<1>3. QED
  BY <1>0, <1>1, <1>2, StepTracked, RequestTracked DEF SteadyNext

(* What is known of the folders while the volume is there. *)
Bare(n) == n # LastNumber => files[n] \cap Shares = {}
Waiting(j) == Adding(j) \/ j.pc = "unrow"
Folders(j) ==
  /\ \A e \in json : e.number # LastNumber => files[e.number] \cap Shares \subseteq {e.share}
  /\ \A n \in Numbers : rows[n] = 0 => Bare(n)
  /\ Waiting(j) => Bare(j.number)
Tidy(h) == Good(h) /\ mounted => Folders(job[h])

(* A step that leaves the folders, the rows and samba.json alone. *)
LEMMA TidyOn ==
  ASSUME NEW h \in Handlers, Tidy(h), UNCHANGED <<json, rows, files>>, mounted' => mounted,
         Good(h)' => Good(h),
         Waiting(job'[h]) => Waiting(job[h]) /\ job'[h].number = job[h].number
  PROVE  Tidy(h)'
<1> SUFFICES ASSUME Good(h)', mounted' PROVE Folders(job[h])'
  BY DEF Tidy
<1>1. Folders(job[h])
  BY DEF Tidy
<1>2. \A n : Bare(n)' <=> Bare(n)
  BY DEF Bare
<1>3. Waiting(job'[h]) => (job'[h].number # LastNumber => files'[job'[h].number] \cap Shares = {})
  BY <1>1 DEF Folders, Bare
<1>4. QED
  BY <1>1, <1>2, <1>3 DEF Folders, Bare, Waiting, Adding

LEMMA WriteTidy ==
  ASSUME NEW h \in Handlers, Sound(h), Tidy(h), WriteJson(h)
  PROVE  Tidy(h)'
<1> DEFINE j == job[h]
<1>0. Shape /\ j \in Job /\ Flow(j) /\ j.pc = "write" /\ json' = Changed(json, j)
  BY DEF Sound, JobSound, Holding, WriteJson, Shape, TypeOK
<1>1. UNCHANGED <<rows, files, mounted>>
  BY DEF WriteJson
<1>2. ~ Waiting(job'[h])
  BY <1>0, AdvancedJob, NextStep DEF WriteJson, Waiting, Adding, Job
<1>3. SUFFICES ASSUME mounted PROVE Folders(job[h])'
  BY <1>1 DEF Tidy
<1>4. Folders(j)
  BY <1>0, <1>3 DEF Tidy, Good
<1>5. j.op = "add" => Bare(j.number)
  BY <1>0, <1>4 DEF Folders, Waiting, Adding
<1>6. \A e \in json' : e.number # LastNumber => files[e.number] \cap Shares \subseteq {e.share}
  <2>1. ASSUME NEW e \in json', e.number # LastNumber
        PROVE  files[e.number] \cap Shares \subseteq {e.share}
    <3>1. \/ \E f \in json : f.share = e.share /\ f.number = e.number
          \/ j.op = "add" /\ e.share = j.share /\ e.number = j.number
      BY <1>0, ChangedFrom
    <3>2. QED
      BY <1>4, <1>5, <2>1, <3>1 DEF Folders, Bare
  <2>2. QED
    BY <2>1
<1>7. QED
  BY <1>1, <1>2, <1>4, <1>6 DEF Folders, Bare, Waiting, Adding

LEMMA StepTidy ==
  ASSUME NEW h \in Handlers, Sound(h), Tidy(h), Step(h)
  PROVE  Tidy(h)'
<1> DEFINE j == job[h]
<1>0. Shape /\ Shape' /\ j \in Job /\ Flow(j) /\ JobSound(j)
  BY StepShape DEF Sound, Shape, TypeOK
<1>1. CASE SaveRow(h)
  <2>1. j.pc = "row" /\ j.op = "add" /\ job'[h] = [j EXCEPT !.pc = "load"]
    BY <1>0, <1>1, AdvancedJob, NextStep DEF SaveRow, Flow
  <2>2. UNCHANGED <<json, torn, files, mounted>>
    BY <1>1 DEF SaveRow
  <2>3. \A n \in Numbers : rows'[n] = 0 => rows[n] = 0
    BY <1>0, <1>1 DEF SaveRow, Shape, TypeOK, Job
  <2>4. Waiting(j) /\ job'[h].number = j.number /\ (Good(h)' => Good(h))
    BY <1>0, <2>1, <2>2 DEF Waiting, Adding, Good, Job
  <2>5. QED
    BY <2>2, <2>3, <2>4 DEF Tidy, Folders, Bare
<1>2. CASE LoadFails(h) \/ RestartSmbd(h) \/ OrderReboot(h)
  <2>1. job'[h] = NoJob /\ UNCHANGED <<json, rows, files, mounted, torn>>
    BY <1>0, <1>2 DEF LoadFails, RestartSmbd, OrderReboot, End, Shape, TypeOK
  <2>2. ~ Waiting(job'[h]) /\ (Good(h)' => Good(h))
    BY <2>1 DEF NoJob, Waiting, Adding, Good
  <2>3. QED
    BY <2>1, <2>2, TidyOn
<1>3. CASE Load(h) \/ makeconf(h)
  <2>1. PICK d : Take(h, d) /\ UNCHANGED <<json, rows, files, mounted, torn>>
    BY <1>3 DEF Load, makeconf
  <2>2. "json" \notin torn /\ j.pc \in {"load", "render"}
    BY <1>3 DEF Load, makeconf
  <2>job. job'[h] = [j EXCEPT !.pc = After(j), !.data = d] /\ SameRequest(job'[h], j)
    BY <1>0, <2>1, TakenJob, TakenSame
  <2>3. job'[h].pc # "unrow" /\ SameRequest(job'[h], j)
    BY <1>0, <2>2, <2>job, NextStep DEF Job
  <2>4. Adding(job'[h]) => Adding(j)
    <3>1. j.pc = "render" => job'[h].pc = "openconf"
      BY <1>0, <2>job, NextStep DEF Job
    <3>2. QED
      BY <2>2, <2>3, <3>1 DEF Adding, SameRequest
  <2>5. QED
    BY <2>1, <2>2, <2>3, <2>4, TidyOn DEF Waiting, Good, SameRequest
<1>4. CASE OpenJson(h)
  <2>1. j.pc = "open" /\ Good(h) /\ job'[h] = [j EXCEPT !.pc = "write"]
    BY <1>0, <1>4, AdvancedJob, NextStep DEF OpenJson, Good, JobSound, Reads
  <2>2. UNCHANGED <<json, rows, files, mounted>>
    BY <1>4 DEF OpenJson
  <2>3. Waiting(job'[h]) => Waiting(j) /\ job'[h].number = j.number
    BY <1>0, <2>1 DEF Waiting, Adding, Job
  <2>4. QED
    BY <2>1, <2>2, <2>3, TidyOn
<1>5. CASE WriteJson(h)
  BY <1>5, WriteTidy
<1>6. CASE OpenConf(h) \/ WriteConf(h)
  <2>1. j.pc \in {"openconf", "writeconf"} /\ Advance(h) /\ UNCHANGED <<json, rows, files, mounted>>
        /\ ("json" \in torn' <=> "json" \in torn)
    BY <1>6 DEF OpenConf, WriteConf
  <2>2. /\ Good(h) /\ job'[h].pc # "unrow" /\ job'[h].op = j.op
        /\ job'[h].pc \in {"open", "write"} => j.op = "drop"
        /\ job'[h].pc \notin {"row", "load"}
    BY ZenonT(40), <1>0, <2>1, AdvancedJob, NextStep
       DEF Good, JobSound, Reads, Job
  <2>3. ~ Waiting(job'[h])
    BY <2>2 DEF Waiting, Adding
  <2>4. QED
    BY <2>1, <2>2, <2>3, TidyOn
<1>7. CASE Lookup(h)
  <2>1. j.pc = "lookup" /\ Good(h) /\ UNCHANGED <<json, rows, files, mounted>>
    BY <1>0, <1>7 DEF Lookup, Good, JobSound, Reads
  <2>2. CASE Advance(h)
    <3>1. job'[h].pc = "erase"
      BY <1>0, <2>1, <2>2, AdvancedJob, NextStep DEF Job
    <3>2. QED
      BY <2>1, <3>1, TidyOn DEF Waiting, Adding
  <2>3. CASE End(h)
    <3>1. job'[h].pc = "idle"
      BY <1>0, <2>3 DEF End, NoJob, Shape, TypeOK
    <3>2. QED
      BY <2>1, <3>1, TidyOn DEF Waiting, Adding
  <2>4. QED
    BY <1>7, <2>2, <2>3 DEF Lookup
<1>8. CASE Erase(h)
  <2>1. j.pc = "erase" /\ Good(h) /\ job'[h] = [j EXCEPT !.pc = "unrow"]
    BY <1>0, <1>8, AdvancedJob, NextStep DEF Erase, Good, JobSound, Reads
  <2>2. UNCHANGED <<json, rows, mounted>> /\ files' = Erased(j.number)
    BY <1>8 DEF Erase
  <2>3. SUFFICES ASSUME mounted PROVE Folders(job[h])'
    BY <2>2 DEF Tidy
  <2>4. \A n \in Numbers : files'[n] = IF n = j.number THEN {} ELSE files[n]
    BY <1>0, <2>2, <2>3 DEF Erased, Shape, TypeOK
  <2>5. job'[h].number = j.number /\ j.number \in Numbers /\ Folders(j)
    BY <1>0, <2>1, <2>3 DEF Job, Tidy
  <2>6. \A e \in json : e.number \in Numbers
    BY <1>0 DEF Shape, TypeOK, Config, Entry
  <2>7. QED
    BY <2>2, <2>4, <2>5, <2>6 DEF Folders, Bare
<1>9. CASE DeleteRow(h)
  <2>1. j.pc = "unrow" /\ Good(h) /\ job'[h].pc = "restart"
    BY <1>0, <1>9, AdvancedJob, NextStep DEF DeleteRow, Good, JobSound, Reads, Job
  <2>2. UNCHANGED <<json, files, mounted>>
    BY <1>9 DEF DeleteRow
  <2>3. \A n \in Numbers : n # j.number => rows'[n] = rows[n]
    BY <1>0, <1>9 DEF DeleteRow, Shape, TypeOK
  <2>4. ~ Waiting(job'[h]) /\ Waiting(j)
    BY <2>1 DEF Waiting, Adding
  <2>5. QED
    BY <2>1, <2>2, <2>3, <2>4 DEF Tidy, Folders, Bare
<1>10. CASE DisablePool(h)
  <2>1. j.pc = "disable" /\ j.op = "drop" /\ job'[h] = [j EXCEPT !.pc = "load"]
    BY <1>0, <1>10, AdvancedJob, NextStep DEF DisablePool, Flow
  <2>2. UNCHANGED <<json, rows, files, torn>> /\ (mounted' => mounted)
    <3>1. mounted' = mounted \/ mounted' = FALSE
      BY <1>10, Zenon DEF DisablePool
    <3>2. QED
      BY <1>10, <3>1 DEF DisablePool
  <2>3. ~ Waiting(job'[h]) /\ (Good(h)' => Good(h))
    BY <1>0, <2>1, <2>2 DEF Waiting, Adding, Good, Job
  <2>4. QED
    BY <2>2, <2>3, TidyOn
<1>11. CASE DeleteRows(h)
  BY <1>0, <1>11 DEF DeleteRows, JobSound, Flow, Tidy
<1>12. CASE Format(h)
  <2>1. ~mounted /\ job'[h].pc = "idle"
    BY <1>0, <1>12 DEF Format, JobSound, Flow, End, NoJob, Shape, TypeOK
  <2>2. CASE UNCHANGED <<files, mounted>>
    BY <2>1, <2>2 DEF Tidy
  <2>3. CASE files' = [n \in Numbers |-> {}]
    <3>1. \A n \in Numbers : files'[n] = {}
      BY <2>3
    <3>2. \A e \in json : e.number \in Numbers
      BY <1>0 DEF Shape, TypeOK, Config, Entry
    <3>3. UNCHANGED json
      BY <1>12 DEF Format
    <3>4. QED
      BY <2>1, <3>1, <3>2, <3>3 DEF Tidy, Folders, Bare, Waiting, Adding
  <2>4. QED
    BY <1>12, <2>2, <2>3 DEF Format
<1>13. QED
  BY <1>1, <1>2, <1>3, <1>4, <1>5, <1>6, <1>7, <1>8, <1>9, <1>10, <1>11, <1>12 DEF Step

LEMMA RequestTidy ==
  ASSUME NEW h \in Handlers, Sound(h), Tidy(h), SteadyRequest(h)
  PROVE  Tidy(h)'
<1>0. Shape
  BY DEF Sound
<1>1. ASSUME NEW o, NEW p, NEW sh, NEW n, NEW v, Start(h, o, p, sh, n, v)
      PROVE  /\ job'[h].op = o /\ job'[h].pc = p /\ job'[h].number = n
             /\ UNCHANGED <<json, rows, files, mounted, torn>> /\ job[h].pc = "idle"
  BY <1>0, <1>1 DEF Start, Shape, TypeOK
<1>2. CASE setsharefolder(h)
  <2>1. /\ job'[h].pc = "row" /\ job'[h].number = Free
        /\ UNCHANGED <<json, rows, files, mounted, torn>> /\ job[h].pc = "idle"
    BY <1>1, <1>2 DEF setsharefolder
  <2>2. Good(h)' => Good(h)
    BY <2>1 DEF Good
  <2>3. Folders(job[h]) => Bare(Free)
    BY <1>0, FreeIsFree DEF Folders, Bare, Shape
  <2>4. QED
    BY <2>1, <2>2, <2>3 DEF Tidy, Folders, Bare
<1>3. CASE \/ editsharefolder(h) \/ delsharefolder(h) \/ winviewedit(h)
           \/ delraid(h) \/ createraid(h)
  <2>1. PICK o, p, sh, n, v : Start(h, o, p, sh, n, v) /\ o # "add"
                              /\ p \in {"load", "disable", "unrows"}
    BY <1>3 DEF editsharefolder, delsharefolder, winviewedit, delraid, createraid
  <2>2. ~ Waiting(job'[h]) /\ (Good(h)' => Good(h))
    BY <1>1, <2>1 DEF Waiting, Adding, Good
  <2>3. QED
    BY <1>1, <2>1, <2>2, TidyOn
<1>4. QED
  BY <1>2, <1>3 DEF SteadyRequest

(* A client writes to a folder for a share that is listed there, or late. *)
LEMMA ClientTidy ==
  ASSUME NEW h \in Handlers, Sound(h), Tracked(job[h]), Tidy(h), ClientWrites
  PROVE  Tidy(h)'
<1> DEFINE j == job[h]
<1>0. /\ Shape /\ JobSound(j) /\ mounted
      /\ UNCHANGED <<rows, json, torn, mounted, job>>
  BY DEF Sound, ClientWrites
<1>1. SUFFICES ASSUME Good(h) PROVE Folders(job[h])'
  BY <1>0 DEF Tidy, Good
<1>2. JsonSound(j) /\ Folders(j)
  BY <1>0, <1>1 DEF Sound, Tidy
<1>3. PICK e \in served :
        files' = [files EXCEPT ![e.number] =
          @ \cup {IF \E f \in json : f.share = e.share THEN e.share ELSE Late}]
  BY DEF ClientWrites
<1>4. /\ e.number \in Numbers /\ \A k \in json : k.number \in Numbers
      /\ j.number \in Numbers /\ files \in [Numbers -> SUBSET (Shares \cup {Late})]
  BY <1>0 DEF Shape, TypeOK, Config, Entry, Job
<1>5. CASE ~ \E f \in json : f.share = e.share
  <2>1. \A n \in Numbers : files'[n] \cap Shares = files[n] \cap Shares
    BY <1>3, <1>4, <1>5, ConstantsAssumption
  <2>2. QED
    BY <1>0, <1>2, <1>4, <2>1 DEF Folders, Bare
<1>6. CASE \E f \in json : f.share = e.share
  <2>1. PICK g \in json : g.share = e.share
    BY <1>6
  <2>2. g.number = e.number
    BY <2>1 DEF Tracked, Known
  <2>3. rows[e.number] > 0 /\ \A k \in json : k.number = e.number => k = g \/ e.number = LastNumber
    BY <1>2, <2>1, <2>2 DEF JsonSound, Kept, Own
  <2>4. Waiting(j) /\ j.number = e.number => e.number = LastNumber
    BY <1>0, <1>2, <2>1, <2>2 DEF Waiting, JsonSound, JobSound, Gone
  <2>5. /\ \A n \in Numbers : n # e.number => files'[n] = files[n]
        /\ files'[e.number] \cap Shares \subseteq (files[e.number] \cap Shares) \cup {e.share}
    BY <1>3, <1>4, <1>6
  <2>6. \A k \in json : k.number # LastNumber => files'[k.number] \cap Shares \subseteq {k.share}
    BY <1>2, <1>4, <2>1, <2>3, <2>5 DEF Folders
  <2>7. \A n \in Numbers : rows[n] = 0 => n # e.number /\ Bare(n)
    BY <1>2, <2>3 DEF Folders
  <2>8. Waiting(j) => j.number = LastNumber \/ (j.number # e.number /\ Bare(j.number))
    BY <1>2, <2>4 DEF Folders
  <2>9. QED
    BY <1>0, <1>4, <2>5, <2>6, <2>7, <2>8 DEF Folders, Bare
<1>7. QED
  BY <1>5, <1>6

LEMMA TidyKept ==
  ASSUME NEW h, Handlers = {h}
  PROVE  Sound(h) /\ Tracked(job[h]) /\ Tidy(h) /\ [SteadyNext]_vars => Tidy(h)'
<1> SUFFICES ASSUME Sound(h), Tracked(job[h]), Tidy(h), [SteadyNext]_vars PROVE Tidy(h)'
  OBVIOUS
<1>0. h \in Handlers
  OBVIOUS
<1>1. CASE UNCHANGED vars \/ Reload
  <2>1. UNCHANGED <<rows, json, torn, files, mounted, job>>
    BY <1>1 DEF vars, Reload
  <2>2. QED
    BY <1>0, <2>1, TidyOn DEF Good
<1>2. CASE Reboot \/ Crash
  <2>1. job'[h] = NoJob /\ UNCHANGED <<rows, json, torn, files, mounted>>
    BY <1>2 DEF Reboot, Crash
  <2>2. ~ Waiting(job'[h]) /\ (Good(h)' => Good(h))
    BY <2>1 DEF NoJob, Waiting, Adding, Good
  <2>3. QED
    BY <1>0, <2>1, <2>2, TidyOn
<1>3. QED
  BY <1>0, <1>1, <1>2, ClientTidy, StepTidy, RequestTidy DEF SteadyNext

LEMMA TidyFirst ==
  ASSUME NEW h, Handlers = {h}
  PROVE  Init => Tracked(job[h]) /\ Tidy(h)
BY DEF Init, Tracked, Known, Tidy, Folders, Bare, Waiting, Adding, NoJob

\* With one request at a time the folder of a listed share never holds a file that
\* was written to another share while that was listed, for any numbers of shares,
\* files and clients, whenever the process dies outside delraid: views.py:2963-2965
\* clears the folder before the row, and with it the number, is given up.  Files
\* written to a share that is no longer listed are not ruled out.
THEOREM FoldersAreOwn ==
  ASSUME NEW h, Handlers = {h}
  PROVE  SteadySpec => []FolderIsOwn
<1> DEFINE IInv == Sound(h) /\ Tracked(job[h]) /\ Tidy(h)
<1>1. Init => IInv
  BY SoundFirst, TidyFirst
<1>2. IInv /\ [SteadyNext]_vars => IInv'
  <2>1. Sound(h) => Shape
    BY DEF Sound
  <2>2. QED
    BY <2>1, SoundKept, TrackedKept, TidyKept
<1>3. IInv => FolderIsOwn
  <2> SUFFICES ASSUME IInv, mounted, NEW e \in Listed, e.number # LastNumber
               PROVE  files[e.number] \subseteq {e.share, Late}
    BY DEF FolderIsOwn
  <2>1. e \in json /\ Good(h)
    BY DEF Listed, Broken, Writing, Good
  <2>2. files[e.number] \cap Shares \subseteq {e.share}
    BY <2>1 DEF Tidy, Folders
  <2>3. files[e.number] \subseteq Shares \cup {Late}
    BY <2>1 DEF Sound, Shape, TypeOK, Config, Entry
  <2>4. QED
    BY <2>2, <2>3
<1>4. QED
  BY <1>1, <1>2, <1>3, PTL DEF SteadySpec

-----------------------------------------------------------------------------
(* What smbd is about to read: a request renders smb.conf from samba.json  *)
(* as it is, and nothing comes between with one request at a time; delraid *)
(* empties both, and they stay alike until the reboot but for a request    *)
(* that is between the two.                                                *)
Alike == conf = json /\ "conf" \notin torn
Between(j) ==
  \/ j.pc \in {"render", "openconf", "writeconf"}
  \/ j.op = "drop" /\ j.pc \in {"open", "write"}
Rendered(j) ==
  /\ j.op # "drop" /\ j.pc \in {"openconf", "writeconf"} => j.data = json
  /\ j.op = "drop" /\ j.pc \in {"openconf", "writeconf", "open", "write"} => j.data = {}
  /\ j.op = "drop" /\ j.pc \in {"open", "write"} => conf = {} /\ "conf" \notin torn
  /\ j.pc \in {"lookup", "erase", "unrow", "restart", "timer"} => Alike
  /\ j.pc = "timer" => "json" \notin torn
  /\ rebooting => /\ Between(j) \/ Alike
                  /\ "json" \in torn => j.pc = "write"

LEMMA StepRendered ==
  ASSUME NEW h \in Handlers, Shape, Rendered(job[h]), Step(h)
  PROVE  Rendered(job[h])'
<1> DEFINE j == job[h]
<1> USE DEF Between, Alike
<1>0. j \in Job /\ Flow(j)
  BY DEF Shape, TypeOK
<1>1. CASE SaveRow(h) \/ DisablePool(h) \/ DeleteRows(h)
  <2>1. /\ Advance(h) /\ j.pc \in {"row", "disable", "unrows"}
        /\ UNCHANGED <<json, conf, torn, rebooting>>
    BY <1>1 DEF SaveRow, DisablePool, DeleteRows
  <2>2. job'[h].pc \in {"load", "format"} /\ job'[h].op = j.op
    BY <1>0, <2>1, AdvancedJob, NextStep DEF Job
  <2>3. QED
    BY <2>1, <2>2 DEF Rendered
<1>2. CASE LoadFails(h)
  <2>1. /\ job'[h] = NoJob /\ UNCHANGED <<json, conf, torn, rebooting>>
        /\ "json" \in torn /\ j.pc # "write"
    BY <1>2 DEF LoadFails, End, Shape, TypeOK
  <2>2. QED
    BY <2>1 DEF Rendered, NoJob
<1>3. CASE RestartSmbd(h) \/ Format(h)
  <2>1. /\ job'[h] = NoJob /\ UNCHANGED <<json, conf, torn, rebooting>>
        /\ j.pc \in {"restart", "format"}
    BY <1>3 DEF RestartSmbd, Format, End, Shape, TypeOK
  <2>2. QED
    BY <2>1 DEF Rendered, NoJob
<1>4. CASE OrderReboot(h)
  <2>1. /\ job'[h] = NoJob /\ UNCHANGED <<json, conf, torn>> /\ j.pc = "timer"
    BY <1>4 DEF OrderReboot, End, Shape, TypeOK
  <2>2. Alike /\ "json" \notin torn
    BY <2>1 DEF Rendered
  <2>3. QED
    BY <2>1, <2>2 DEF Rendered, NoJob
<1>5. CASE Load(h)
  <2>1. /\ j.pc = "load" /\ Take(h, Changed(json, j)) /\ "json" \notin torn
        /\ UNCHANGED <<json, conf, torn, rebooting>>
    BY <1>5 DEF Load
  <2>2. job'[h] = [j EXCEPT !.pc = After(j), !.data = Changed(json, j)]
    BY <2>1, TakenJob
  <2>3. /\ job'[h].op = j.op /\ job'[h].pc = IF j.op = "drop" THEN "openconf" ELSE "open"
        /\ job'[h].data = Changed(json, j)
    BY <1>0, <2>1, <2>2, NextStep DEF Job
  <2>4. j.op = "drop" => Changed(json, j) = {}
    BY DEF Changed, setnosf
  <2>5. QED
    BY <2>1, <2>3, <2>4 DEF Rendered
<1>6. CASE OpenJson(h)
  <2>1. /\ j.pc = "open" /\ Advance(h) /\ UNCHANGED <<json, conf, rebooting>>
        /\ torn' = torn \cup {"json"}
    BY <1>6 DEF OpenJson
  <2>2. job'[h].data = j.data /\ job'[h].op = j.op /\ job'[h].pc = "write"
    BY <1>0, <2>1, AdvancedJob, NextStep DEF Job
  <2>3. QED
    BY <2>1, <2>2 DEF Rendered
<1>7. CASE WriteJson(h)
  <2>1. /\ j.pc = "write" /\ Advance(h) /\ UNCHANGED <<conf, rebooting>>
        /\ json' = j.data /\ torn' = torn \ {"json"}
    BY <1>7 DEF WriteJson
  <2>2. /\ job'[h].op = j.op
        /\ job'[h].pc = IF j.op = "drop" THEN "timer" ELSE "render"
    BY <1>0, <2>1, AdvancedJob, NextStep DEF Job
  <2>3. QED
    BY <2>1, <2>2 DEF Rendered
<1>8. CASE makeconf(h)
  <2>1. /\ j.pc = "render" /\ Take(h, json) /\ "json" \notin torn
        /\ UNCHANGED <<json, conf, torn, rebooting>>
    BY <1>8 DEF makeconf
  <2>2. job'[h] = [j EXCEPT !.pc = After(j), !.data = json]
    BY <2>1, TakenJob
  <2>3. job'[h].data = json /\ job'[h].pc = "openconf" /\ job'[h].op = j.op /\ j.op # "drop"
    BY <1>0, <2>1, <2>2, NextStep DEF Job, Flow
  <2>4. QED
    BY <2>1, <2>3 DEF Rendered
<1>9. CASE OpenConf(h)
  <2>1. /\ j.pc = "openconf" /\ Advance(h) /\ UNCHANGED <<json, conf, rebooting>>
        /\ "json" \in torn' <=> "json" \in torn
    BY <1>9 DEF OpenConf
  <2>2. job'[h].data = j.data /\ job'[h].op = j.op /\ job'[h].pc = "writeconf"
    BY <1>0, <2>1, AdvancedJob, NextStep DEF Job
  <2>3. QED
    BY <2>1, <2>2 DEF Rendered
<1>10. CASE WriteConf(h)
  <2>1. /\ j.pc = "writeconf" /\ Advance(h) /\ UNCHANGED <<json, rebooting>>
        /\ conf' = j.data /\ torn' = torn \ {"conf"}
    BY <1>10 DEF WriteConf
  <2>2. /\ job'[h].op = j.op /\ job'[h].data = j.data
        /\ job'[h].pc = IF j.op = "drop" THEN "open"
                        ELSE IF j.op = "remove" THEN "lookup" ELSE "restart"
    BY <1>0, <2>1, AdvancedJob, NextStep DEF Job
  <2>3. QED
    BY <2>1, <2>2 DEF Rendered
<1>11. CASE Lookup(h) \/ Erase(h) \/ DeleteRow(h)
  <2>1. j.pc \in {"lookup", "erase", "unrow"} /\ UNCHANGED <<json, conf, torn, rebooting>>
        /\ (Advance(h) \/ End(h))
    BY <1>11 DEF Lookup, Erase, DeleteRow
  <2>2. CASE Advance(h)
    <3>1. job'[h].pc \in {"erase", "unrow", "restart"} /\ job'[h].op = j.op
      BY <1>0, <2>1, <2>2, AdvancedJob, NextStep DEF Job
    <3>2. QED
      BY <2>1, <3>1 DEF Rendered
  <2>3. CASE End(h)
    <3>1. job'[h] = NoJob
      BY <2>3 DEF End, Shape, TypeOK
    <3>2. QED
      BY <2>1, <3>1 DEF Rendered, NoJob
  <2>4. QED
    BY <2>1, <2>2, <2>3
<1>12. QED
  BY <1>1, <1>2, <1>3, <1>4, <1>5, <1>6, <1>7, <1>8, <1>9, <1>10, <1>11 DEF Step

LEMMA RenderedKept ==
  ASSUME NEW h, Handlers = {h}
  PROVE  Shape /\ Rendered(job[h]) /\ [Next]_vars => Rendered(job[h])'
<1> SUFFICES ASSUME Shape, Rendered(job[h]), [Next]_vars PROVE Rendered(job[h])'
  OBVIOUS
<1> USE DEF Between, Alike
<1>0. h \in Handlers /\ Flow(job[h])
  BY DEF Shape
<1>1. CASE Request(h)
  <2>1. PICK o, p, sh, n, v : p \in {"row", "load", "disable", "unrows"} /\ Start(h, o, p, sh, n, v)
    BY <1>1 DEF Request, setsharefolder, editsharefolder, delsharefolder, winviewedit,
       delraid, createraid
  <2>2. /\ job[h].pc = "idle" /\ job[h].op = "none"
        /\ job'[h].pc \in {"row", "load", "disable", "unrows"}
        /\ UNCHANGED <<json, conf, torn, rebooting>>
    BY <1>0, <2>1 DEF Start, Shape, TypeOK, Flow
  <2>3. QED
    BY <2>2 DEF Rendered
<1>2. CASE UNCHANGED vars \/ ClientWrites \/ Reload
  BY <1>2 DEF vars, ClientWrites, Reload, Rendered
<1>3. CASE Reboot \/ Crash
  <2>1. job'[h].pc = "idle" /\ rebooting' = FALSE
    BY <1>3 DEF Reboot, Crash, NoJob
  <2>2. QED
    BY <2>1 DEF Rendered
<1>4. QED
  BY <1>0, <1>1, <1>2, <1>3, StepRendered DEF Next

\* With one request at a time a request that is answered after it restarted smbd leaves
\* smbd serving the shares of samba.json, whatever was torn before: sambactl.py:71-74,
\* 127-130, 168-171, 195-198 render smb.conf after samba.json is written, and
\* views.py:2920, 2940, 2966 restart smbd last.  The reboot that delraid orders when it
\* is answered (views.py:2339-2342) does so too, whatever shares were made, changed or
\* deleted in the meantime, unless a request is at work when it comes.
THEOREM AnsweredAreServed ==
  ASSUME NEW g, Handlers = {g}
  PROVE  Spec => AnsweredIsServed
<1> DEFINE IInv == Shape /\ Rendered(job[g])
           Served == /\ \A h \in Handlers : RestartSmbd(h) => served' = json
                     /\ Reboot /\ (\A h \in Handlers : job[h].pc = "idle") => served' = json
<1>1. Init => IInv
  BY ShapeFirst DEF Init, Rendered, NoJob
<1>2. IInv /\ [Next]_vars => IInv'
  BY ShapeKept, RenderedKept
<1>3. IInv => Served
  <2> SUFFICES ASSUME IInv PROVE Served
    OBVIOUS
  <2>1. RestartSmbd(g) => served' = json
    BY DEF RestartSmbd, Rendered, Alike, Loaded
  <2>2. ASSUME Reboot, job[g].pc = "idle" PROVE served' = json
    <3>1. ~ Between(job[g])
      BY <2>2 DEF Between, Shape, Flow
    <3>2. Alike
      BY <2>2, <3>1 DEF Reboot, Rendered
    <3>3. QED
      BY <2>2, <3>2 DEF Reboot, Alike, Loaded
  <2>3. QED
    BY <2>1, <2>2
<1>4. QED
  BY <1>1, <1>2, <1>3, PTL DEF Spec, AnsweredIsServed

-----------------------------------------------------------------------------
(* The refinement: only WriteJson and a crash in the middle of it are      *)
(* steps of the abstract registry.                                         *)
LEMMA BrokenIs ==
  ASSUME NEW h, Handlers = {h}
  PROVE  /\ Broken <=> "json" \in torn /\ job[h].pc # "write"
         /\ Broken' <=> "json" \in torn' /\ job'[h].pc # "write"
BY DEF Broken, Writing

LEMMA Stutters ==
  ASSUME Listed' = Listed, Broken' = Broken
  PROVE  UNCHANGED Abstract!vars
BY DEF Abstract!vars

(* A step that leaves samba.json alone, and whose job was not writing it.  *)
LEMMA Unseen ==
  ASSUME NEW h, Handlers = {h}, UNCHANGED json,
         "json" \in torn' <=> "json" \in torn,
         job'[h].pc = "write" <=> job[h].pc = "write"
  PROVE  UNCHANGED Abstract!vars
BY BrokenIs, Stutters DEF Listed, Broken

LEMMA WriteSimulated ==
  ASSUME NEW h, Handlers = {h}, Sound(h), WriteJson(h)
  PROVE  [Abstract!Next]_Abstract!vars
<1> DEFINE j == job[h]
<1> USE DEF Holding, Adding
<1>0. /\ Shape /\ j \in Job /\ Flow(j) /\ JobSound(j) /\ Good(h) /\ JsonSound(j)
      /\ j.pc = "write" /\ json \in SUBSET Entry
  BY DEF Sound, Shape, TypeOK, Good, WriteJson, Config
<1>1. json' = Changed(json, j) /\ "json" \notin torn'
  BY <1>0 DEF WriteJson, JobSound
<1>2. Broken = FALSE /\ Broken' = FALSE /\ Listed = json /\ Listed' = Changed(json, j)
  BY <1>0, <1>1 DEF Broken, Writing, Listed
<1>3. CASE j.op = "add"
  <2> DEFINE e == [share |-> j.share, number |-> j.number, option |-> j.option]
  <2>1. e \in Abstract!Entry
    BY <1>0, <1>3 DEF Abstract!Entry, Flow, Job, Numbers
  <2>2. Listed' = Listed \cup {e}
    BY <1>2, <1>3 DEF Changed, addsf
  <2>3. \A f \in Listed : f.number = e.number => e.number = LastNumber
    BY <1>0, <1>2, <1>3 DEF JsonSound
  <2>4. Abstract!Add(e)
    BY <2>2, <2>3 DEF Abstract!Add
  <2>5. QED
    BY <1>2, <2>1, <2>4 DEF Abstract!Next
<1>4. CASE j.op = "edit"
  <2>1. j.number \in 0 .. LastNumber /\ j.option \in Options
    BY <1>0, <1>4 DEF Flow, Job, Numbers
  <2>2. Abstract!Edit(j.number, j.option)
    BY <1>2, <1>4 DEF Changed, editsf, Abstract!Edit
  <2>3. QED
    BY <1>2, <2>1, <2>2 DEF Abstract!Next
<1>5. CASE j.op = "remove"
  <2>1. j.number \in 0 .. LastNumber
    BY <1>0 DEF Job, Numbers
  <2>2. Abstract!Remove(j.number)
    BY <1>2, <1>5 DEF Changed, delsf, Abstract!Remove
  <2>3. QED
    BY <1>2, <2>1, <2>2 DEF Abstract!Next
<1>6. CASE j.op = "drop"
  BY <1>2, <1>6 DEF Changed, setnosf, Abstract!Clear, Abstract!Next
<1>7. CASE j.op = "global"
  BY <1>2, <1>7, Stutters DEF Changed, editconf
<1>8. QED
  BY <1>0, <1>3, <1>4, <1>5, <1>6, <1>7 DEF Flow, Job, Ops

LEMMA StepSimulated ==
  ASSUME NEW h, Handlers = {h}, Sound(h), Step(h)
  PROVE  [Abstract!Next]_Abstract!vars
<1> DEFINE j == job[h]
<1>0. Shape /\ j \in Job /\ Flow(j) /\ JobSound(j) /\ h \in Handlers
  BY DEF Sound, Shape, TypeOK
<1>1. CASE WriteJson(h)
  BY <1>1, WriteSimulated
<1>2. CASE OpenJson(h)
  <2>1. j.pc = "open" /\ "json" \notin torn /\ job'[h].pc = "write" /\ UNCHANGED json
    BY <1>0, <1>2, AdvancedJob, NextStep DEF OpenJson, JobSound, Reads, Job
  <2>2. Broken = FALSE /\ Broken' = FALSE
    BY <2>1 DEF Broken, Writing
  <2>3. QED
    BY <2>1, <2>2, Stutters DEF Listed
<1>3. CASE SaveRow(h) \/ Erase(h) \/ DeleteRow(h) \/ DisablePool(h) \/ DeleteRows(h)
  <2>1. j.pc \in {"row", "erase", "unrow", "disable", "unrows"} /\ Advance(h) /\ UNCHANGED <<json, torn>>
    BY <1>3 DEF SaveRow, Erase, DeleteRow, DisablePool, DeleteRows
  <2>2. j.pc # "write" /\ job'[h].pc # "write"
    BY <1>0, <2>1, AdvancedJob, NextStep DEF Job
  <2>3. QED
    BY <2>1, <2>2, Unseen
<1>4. CASE OpenConf(h) \/ WriteConf(h)
  <2>1. j.pc \in {"openconf", "writeconf"} /\ Advance(h) /\ UNCHANGED json
    BY <1>4 DEF OpenConf, WriteConf
  <2>2. "json" \in torn' <=> "json" \in torn
    BY <1>4 DEF OpenConf, WriteConf
  <2>3. j.pc # "write" /\ job'[h].pc # "write"
    BY <1>0, <2>1, AdvancedJob, NextStep DEF Job
  <2>4. QED
    BY <2>1, <2>2, <2>3, Unseen
<1>5. CASE Load(h) \/ makeconf(h)
  <2>1. PICK d : j.pc \in {"load", "render"} /\ Take(h, d) /\ UNCHANGED <<json, torn>>
    BY <1>5 DEF Load, makeconf
  <2>2. j.pc # "write" /\ job'[h].pc # "write"
    BY <1>0, <2>1, TakenJob, NextStep DEF Job
  <2>3. QED
    BY <2>1, <2>2, Unseen
<1>6. CASE LoadFails(h) \/ RestartSmbd(h) \/ Format(h) \/ OrderReboot(h)
  <2>1. j.pc # "write" /\ job'[h] = NoJob /\ UNCHANGED <<json, torn>>
    BY <1>0, <1>6 DEF LoadFails, RestartSmbd, Format, OrderReboot, End, Shape, TypeOK
  <2>2. QED
    BY <2>1, Unseen DEF NoJob
<1>7. CASE Lookup(h)
  <2>1. j.pc = "lookup" /\ UNCHANGED <<json, torn>> /\ (Advance(h) \/ End(h))
    BY <1>7 DEF Lookup
  <2>2. job'[h].pc # "write"
    <3>1. CASE Advance(h)
      BY <1>0, <2>1, <3>1, AdvancedJob, NextStep DEF Job
    <3>2. CASE End(h)
      BY <1>0, <3>2 DEF End, NoJob, Shape, TypeOK
    <3>3. QED
      BY <2>1, <3>1, <3>2
  <2>3. QED
    BY <2>1, <2>2, Unseen
<1>8. QED
  BY <1>1, <1>2, <1>3, <1>4, <1>5, <1>6, <1>7 DEF Step

LEMMA NextSimulated ==
  ASSUME NEW h, Handlers = {h}
  PROVE  Sound(h) /\ [SteadyNext]_vars => [Abstract!Next]_Abstract!vars
<1> SUFFICES ASSUME Sound(h), [SteadyNext]_vars PROVE [Abstract!Next]_Abstract!vars
  OBVIOUS
<1>0. Shape /\ h \in Handlers
  BY DEF Sound
<1>1. CASE UNCHANGED vars
  BY <1>1, Unseen DEF vars
<1>2. CASE Step(h)
  BY <1>2, StepSimulated
<1>3. CASE SteadyRequest(h)
  <2>1. PICK o, p, sh, n, v : p \in {"row", "load", "disable", "unrows"} /\ Start(h, o, p, sh, n, v)
    BY <1>3 DEF SteadyRequest, setsharefolder, editsharefolder, delsharefolder, winviewedit,
       delraid, createraid
  <2>2. job[h].pc # "write" /\ job'[h].pc # "write" /\ UNCHANGED <<json, torn>>
    BY <1>0, <2>1 DEF Start, Shape, TypeOK
  <2>3. QED
    BY <2>2, Unseen
<1>4. CASE ClientWrites \/ Reload
  BY <1>4, Unseen DEF ClientWrites, Reload
<1>5. CASE Reboot \/ Crash
  <2>1. job'[h] = NoJob /\ UNCHANGED <<json, torn>>
    BY <1>5 DEF Reboot, Crash
  <2>2. NoJob.pc # "write"
    BY DEF NoJob
  <2>3. CASE "json" \in torn
    BY <2>1, <2>2, <2>3, BrokenIs DEF Listed, Abstract!Next
  <2>4. CASE "json" \notin torn
    <3>1. Broken = FALSE /\ Broken' = FALSE
      BY <2>1, <2>4 DEF Broken
    <3>2. QED
      BY <2>1, <3>1, Stutters DEF Listed
  <2>5. QED
    BY <2>3, <2>4
<1>6. QED
  BY <1>1, <1>2, <1>3, <1>4, <1>5 DEF SteadyNext

\* With one request at a time the requests implement the abstract registry: a change
\* is made as a whole, or a crash loses the registry as a whole (sambactl.py:71-73,
\* 127-129, 143-145, 168-170).
THEOREM RegistryImplemented ==
  ASSUME NEW h, Handlers = {h}
  PROVE  SteadySpec => Registry
<1>1. Init => Abstract!Init
  BY DEF Init, Abstract!Init, Listed, Broken
<1>2. QED
  BY <1>1, SoundFirst, SoundKept, NextSimulated, PTL DEF SteadySpec, Registry, Abstract!Spec
=============================================================================
