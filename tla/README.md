# mininas 3.0: models and proofs

mininas 3.0 is the software of a small storage appliance: a Django 1.7 application (`release/aaa`) over MySQL,
an update daemon (`release/updatedemo.py`), two C programs (`ssdp`, `SystemInfo`) and shell scripts. This directory
specifies the parts whose behaviour depends on the order in which threads, requests, file writes and restarts come.
Each part is a TLA+ module translated from the source, model-checked with TLC on small instances. What matters
most is proved with TLAPS for every instance.

    tlc -workers 2 -config Downs.cfg MCMainDown      # a run: its cfg and module are in PROJECT.json
    tlapm MainDownProofs.tla                             # the proofs of a module

Paths without a directory below are in `src/release/aaa/mini/`.

## 1. Inventory

### Components

| Component | Source | State | Operations | Module |
|---|---|---|---|---|
| URL downloads | `main_down.py`, `views.py` 1470-1597 | rows of `Fileinfo_down`; `public_dic`; `startDown` and `Download` threads; part files | add, start, stop, delete, `check_dic`, kill | `MainDown` |
| Torrent downloads | `btdown.py` | rows of `BtFileinfo_down`; `public_dic_bt`; `downBTFile` threads; torrent files and content | add, start, stop, delete, `check_bt_dic`, kill | `BtDown` |
| Upload in chunks and file index | `views.py` 3547-3732, `watch.py` | the file; `Tmpfileinfo`, `Fileinfo_up`; inotify queue | chunk request, retry, deletion, close and delete events | `Upload` |
| Samba shares | `sambactl.py`, `views.py` 2883-2973, 3129 | rows of `Sharefuser`; `samba.json`; `smb.conf`; what smbd has read; folders | make, edit, delete, global settings, remove and make the volume | `SambaShares`, `ShareRegistry` |
| Time machine shares | `tmctl.py` | `afp.json`, `afp.conf`, folders | add, delete | planned |
| FTP configuration | `ftpctl.py` | `proftpd.json`, `proftpd.conf` | set | planned |
| Upload page | `templates/Default/FileCenter/UploadFileForIE.html`, `static/js/webuploader-0.1.5/webuploader.js` | queue of files, pool of blocks, counters, timers, the button | add, start, stop, send, retry, fail, end | `WebUploader`, `ChunkSender` |
| Accounts, login, passwords | `views.py` 86-494, 797-852, 1771-1857 | rows of `User`; Unix and Samba accounts; home directories | register, delete, change, reset, log in and out | `Accounts` |
| Groups | `views.py` 1864-1961 | rows of `Group`, `Usergroup`; Unix groups | create, rename, members, delete | rows of `Usergroup` in `Accounts`; rest planned |
| Volumes and disks | `diskctl.py`, `automountdisk.py`, `views.py` | ZFS pools, `hasraid` | create, delete, mount | only as far as shares see it |
| File operations, media | `views.py` 873-1387, `watch.py` | files and folders; rows of `Fileinfo_up`; watches and events of inotify | create, move, rename, delete | `FileOps` |
| Address book, network, power | `views.py` 520-617, 2984-3112, 3313, 3449 | one row or one file each | read, write | not planned |
| Update daemon | `src/release/updatedemo.py` | sockets, archive, `updatestatus.txt` | check, download, unpack | planned |
| SSDP | `src/ssdp/*.c` | sockets per network card, list of hosts | notify, search, expire | planned |
| SystemInfo | `src/SystemInfo/src/*.c` | two buffers | query database, query system | planned |
| Scripts, front end, tests, settings | see `PROJECT.json` | none that is kept | - | not planned |

### Interaction

Every view runs in a thread of the one web server process. Views and worker threads share the database (each `save()`
writes all columns: an UPDATE by key, or an INSERT when the row is gone), the module-level dictionaries, and the
files of the disk. There are no locks and no transactions. Worker threads are ended by an asynchronous `SystemExit`
(`PyThreadState_SetAsyncExc`) that a bare `except` may swallow. The watcher is a process of its own that hears of files
by inotify. smbd reads `smb.conf` when it is restarted, and again for new clients.

### What is hard

- *Interleaving.* Registries are read, changed and popped by requests and workers; a worker saves the whole row it was
  started with.
- *Restart.* Rows and files survive, registries and threads do not. Configuration files are truncated before
  they are written.
- *Retry.* WebUploader sends a chunk again when it gets no answer; the server may have stored it.
- *Callbacks.* The upload page counts blocks in callbacks that still come when their file has failed.
- *Ordering.* inotify events are handled later than the state they report; a flag is cleared before the kill is sent.
- *Limits.* Slots of the registries, numbers of shares.
- *Two writers of one fact.* A path is in the tree, in the index, and in the watches of another process; a password
  is in a row and in the system. No operation changes them together.
- *Partial failure.* A network error ends a thread in the way success does; a pool command may fail after the rest
  of the request has assumed it did not.

### What makes each component correct

- Downloads: the registry keeps its bound; a stopped download gives its slot back and its threads end; a resumed file
  continues where it stopped; "done" means whole, indexed, and is reached.
- Upload: what was answered is stored, in order and once; the index agrees with the disk in the end.
- Shares: rows, `samba.json`, `smb.conf` and smbd agree after every request; two shares have different folders; a new share
  never shows files of a deleted one; a crash costs all or nothing.
- Upload page: "uploaded" is shown of what the server has; no block is lost or counted twice; an upload ends.
- Accounts and groups: rows, Unix accounts and passwords agree; nothing of a deleted account remains.
- File operations: the index lists what is on the disk, each file once.
- Daemons: no leak over an unbounded number of rounds; a slow client delays nobody for ever.

`PROJECT.json` lists the hazards at their lines, each with the properties that cover it or the reason there is none.

## 2. Modules

### `MainDown`: URL downloads

| In the model | In the code |
|---|---|
| `status` | `Fileinfo_down.status`: 1 done, 2 loading or waiting, 3 paused; `NoRow` when the row is gone |
| `public_dic` | the dictionary: an entry is `[thread, go]` |
| `main`, `fetch` | where the `startDown` thread and its `Download` thread are |
| `partLen`, `partOk` | the part file `dtonk_0` of a row |
| `output` | the file of a *name*, user/download/name+ftype: several rows may have one; written through a buffer until closed |
| `rpc`, `op`, `todo`, `cur`, `obj`, `keys`, `picks`, `again` | a request: the view, the rows it has still to handle, the thread of the entry it looked up, and the local variables of `check_dic` |

A view evaluates its queryset once (`Begin`) and handles one row after another. `stopDown` and `dropDown` look the entry up
(`Look`), clear its flag (`Flag`, or `FlagFails` with a KeyError when the entry is gone by then) and kill the thread they
looked up (`KillThread`). Each row ends in `check_dic`, which looks at
the keys it copied (`SweepBegin`, `SweepSkip`, `SweepStop`, `SweepPop`), queries waiting rows (`Query`), and launches
up to the free slots it counted (`Launch`). A thread may be preempted at every access to the database, a file, the
network or a thread. `Die` and `Swallow` are the two ends of a kill. The names and sizes that are looked up before a
row is made are left out.

`scene` is fixed when a behaviour begins and says what surrounds the program: whether the network fails (`errors`), the
blocks of a remote file (`size`), the output of each row (`name`), the rows, views and threads in use, the bounds
(`ops`, `restarts`), and whether the user is `calm`, that is, waits for all threads to end between two requests and does
not delete, on a network that answers. A calm user stops no download at work; what a part file is resumed from is an
error or a restart. Properties that need a calm user or no errors name the scene as their premise, and one run has all
scenes side by side.

### `BtDown`: torrents

The same architecture with different details: a row has a *name* (torrent file and folder), status 5 is waiting for a
slot and 4 (connecting) is modelled as 2 (loading), since every test treats them alike. There is one thread per torrent,
whose loop condition looks at the seed, the entry and the flag. `PutBack` is the assignment in `deleteBT` that puts back
an entry another request has popped; `Swallow` is the bare `except` around the save and the first sleep. libtorrent is
external: `Receive` is the arrival of content while a session runs. List views only read and are left out. `scene` has
the rows, names, views and threads in use, and whether there are peers.

### `Upload`: chunks and index

`uploadfile` is split at its accesses: `Look` and `LookTmp` (index row, `Tmpfileinfo` row), `Touch` (save of the index
row), `Decide` (`Tmpfileinfo` row), `AppendChunk`, `Record` (count saved), `Reply`. Clients, the network and the inotify
queue are external. `process_IN_CLOSE_WRITE` is four steps: `CloseWrite` (is there a file?), `Open` (its size and md5;
when the file has gone the exception leaves `notifier.loop` and `stage` is "ended" for good), `Select`, `Insert`. A
block of the file carries its client and chunk number, so that duplicates and mixtures can be seen. Thumbnails, tags and
the file name are left out: the model has one name.

### `SambaShares` and `ShareRegistry`: shares

A request is a record (`job`) that goes through the steps of `Order`: make the row, load `samba.json`, truncate it,
write it, render `smb.conf`, truncate it, write it, restart smbd. `setnosf` (from `delraid`) has its own order: it does
not restart smbd, sets a timer and is answered (`OrderReboot`); `Reboot` comes at any later step, whatever requests are
at work. `torn` holds the files that are truncated and not yet written. Settings of a share are one value (`option`).
The users of a share are kept by a command outside the repository and left out. `ShareRegistry` is what an administrator
is promised: every request changes the set of shares at once, or a crash loses all of it. The refinement mapping takes
`samba.json` for the set, and takes it for lost when it was left truncated.

### `WebUploader` and `ChunkSender`: the upload page

| In the model | In the code |
|---|---|
| `status` | `file.getStatus()`; `"none"` before the file is added |
| `block`, `retried` | the blocks `CuteFile` cuts, and where each is: in its list, in the pool waiting for `before-send`, sent, waiting for `after-send-file`, gone |
| `remaning`, `sending` | `file.remaning` (sic) and `this.remaning` |
| `runing`, `promise`, `trigged` | `runing` (sic), `_promise.file`, `_trigged` |
| `ticks`, `finished` | timers of `Base.nextTick` that will run `_tick`, or announce `uploadFinished` |
| `page` | the button of the page |
| `acked` | the blocks the server answered with success |

All is one event loop: an action is one event, and pending events come in any order. `tick` is `_tick` with its four
outcomes; `load`, `Retry` and `error` are the handlers of the transport in `_doSend`; `uploadComplete` is the handler that
aborts what is left of a file. Simplifications: the queue has no order (any queued file may be prepared next);
`remaning` is a natural, so that the `NaN` of a file whose counter was deleted is 0; two clicks are more than a
millisecond apart (`~finished` in `stopUpload`); empty files do not get here, `acceptFile` refuses them. The page neither
cancels nor skips files, and those functions are left out.

`ChunkSender` is what `uploadfile` needs of a client: chunks in order, one at a time, repeated until answered. It is the
client of module `Upload`. With `threads: 1`, the option of the page, `WebUploader` implements it for each file
(`SendsInOrder`); with more threads it does not, and the server would mix up the file.

### `Accounts`: users

A user is a `row`, an `account` of the system (Unix and Samba with one password) and a `home`. A request (`req`, `pc`,
`obj`) goes through its view in the order of the code: the first query (`Find`, `NotFound`), `Save`, the system command
(`System`), and the steps of `register` and `deluser`. `CommandFails` is a command of the system (`mininas_user_...`,
`rm`) that fails: no view looks at the exit status. `RmtreeFails` is the exception of `shutil.rmtree`. `obj` is the row
object, whose `save()` writes all fields: an UPDATE by primary key, or an INSERT when the row is gone. `Raises` is the
exception `deluser` meets at the first row of `Usergroup` and swallows: the row stays, the account and the home go.
`clash` is a history variable: the users whose requests overlapped, were cut off by a restart or had a command fail
since a password was last changed by a request of its own.

### `FileOps`: operations on files and folders

| In the model | In the code |
|---|---|
| `files`, `watch` | the tree; `watch[p]` is the path under which inotify reports what happens in folder `p` |
| `rows`, `lastId` | `Fileinfo_up` and its `AUTO_INCREMENT` |
| `queue`, `stage`, `inserting` | events the watcher has not handled; where it is in `process_IN_CLOSE_WRITE`; the file whose row it has still to bring |
| `pc`, `op`, `row`, `from`, `to`, `todo` | the request: its view, its row object, the paths, the rows of its loop |

Views: `photoa`, `photod`, `photor`, `photofo` (folders), `photom`, `filerename`, `deletefile` (files). Each changes the
disk in one step and the rows in others, in the order of the code; `Beneath` is `path__contains`, `Renamed` and `Rehung`
are the ways `photor` and `photofo` compute new paths from strings. inotify is external: an event names the directory by
the path it had when its watch was added, and a new directory is watched when the event of its creation is handled
(`auto_add`).

One request is at work at a time, on one file of those it names. A path is a sequence of names; no name is the end of
another, folders and files have different names, and the prefix of a path that is replaced occurs once. The folder a file
moves to exists. Thumbnails, tags, sizes and the Thunder folders are left out.

`mishaps` is a history variable: the ways in which the index may lose track of the disk, noted at the step where they
happen. They are named in the module; nothing in `views.py` or `watch.py` prevents them. A property of the index holds
when nothing happened that breaks it: `FileHasRow` also after a file was replaced, `RowHasFile` and `OneRowEach` after
no mishap at all. With any other mishap alone TLC finds the property violated, "sibling" when three files are stored at
first, of which the run's instance has one; only the end of the watcher alone did not give a file two rows within the
bounds tried.

## 3. Runs

| Run | Question | Instance |
|---|---|---|
| `Downs` | bound, sweep and end of stopped downloads; resuming; done is whole, listed, reached | 3 rows, 2 workers, 1 slot, 2 request threads; the scenes below |
| `DownDropped` | *violated:* a deleted row stays deleted | scene `Drop`, 1 worker |
| `BtRows` | bound, entries have rows; for a patient user done is whole and reached | 3 torrents, 3 names, 2 workers, 2 request threads; scenes `Rows`, `Namesake`, `Crowd`, `Clash` |
| `BtStops` | sweep, end of stopped threads | scene `Pair`: 1 torrent, 2 workers, 2 request threads, 3 requests, 1 restart |
| `BtStopDone` | *violated:* status 1 means complete | 1 torrent, 1 worker, 1 request thread |
| `Uploads` | answered is stored, exact, no leftover; index and disk agree in the end | 2 clients, 3 chunks, 1 retry, 1 request thread, 1 deletion, 1 restart |
| `UploadCrash` | *violated:* an uploaded file has all its chunks | 1 client, 2 chunks, 1 restart |
| `Shares` | rows, numbers, folders, served, abstract registry | 3 shares, 2 numbers, 2 settings, any number of requests and crashes |
| `Sender` | shown is answered, counters, no standstill, order of chunks | files of 3 and 1 blocks, 1 or 2 threads, 1 retry, 4 clicks |
| `Accounts` | password in row and system, users are whole | admin and 1 user, 2 passwords, 2 handlers, 4 requests, 1 failure, 1 restart |
| `AccountStale` | *violated:* only a change of password changes the password | the same, 2 requests, no failure, no restart |
| `FileOps` | the index lists what is on the disk, each file once | 6 folders, 3 names, 3 operations, 1 change by Samba |

**Scenes.** A run of the downloads has several surroundings side by side, defined in its `MC` module.

| Scene | Who asks | What it is there for |
|---|---|---|
| `Downs`: `Busy`, `Drop` | one request thread; 2 rows without deletion, 1 row with | a row at work gets a second thread; stop and delete |
| `Pair` | two request threads at one row, 3 requests, 1 worker | an entry is popped or replaced between lookup, flag and kill |
| `Crowd` | two request threads, 3 waiting rows, 1 slot | both count the free slot and launch |
| `Broken`, `Whole` | a calm user, 2 blocks, 3 requests; with errors and a restart, or without | resuming; completion |
| `Clash` | as `Whole`, both rows with one output | the second download truncates the file of the first |
| `BtRows`: `Rows`, `Namesake` | one request thread, 2 torrents with two names or one | adding, and what is left of one torrent by the other |
| `Crowd`, `Clash` | two request threads, 3 waiting rows; 2 of them also deleted | both count the free slot; an entry is put back |

**Bounds.** `ops` and `restarts` of a scene, `MaxOps`, `MaxBatch`, `MaxRestarts`, `MaxDeletes`, `MaxClicks`,
`MaxRequests`, `MaxFailures`, `MaxChanges`, `chunkRetry` and `MaxFiles` appear as guards and nowhere else; `Movable`
keeps folders within `Paths`. Two rows and one slot are the least for which one download waits for another; two workers
are the least for which a row has a second thread; two requests reach every pair of operations (start then stop, stop
then delete); three let a download be resumed. Three chunks give a first, a middle and a last one, which the code treats
in three ways. Two numbers for three shares reach both "a number is used again" and "all are taken". `Shares` has no
bound on requests. In `Sender` the second file waits for the first or shares the pool with it, and four clicks stop and
start each twice. In `Accounts` four requests are register, a group or a change, and two that overlap. One folder of
`FileOps` bears the name of its user, so that the path of a second one also occurs inside another path.

**Symmetry and views.** Symmetry is used in `Shares` only: shares and settings are only compared for equality, and the
run has no fairness. A `VIEW` removes what no later step reads: the file of a worker that has ended, the operands of a
request that is over, and, in scenes without a calm user, the contents of the files, which no step reads back (`partLen`
stays). The comments of the `MC` modules give the reason for each part. The guards and the properties of a run with a
view read only what the view keeps, except that `TypeOK` also reads the rest; there the theorem `TypeCorrect`, where
there is one, says more than the run.

**Deadlock** is not checked: users may stop asking, and bounds end behaviours.

**Fairness.** Weak fairness of each request thread and each worker thread: the interpreter schedules runnable threads.
Users and restarts are never fair. `Download` threads are fair in calm scenes only, since `urlopen` and `read` have no
timeout. Torrents are only received for ever (`Receive`) in the premise of `LaunchedCompletes`. In `Uploads` the server and
the watcher are fair and clients are not. In `Sender` the event loop runs every timer and callback, and a request ends
with an answer or with the two-minute timeout of the transport; users are not fair.

**Premises.** Some properties hold only of surroundings that leave the code the time it needs. Each premise has a name:

- `scene.calm`, `Unbroken` (`MainDown`): a calm user; moreover no errors and no restart. `Own`: no other row has the
  same output.
- `OneUser` (`BtDown`): one request thread in use.
- `Patient` (`BtDown`): the user of torrents neither stops nor deletes.
- `SerialSpec`, `PromptSpec` (`Upload`): a client repeats a chunk only when its previous request is over, and nobody
  deletes a file in between; moreover the watcher has the file before the last chunk is repeated, and has seen the
  deletion of a file before it is uploaded again. `Undisturbed`: there was no deletion, no restart and no other client
  of the path. `IndexFollowsDisk` is of a watcher that has not ended.
- `SteadySpec` (`SambaShares`): shares are made only while the volume is there, and neither a crash nor the reboot comes
  while it is being taken away. The run has one handler: one request at a time.
- `clash`, `Calm` (`Accounts`): requests for the user overlapped, were cut off or had a command fail; nobody is in a
  group, a user is deleted by a request of its own, no command and no `rmtree` fails, and the server is not restarted.
- `mishaps` (`FileOps`).

Section 5 says what happens without them.

## 4. Proofs

| Theorem | Statement | Assumptions besides the module's own |
|---|---|---|
| `MainDownProofs!TypeCorrect` | `Spec => []TypeOK` | |
| `MainDownProofs!StoppedSwept` | `Spec => []StoppedIsSwept` | |
| `MainDownProofs!SlotsHeld` | `Spec => []SlotBound` | |
| `MainDownProofs!PartsArePrefixes` | `Spec => []PartIsPrefix` | a request names one row (`MaxBatch <= 1`) |
| `MainDownProofs!DoneFinished` | `Spec => []DoneIsFinished` | the same |
| `MainDownProofs!EntryKept` | `Spec => KeptUntilDone` | the same |
| `BtDownProofs!TypeCorrect` | `Spec => []TypeOK` | |
| `BtDownProofs!EntriesHaveRows` | `Spec => []EntryHasRow` | one request thread |
| `BtDownProofs!StoppedSwept` | `Spec => []StoppedIsSwept` | |
| `BtDownProofs!SlotsHeld` | `Spec => []SlotBound` | |
| `BtDownProofs!PatientDone` | `Spec => PatientDoneIsWhole` | |
| `UploadProofs!TypeCorrect` | `Spec => []TypeOK` | |
| `UploadProofs!AnsweredStored` | `SerialSpec => []AnsweredIsStored` | |
| `UploadProofs!ExactlyUploaded` | `PromptSpec => []UploadedIsExact` | |
| `UploadProofs!NothingLeftOver` | `PromptSpec => []NoLeftover` | |
| `SambaSharesProofs!TypeCorrect` | `Spec => []TypeOK` | |
| `SambaSharesProofs!EntriesAreKept` | `SteadySpec => []EntriesHaveRows` | one handler |
| `SambaSharesProofs!NumbersAreOwn` | `SteadySpec => []NumberIsOwn` | one handler |
| `SambaSharesProofs!FoldersAreOwn` | `SteadySpec => []FolderIsOwn` | one handler |
| `SambaSharesProofs!AnsweredAreServed` | `Spec => AnsweredIsServed` | one handler |
| `SambaSharesProofs!RegistryImplemented` | `SteadySpec => Registry` | one handler |
| `WebUploaderProofs!TypeCorrect` | `Spec => []TypeOK` | |
| `WebUploaderProofs!ReportedAnswered` | `Spec => []ReportedIsAnswered` | |
| `WebUploaderProofs!CountersRight` | `Spec => []CountersAgree` | |
| `WebUploaderProofs!EndedIdle` | `Spec => []EndedIsIdle` | |
| `WebUploaderProofs!NotStuck` | `Spec => []NeverStuck` | |
| `WebUploaderProofs!SentInOrder` | `Spec => SendsInOrder` | |
| `AccountsProofs!TypeCorrect` | `Spec => []TypeOK` | |
| `AccountsProofs!SamePassword` | `Spec => []PasswordsAgree` | |
| `AccountsProofs!WholeUsers` | `Spec => UsersAreWhole` | |
| `FileOpsProofs!TypeCorrect` | `Spec => []TypeOK` | |
| `FileOpsProofs!FilesHaveRows` | `Spec => []FileHasRow` | |
| `FileOpsProofs!RowsHaveFiles` | `Spec => []RowHasFile` | |
| `FileOpsProofs!FilesHaveOneRow` | `Spec => []OneRowEach` | |

The assumptions on constants are in each module (`DownAssumption` and the like): the null values are not members of
the sets they extend, sets of rows and of request threads are finite where they are counted, and bounds are naturals.
"One handler" and "one request thread" are assumptions about who asks, not about the code: section 5 says what
two at a time do. So is `MaxBatch <= 1`, without which TLC finds `PartIsPrefix` and `DoneIsFinished` violated.

The arguments:

- `StoppedIsSwept` is inductive with `TypeOK`: the request that clears a flag goes on to its own sweep, whose keys
  hold every entry registered when it begins; an entry leaves the keys only when it is popped or its flag was on.
- `SlotBound` is not inductive: `check_dic` computes the free slots before its loop. `Shares` of module `Counting`
  counts the pairs of a thread and a row it has still to launch, adds them to the entries, and the sum stays at most
  `count_down` for each thread: when a thread counts free slots it may claim what its own share leaves, whatever the
  others have claimed, for nobody claims more than `count_down`. That such pairs are at most that many is an injection
  into a product, since induction over the number of threads is out of reach. In `BtDown` the pairs include a request
  that may put back an entry whose slot was given away.
- `EntryHasRow` needs what a request has in hand: the rows it picked exist until it launches them, and the row of a
  delete is deleted after its entry.
- `PartIsPrefix` and `DoneIsFinished` are about calm scenes. `OneRequest` says that one request is at work, and which of its
  places imply that all threads have ended; `OneWorker` that a row has one worker, under the entry it was launched
  with; `InStep` that a `Download` thread is where the part file ends. For `DoneIsFinished`, where no thread fails,
  `InTime` adds what is on the disk at each place of a worker (`Stage`), and the output is followed for the rows that
  have it for themselves. `KeptUntilDone` follows from the same invariant.
- `PatientDoneIsWhole` is the invariant "every flag is on" under its premise: a thread then leaves its loop at the seed
  only.
- The theorems on `Upload` have the form: as long as nothing but the upload of `c` happens to the path, an invariant about
  `c` holds. What has happened is not undone (`Undone`), so it is enough to look at the steps of `c`, its request and the
  watcher. `SerialInv` says for each place of the request which chunks are in the file. `ExactInv` says
  that the file is the first chunks, as many as were answered or one more while `c` waits, and that `Tmpfileinfo` counts
  them; so a repeated chunk is told from a new one, except the last, which the index has to tell.
- The theorems on shares rest on one invariant, `Sound(h)`. It says for each step of a request what `samba.json`,
  the rows and the content in hand are to one another: a row exists before its entry, and an entry is gone before its row.
  When the file is truncated, the invariant speaks of what is going to be written. The number `Free` finds is the
  least without a row, by the well-foundedness of the naturals (`WFMin`).
- `FolderIsOwn` adds two invariants. `Tracked`: a share keeps one number in `samba.json`, in `smb.conf`, in what smbd has
  read and in the hands of the request, which is why a late client still writes to the folder of its own share. `Tidy`:
  a folder holds files of the share listed with its number, and a number without a row has an empty folder.
- `AnsweredIsServed` needs that what is about to be written to `smb.conf` is rendered from the `samba.json` of now
  (`Rendered`), and that between requests `smb.conf` is what `samba.json` says (`Between`), for the reboot that comes
  after the answer.
- The theorems on the upload page have no premises: any files, blocks, threads and clicks. Their invariant counts blocks
  with `Cardinality`: of a file in progress and cut, `remaning` is the number of blocks that are not gone, and a block
  that is gone was answered. Hence the block that meets `remaning = 1` is the last one, whichever it is. Whatever
  keeps an upload alive is handed from step to step: a block that leaves the pool orders a tick.
- `SendsInOrder` is a refinement for every file: a step of the page is a step of `ChunkSender` or none. It needs `Ordered`:
  with one thread a block is not on its way before those in front of it are gone.
- `SamePassword` follows a request that is alone through its steps (`Stage`): the row it read is up to date until it saves.
  `AloneIsAlone` says that the others of that user are in `clash`, and `Quiet` is the property for users without requests.
  A command that fails leaves its request no longer alone and its user in `clash`.
- `UsersAreWhole` has the premise that the state stays calm, and its invariant is kept by steps between calm states.
  Requests that do not delete take nothing away, so that each finds at its place what `Position` says; the steps of a
  deletion, which is alone, are followed one by one. A user without a row and with an account is in the hands of a
  `register`.

- `TypeCorrect` of `FileOps` needs the tree as well: `Tree` (a folder lies in a folder that is there, users keep
  theirs), `Stock` (files lie in such folders and are finitely many), `Index`, `Watcher`, and `Request`, what each
  request has read and checked so far. `FolderMoves` shows that a rename of a folder keeps them, `FoundIsThere`,
  `RenamedIsPath` and `RehungIsPath` that the path computed for a row is a path, wherever the old one was found in it.
- `FilesHaveRows` and the two after it hold for any folders, files, number of requests and changes by Samba, with the
  watcher any number of events behind. Their properties speak of a state at rest; the invariants say for every state
  between what is still to come. `Order` is what the request may count on while no mishap happened: `Quiet` (the watcher
  has nothing left to handle of the places the request `Relies` on), `Again` (of a file that is there the last event is
  not its removal), `OnFile` and `OnFolder` (what the request knows of its rows). Under `Order`, `AllServed` is
  inductive: a file has a row, or waits for one (`inserting`, or a "close" event), or is to get the row that the request
  has in hand, under the path the file had before the folder was moved (`photor`) or will have after it (`photofo`).
- `RowsHaveFiles` and `FilesHaveOneRow` share the invariant `Exact`, which is about the other direction: a row is
  `Founded` (its file is there, or its removal is reported, or the row is about to be written anew or changed with its
  folder); the file of a request is there until it has moved it (`OwnFile`); no two rows are of one place, but for the
  pair that `photom` leaves to `Twins` (`Single`); and no row is in the way of those that are changed with their folder
  (`Vacant`). `Heard` says that a file about to be inserted lies in a folder whose removal would be reported. `Exact` is
  not kept by a `photofo` that is going to be refused (`Doomed`): such a request ends in a mishap, so `Accords` leaves
  it out.
- What events do to the queue is stated once, by `Grown`, `Shrunk` and `Retold`, with `Telling` and `Taking` for the
  steps that add and take events; `ShiftAndBack`, `RenamedIsShifted` and `RehungIsShifted` say that the ways in which
  `photor` and `photofo` compute new paths from strings agree with what the move of the folder does to its files, where
  the old path occurs once.

Only model-checked: the liveness properties (`StopTakesEffect`, `LaunchedCompletes` but for its safety half,
`IndexFollowsDisk`, `ButtonComesBack`, `NothingWaits`), since TLAPS has no rules for fairness here. Every invariant and
every other action property that a passing run checks is stated by one of the theorems above.

## 5. Known divergences

Four runs state what the repository says and TLC finds violated (`DownDropped`, `BtStopDone`, `UploadCrash`,
`AccountStale`; see `findings`). The following are seen in the models too, by reading or by TLC, and have no run of
their own.

**URL downloads.** A worker saves the row it was started with: a pause in the meantime is overwritten. A row at work is
also "queued" for the next `check_dic`, which starts a second thread for it. An entry whose thread died keeps
its slot until somebody stops or deletes that row. A `Download` thread that met a network error looks finished, so that
in the presence of errors a partial file is copied and saved as done. Status 1 is saved before the output is closed: a
restart in between loses the tail of a file that is marked as done. A request that names two rows launches the first again
when it starts the second: two workers append to one part file. When a thread ends and frees its slot nothing starts
the next waiting row; that takes another request. Two URLs with the same basename have one output file (`main_down.py`
339-340): the second download truncates the finished file of the first, whose row stays done, and two at work at a time mix.
An entry that is popped between the lookup and the flag raises KeyError: `stopDown` leaves the row as it is and the rest
of the request undone. An entry replaced in between gets the flag while the old thread gets the kill. A stopped thread may
still write its last block while the next one asks for the rest of the file. A server that ignores the Range header and
sends the whole file again is not modelled.

**Torrents.** A thread that ends at status 1 leaves its entry, and the slot stays taken. Adding a torrent again is meant
to replace its row (`btdown.py` 329), but `deleteBT` is given a queryset and the result is a second row. A row
that is deleted under a running thread is inserted again by its next save. `deleteBT` may put back an entry the sweep of
another request has popped, in a slot that was given away since; it also gives up with a KeyError when the entry goes
between its lookup and its pop, and the row stays. A request that started a row it had read before may set one that was
completed since back to waiting.

**Upload.** A retry of the last chunk before the watcher has indexed the file is appended a second time. A retry that
overlaps the first request of the upload makes the server skip other chunks. A chunk that arrives while the file is
deleted is answered with success and not stored. The index takes a file for complete when its first chunk is closed.
A file that goes away between `isfile` (`watch.py` 19) and `getsize` or `open` (26, 44) raises out of the handler and ends
`notifier.loop`: from then on no file gets a row and no row goes. Names that do not decode and tags that do not parse
(`watch.py` 62-77) end it in the same way; that is not modelled.

**Shares.** Two requests at a time may choose the same number, lose one of two changes of `samba.json`, or read a
truncated file. A crash between truncating and writing `samba.json` (`sambactl.py` 71) ends every later share request in
status 500; `Registry` calls this lost. When all 100 numbers are taken, 99 is given out again. A share added while there
is no volume, or a crash inside `delraid`, followed by `createraid`, leaves entries without rows, and their numbers are
given out twice. `delraid` clears `hasraid` before `setnosf`, which may fail. It is answered with success while smbd
still serves the old shares, and the machine reboots five seconds later, in the middle of whatever requests came since.
A client that writes between the emptying of a folder and the restart of smbd leaves files there (`Late` in the model),
which show in the next share of the number. A share named HOME or PUBLIC ends in status 500 with nothing changed.

**Accounts.** A user who is in a group, or in the list of users when a group was made, cannot be deleted: the row stays,
account and home are gone. It is the same when `rmtree` fails on a file that is written into the home meanwhile
(`views.py` 815). The exit status of a command is never looked at: a password that the system refused is saved in the
row, a user whose account could not be made gets a row, one whose account could not be removed leaves it behind, for a
user registered later under that name. The properties leave these users out. Login, logout and the questions save the
whole row they read: a change of the password in between is taken back in the row and not in the system
(`AccountStale`). Two changes at a time may leave the password of one in the row and of the other in the system.
`register` and `deluser` of one name at a time leave a row without an account. Renaming a group changes the row and
never the Unix group.

**Files.** The watcher ends as said under Upload. A watch keeps the path of its folder after a rename: deletions and new
files there never reach the right rows, and delete the rows of a new folder of the old name. Files written to a folder
whose watch is not yet added are not indexed. `filerename` over an existing name replaces that file and leaves two rows.
`photom` into a folder that has the name with another suffix deletes a row of the two. `photofo` changes the rows before
it moves the folder, and when the move is refused they point nowhere. `path__contains` also finds folders of other users
that contain the path. A row object read before the watcher deleted its row is saved as a new row. `photom` of a file
that has vanished saves its row anew.

**Not modelled.** The hazards of `PROJECT.json` without a property name the line and the effect. Most lines of the
repository in JavaScript are libraries (jQuery, plupload, moxie, layer and several versions of WebUploader) and pages
that show what a view answered; the part with a state of its own, which the appliance's page runs, is `WebUploader`. The
C programs and the remaining views are left for the reasons in `PROJECT.json` and section 6: what they do is the outcome
of system commands, or they change one row in one statement.

## 6. Plan

1. *Configuration files* (`AfpShares`): `tmctl.py` with folders, against an abstract registry as for Samba. An empty
   `afp.json` reads as "no shares", which makes its crash behaviour different. `ftpctl.py` in the same module.
2. *Daemons* (`Ssdp`, `SystemInfo`, `Update`): sockets opened again when the number of network cards changes, buffers over
   retries, the loop over connections in which one slow client delays all, an archive checked and unpacked while the
   scheduler downloads it.
3. *Groups*: `Group`, `Usergroup` and Unix groups through create, rename and members.
4. *Composition*: the deletion of an account against shares, uploads and downloads of that user; two requests at a time
   in `FileOps`.

Proofs next: what a composition needs of its parts, and the modules above as they are written.
