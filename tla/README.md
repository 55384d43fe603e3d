# A TLA+ model of clipbeam

clipbeam moves clipboard contents, files and short messages between machines. Most of this
directory models what the *receiver* does with them: how items are saved, queued,
journaled and handed to the commands that read them, by goroutines of one daemon and by
short-lived processes that share nothing with it but a directory. The rest models the *commands*
around it: setup, the push over ssh, and how a client finds its daemon; and the *encodings*
between them.

All paths below are relative to the repository root (`src/` in `PROJECT.json`).

## The system

| component | code | state | operations | talks to |
|---|---|---|---|---|
| agent inbox | `internal/store/waiters.go` `agentFIFO` | queue, parked recv calls, a channel of capacity 1 per call | enqueue, recv, removeWaiter | `/recv`, `/agent-send`, `/clip` through Ingest |
| clipboard channel | `concrete.go` `FinishClipboard`, `waiters.go` `pathWaiters`, `recents.go` | `lastPath` in memory, the files `last_path` and `recents.json`, parked wait calls | commit, append, resume, wait, load at start | `/last`, `/wait`; ingest processes write the same files |
| agent journal | `agentjournal.go` | record files, `.taken-` files | write, list, claim by rename, read, remove | ingest processes write, recv processes drain |
| save pipeline | `concrete.go` `saveStream`, `fsutil.go` | the save directory, the mutex of the store | probe, reserve, temp file, rename, clean up | every push, in every process |
| ingest | `internal/ingest/ingest.go` | running sum, saved paths | save, count, cap, dispatch by channel | the store |
| HTTP server | `internal/httpd` | the slot of `/clip`, temp payload files, open requests | gates, decode, respond, shut down | Ingest, the store |
| JSON stream decoder | `httpd/clip.go`, `jsonstream.go` | reader position | token walk, base64 to temp file | HTTP server |
| CB01 codec | `internal/sshx/cb01.go` | reader position, spill files | encode, decode | send verbs; `clipbeam ingest` |
| SSH transport | `internal/sshx` | connections, `known_hosts` | dial, trust on first use, run, forward | send and setup verbs |
| gates | `classify`, `auth`, `httpd/gate.go` | none | classify a source, compare tokens | HTTP server |
| sanitizer | `internal/sanitize` | none | safe leaf names, collision names | save pipeline |
| read verbs, watch | `cmd/clipbeam/cli/verbs_read.go`, `verbs_watch.go` | none between calls | last, wait, recv and their fallback to the disk | daemon, journal |
| serve, ingest | `verbs_serve.go`, `verbs_ingest.go` | process life | start, stop, one frame per process | all of the above |
| send, setup, config, aliases, token | `verbs_send*.go`, `verbs_setup*.go`, `internal/config` | configuration files, remote host | push, install, edit | SSH transport |
| help, schema, skill, tailscale status | rest of `cli`, `internal/tailscale` | none | text | nothing |

What is hard about it:

* **one inbox, many recv calls that time out** while items arrive for them;
* **memory and disk are written at different times**, the disk without any lock, and by
  several processes;
* **a claim by rename** among processes that may be killed between any two file operations;
* **names of files are chosen and then created**, in a directory that others write to;
* **a cap that is checked after the write**, in the middle of a batch that others can see;
* **two ways for an item to travel** (memory and journal), chosen by whether a daemon happens
  to run, on the sending and on the receiving side independently;
* **remote processes outlive the connection that started them**, and take a cut for the end of
  their input;
* **files of the laptop and of the boxes are read, changed and written back without a lock**, by
  commands that may run at the same time;
* **values are taken from a stream without looking ahead**, through buffers of any size.

What makes each part correct:

* inbox: every item goes to exactly one call, in order, and no call sleeps beside an item;
* clipboard channel: memory and file agree when nobody is between them, a waiter is told a
  path that is on disk, the ring holds the newest entries in order;
* journal: an item is claimed once, in FIFO order, and is either printed or was lost with
  a process that was killed;
* save pipeline: a saved file is under the name that was returned, and only there; nothing of
  another program is touched; a failed save leaves nothing;
* ingest: the response tells what is on disk;
* delivery: what was accepted is somewhere, and a recv that is called often enough gets it;
* ssh: a connection is only open to a box whose key is pinned; a push reports success only when
  the box has every item, whole; what a cut leaves on the box is known;
* setup: one that reports success has left a whole binary, the laptop's token and a default alias;
* control socket: a client that is sent to the disk has no daemon to ask;
* encodings: what is read is what was written, and the reader goes on exactly behind it.

`PROJECT.json` lists the hazards line by line, with the properties that watch them.

## The modules

| module | models | one action is |
|---|---|---|
| `Inbox` | what the inbox promises: put, take, wait, give up | one call's effect |
| `Directory` | what a save promises the directory that it saves into: claim a name, fill it, give it back | one name changes hands |
| `RecordQueue` | what the journal promises: begin, put, take, print, lose | one record's effect |
| `AgentInbox` | `agentFIFO` and its callers | one critical section, one channel operation or one return |
| `ClipChannel` | `FinishClipboard`, `pathWaiters`, `recents.json`, restart | one critical section, one file operation or one channel operation |
| `AgentJournal` | the journal directory: writers and drainers | one file operation |
| `AgentDelivery` | `AgentJournal` and the daemon's inbox, as `clipbeam recv` meets them | as above; the inbox is the abstract one |
| `SavePipeline` | `saveStream`, `uniqueLeaf`, `reserve`, `writeAtomicFsync` | one lock, `Lstat`, create, rename or remove |
| `Ingest` | the loop over the items of a push | one effect that another request can see |
| `HttpClip` | `POST /clip` from the gates to the release of the slot, and the stop of the daemon | what a handler does between two points that others can tell apart; one item decoded |
| `Hosts` | the files of the laptop and the boxes, host keys, connections and remote processes | one read or write of a file that another call can see, or one event of the network |
| `Push` | the push over ssh and over the tailnet, the CB01 decoder, `clipbeam ingest` | a step of the sender; one unit of the frame that arrives |
| `Setup` | `clipbeam setup`, by every route, and the remote commands it runs | a step of `runSetupBootstrap`; one command of a remote shell line |
| `ControlSocket` | `clipbeam serve` as a listener, and the client that looks for it | one system call on the socket path or the port |
| `Cli` | the composition of these, for calls that run at the same time | as above |
| `JsonStream` | the JSON readers of `/clip` | one byte, escape, token or `Read` |
| `JsonValues` | the grammar of these values, by which the readers are judged | |
| `Names` | the sanitizer and the collision numbers | one save |
| `RecvBody` | the labelled body of `/recv` and its parser | one line |
| `Encodings` | these three side by side | as above |
| `MC...` | the small instances | |
| `SequenceLemmas` | lemmas about sequences, their first and last places and their prefix sums | |
| `AgentInboxProofs`, `ClipChannelProofs`, `AgentDeliveryProofs`, `IngestProofs`, `HttpClipProofs`, `CliProofs` | theorems about the modules that they are named for, each in the module beside its own | |
| `PayloadProofs` | theorems about what happens to one payload: `SavePipeline`, `Names`, `RecvBody`, `JsonStream` | |

How they compose: `AgentDelivery` extends `AgentJournal` with the daemon, whose inbox it takes
at the level of `Inbox`; `AgentInbox` is shown to implement `Inbox`
(`RefinesInbox`), which is what allows it. In the same way `SavePipeline` implements `Directory`
(`RefinesDirectory`) and the journal within `AgentDelivery` implements `RecordQueue` (`RefinesQueue`); both
abstract specifications say where the code falls short, as a step of its own: a save
may lose both of its reservations and end somewhere else (`Stray`), and once two records have the same name nothing more is
promised (`NothingPromised`). `Ingest` takes from `SavePipeline` that paths are
distinct, and stands for the callers of the inbox and of `ClipChannel`'s savers. `HttpClip` is
what surrounds `Ingest` in the daemon: there, all of Ingest is one step with any of its verdicts.
`Push`, `Setup` and `ControlSocket` extend `Hosts`, each with the calls of some verbs, and `Cli`
interleaves them: a setup replaces the binary that a push is about to start, and writes the
token that a daemon has already read. In `Push` the store is a set of accepted items; what
happens to them there is `Ingest` and the modules below it. `JsonStream` is the inside of
`HttpClip`'s `DecodeItem`, `Names` that of `Candidates` in `SavePipeline`, and `RecvBody` that of the
answer which `AgentInbox` and `AgentDelivery` return.

### State and code

* `AgentInbox`: `queue` and `waiters` are the fields of `agentFIFO`; `ch[r]` is the channel
  that recv call `r` made (a call has one, so the channel is named by its call); `pc`
  stands where the goroutine is between two points that others can tell apart. The loop in
  `enqueue` runs under the lock and is one step. Go's `select` chooses freely among ready
  cases: `CtxDone` is enabled also when the channel is full. `sent`, `handed` and `returned`
  are history.
* `ClipChannel`: `lastPath`, `disk` and `recents` are the memory and the two files; a saver is
  one call of `FinishClipboard`. A file write is a temp file and a rename, hence one step; a
  read and a write are two. The channel of a wait call has capacity 1 and the send is
  disabled while it is full, so a send that could block would. `taker`, `written`, `log`,
  `apart` and `rewound` are history; the last two record that two savers overlapped, and the
  properties say what holds without that.
* `AgentJournal`: `journal` and `taken` map names to items. A name is a time and a sequence
  number that each process counts from 1. `clock` moves while a record is written (an fsync
  and a rename), so that names drawn between the same two writes have the same time: two
  processes can draw the same name, which `collided` records. As a `RecordQueue`, an item is promised
  from the draw of its name, stored from the rename that completes its record until a drainer's rename, and then
  in that drainer's hands until it is printed or the drainer dies.
* `AgentDelivery`: `up` and `fifo` are the daemon. A recv call is a cycle through `rpc`:
  dial, then poll, or list, claim, read, remove and print.
* `SavePipeline`: `file` maps each name to `Absent`, `Empty` (reserved), `Foreign` or
  the save whose payload it holds. `Candidates[s]` is what `uniqueLeaf` will try for a save,
  so one save's collision name can be another's leaf. As a `Directory`, a name is claimed while a save holds its
  reservation, and filled from the rename of the temp file; a probe, a lock or a failed create is a stutter.
* `Ingest`: `envelope[r]` is drawn at the start; `total`, `saved` and `result` are the locals
  of the loop. For an ingest process `fifo` stands for the journal, which is why handing
  over may fail.

* `HttpClip`: `pc` follows `handleClip` with its two deferred calls, `slot` names the request
  that holds the channel's one place, `listed` is `tmpFiles`. The body arrives item by item
  (`arrived`), and the connection may break at any point (`gone`). `daemon` is "stopping"
  from the signal until `Serve` has returned and the process is gone.
* `Hosts`: a call (`Calls`) is one run of a command, `job` its arguments, `pc` its place in the
  verb's function, `code` its exit status. `proc[c]` is the remote process of its exec session: `prog` and
  `at` say which command it is and where it stands, `left` how many units of stdin are still to
  come. `knownHosts`, `token` and `aliases` are files of the laptop, `bin`, `tmp` and
  `rtoken` files of each box. `db[c]` is `known_hosts` as the call parsed it, once. The binary under a
  path is named by the call that created the file; `bytes` says what has been written to it, because `cat`
  writes through its descriptor wherever the file is moved meanwhile.
* `Push`: a frame is one unit for the header, one for each item's metadata and one for each byte of
  payload; the sizes that matter are those around the cap. `spills` are the temp files of
  `spillPayload`, `taken` what the store accepted, with whether it was whole.
* `Setup`: the verb's steps in order; `snap` is the alias store between `LoadAliases` and
  `SaveAliases`. `&&` chains of a remote shell are one step per command.
* `ControlSocket`: `sock` says which daemon bound the file under the path, whether or not that
  daemon still listens; closing unlinks the path, whoever's socket is there.
* `JsonStream`: bytes are symbols, one for each kind that the reader tells apart; the four digits of a
  `\u` escape are one symbol. `room` is what is left of the caller's buffer, `pending` the bytes
  of an escape that did not fit. `closers` is the stack of open containers, as deep as the value.
  The reader's reference is `JsonValues`, which knows nothing of buffers, loops or steps: a value brings the
  marks between its parts, and for each part the grammar says what may stand there, what it
  means, what is open behind it, and where a value ends, is cut short or is broken. It is laxer than
  JSON about commas and colons, which only widens what the claim covers. `MCEncodings` finds the marks of its values by
  reading them once, and TLC checks that they fit the grammar.
* `Names`: a name is a sequence of symbols (`Runes`), of which `Numerals` are the collision numbers, least first;
  `saved` is what was saved, under which name.
* `RecvBody`: a body is a sequence of labels, separators and payload symbols; one turn of the loop of
  `parseRecvBody` is a step.

## The runs

| run | instance | shows |
|---|---|---|
| `AgentInbox` | 3 recv handlers (1 polls for ever), 3 items, batches of 1 or 2 | `NoLostWakeup`, `SendNeverBlocks`, `ServedInParkOrder`, `RefinesInbox`, `EveryItemReturned` |
| `ClipChannel` | 2 savers in the daemon, 1 ingest process, 2 wait calls, ring of 2, 1 restart, failing writes of two savers | `SendNeverBlocks`, `AnswersAreWritten`, `LastPathSettles`, `RecentsInOrder`, `CallsEnd` |
| `AgentDelivery` | 2 ingest processes (3 records), 1 push, 2 recv clients, all faults | `ExactlyOnce`, `ClaimedInOrder`, `RefinesQueue`, `CallsEnd`, `JournalDrains` |
| `SavePipeline` | 4 saves in 3 processes, 5 names, 1 name of another program, 1 process that may be killed | `NamesAreOwned`, `NoLitter`, `RefinesDirectory`, `SavesEnd` |
| `Ingest` | 2 requests out of 10 envelopes of up to 3 items, cap 3 | `ResponseTellsDisk`, `LastPathExists`, `BatchOrder` |
| `HttpClip` | 2 requests out of 6 (source, token, length, items), 3 listen modes, 1 stop | `TempsAreOwned`, `BusyTellsOfAPush`, `SlotComesFree` |
| `Cli` | 80 casts of up to 3 calls on 2 boxes: two setups, sends of 1 to 3 items, posts, a send beside a setup, two daemons and a client, a daemon beside a setup; 1 cut, 3 host keys | `OnlyTrustedHosts`, `SuccessMeansDelivered`, `CutsAreContained`, `SetupMeansReady`, `DaemonIsReached` |
| `Encodings` | strings of up to 3 pieces, nested values and all their prefixes, buffers of 1 to 3 bytes; every name of up to 4 symbols, saved three times; texts of up to 4 symbols | `ValuesAreConsumedWhole`, `NamesAreSafe`, `BodiesComeBack` |
| `ClipChannelLost` | as `ClipChannel` | refutes `ParkedAreResumed` |
| `AgentDeliveryStranded` | 1 ingest process, 1 client | refutes `JournaledIsReceived` |
| `IngestDangling` | as `Ingest` | refutes `InboxFilesExist` |
| `HttpClipStop` | as `HttpClip` | refutes `InFlightIsAnswered` |

Two properties of the proofs are checked by no run, since the refinements imply them: `ExactlyOnce` of `AgentInbox`, and
`ForeignKept`.

Each property has a mutant of the code in `PROJECT.json` under which it fails; the mutated
operators stand beside the originals, marked `mutant`.

The bounds, and why they are enough. *Inbox*: three handlers are one that is served, one that
is passed over and one that times out; batches of two reach the case of more items than
waiters and the case of fewer. *Clipboard*: two daemon savers and a foreign one give every
overlap of two writers and a third that reads in between; a ring of two overflows with the
second append. *Journal*: three records by two writers give order within and across
processes and a name collision; two drainers give every race for a record. *Saves*: three
that want one leaf and a fourth whose leaf is their second candidate give a reservation that is
lost twice, which needs two competitors outside the process. *Ingest*: the sizes fall
on, one under and one over the cap at the first, second or third item. *Clip requests*: one holds
the slot while the other comes, at each step of the first; there is a request that each gate
refuses, and one more stop would repeat the first. *Commands*: the interference of two setups needs
two; a third call is there as the client of two daemons. A binary of two units can be half there;
frames of three items have one that is spilled while nothing is saved, one that is spilled behind
it, and one read off the wire. A second cut would hit a connection of its own, and nothing is shared
between connections but files. *Encodings*: an escape yields up to four bytes, so buffers of up to three split each
in every way; what the readers remember between two pieces is `pending` and `closers`, which
pieces of two levels and three in a row exercise. A name of four symbols with a cap of four, and
longer ones, fall on both sides of each rule.

`Cli` and `Encodings` do not check deadlock: calls end, and with them everything.

The four refuted properties are statements of the repository that the code does not keep; see
`findings`. In short: a `wait` that times out at the wrong moment loses the path it was to be
resumed with; with a daemon running, `recv` does not see what arrived over ssh; the
agent file that trips the cap is deleted after its path was queued; and a daemon that is told
to stop exits without waiting for the requests it has accepted.

### What the passing properties except

Some properties hold only with an exception that the code makes. Each is written into the property, so
that the rest of the claim is checked, and listed under `hazards`:

* a connection cut within the *last* payload of a frame leaves a short file that the box saves as
  a whole one, although the decoder's documentation has it refused (`cb01.go:63-65`, `:218`); the sender
  does learn of a failure (`CutsAreContained`);
* an item that cannot be saved leaves the spills of those behind it (`verbs_ingest.go:81`);
* a box that downloads the release itself may report success without a binary: the pipe into
  `sh` has the status of `sh` (`verbs_setup_release.go:77`); two setups of one box write to
  one temp name (`verbs_setup_run.go:237`) (`BinaryReady`);
* a token store that refuses to answer counts as empty, and a new token replaces the one that
  other boxes have (`verbs_setup_run.go:261`) (`TokensShared`);
* an alias saved between the load and the save of another setup is lost (`verbs_setup_run.go:304`)
  (`AliasesKept`);
* two calls with `--accept-new-hostkey` may pin two keys for one box (`hostkey.go:31`) (`OnlyTrustedHosts`);
* a second daemon unlinks the live socket of the first, whose clients then go to the disk
  (`socket_unix.go:43`), and the socket of a killed daemon hides one that listens on TCP
  (`control.go:54`); a daemon keeps the token it started with (`verbs_serve.go:46`) (`DaemonIsReached`);
* a text whose only newline is its last byte comes back without it (`recvparse.go:57`, where the comment at
  52 says it keeps it), and one that begins like a correlation token loses that beginning; the claim is about
  correlation tokens as the inbox makes them, without a bracket or a newline (`BodiesComeBack`);
* a save whose second reservation fails too goes on without one, and its rename may replace another's file
  (`concrete.go:176`, the `Stray` step of `Directory`), and two records that two processes give the same time
  and number are one file (`RecordQueue` promises nothing after that);
* a number with a fraction *and* an exponent is left unread at its `e` (`clip.go:615`, where the comment at 613
  names exponents as handled) (`ValuesAreConsumedWhole`).

### Fairness

* Goroutines and processes that can run do run: weak fairness of each one's own steps.
* A poll or wait has a deadline (`context.WithTimeout` in `handleRecv` and `handleWait`), so its
  context ends: weak fairness of `CtxDone`.
* Somebody calls again only where a client loops: `watch` in `AgentInbox` (`Pollers`), and the
  clients of `AgentDelivery`.
* The client of an accepted push goes on with its body or breaks the connection
  (`Send`, `Break`). The code does not enforce it: the server has no read timeout, and a client
  that stalls keeps the slot of `/clip`. `SlotComesFree` is about the server under this premise.
* `Cli` has no fairness and no liveness: an exec session has no timeout, and a cut may go
  unnoticed, so that a push may wait for ever. `Encodings` is sequential, and its properties are
  about what has been read.
* Nothing is assumed of other pushes, kills, failures, and the daemon's starts and stops.
  `JournalDrains` states its own premise, that the daemon stays away in the end.

## The proofs

Every theorem holds for all values of the constants that satisfy the assumptions of its module: any
number of calls, processes, requests, items, boxes and cuts, frames and batches of any length. The
runs check the same properties on their instances.

| theorem | property | module |
|---|---|---|
| `TypeCorrect` | `TypeOK` | each proof module |
| `NoLostWakeupHolds`, `SendNeverBlocksHolds`, `ExactlyOnceHolds`, `FIFO` | `NoLostWakeup`, `SendNeverBlocks`, `ExactlyOnce`; arrival order | `AgentInboxProofs` |
| `ServedInOrder` | `ServedInParkOrder` (of steps) | `AgentInboxProofs` |
| `Refinement` | `RefinesInbox` | `AgentInboxProofs` |
| `SendsNeverBlock`, `AnswersWereWritten` | `SendNeverBlocks`, `AnswersAreWritten` | `ClipChannelProofs` |
| `LastPathsAgree`, `RecentsKeepOrder` | `LastPathSettles`, `RecentsInOrder` | `ClipChannelProofs` |
| `ClaimsKeepOrder`, `ItemsAreInOnePlace` | `ClaimedInOrder`, `ExactlyOnce` | `AgentDeliveryProofs` |
| `JournalIsAQueue` | `RefinesQueue` | `AgentDeliveryProofs` |
| `ReservationsAreExclusive`, `NoReservationIsLeft` | `NamesAreOwned`, `NoLitter` | `PayloadProofs` |
| `OthersFilesSurvive` | `ForeignKept` (of steps) | `PayloadProofs` |
| `KeepsItsPromise` | `RefinesDirectory` | `PayloadProofs` |
| `NamesAlwaysSafe` | `NamesAreSafe` | `PayloadProofs` |
| `BodiesAlwaysComeBack` | `BodiesComeBack` | `PayloadProofs` |
| `ValuesAlwaysConsumed` | `ValuesAreConsumedWhole` | `PayloadProofs` |
| `ResponsesAreTrue`, `CommittedFilesExist`, `BatchesKeepOrder` | `ResponseTellsDisk`, `LastPathExists`, `BatchOrder` | `IngestProofs` |
| `TempFilesAreOwned` | `TempsAreOwned` | `HttpClipProofs` |
| `BusyIsDeserved` | `BusyTellsOfAPush` (of steps) | `HttpClipProofs` |
| `PayloadsFit` | of `HardCeiling` and `Encoded` | `HttpClipProofs` |
| `TrustIsPinned` | `OnlyTrustedHosts` | `CliProofs` |
| `SuccessIsDelivery`, `CutsStayContained` | `SuccessMeansDelivered`, `CutsAreContained` | `CliProofs` |
| `DaemonsAreReached` | `DaemonIsReached` | `CliProofs` |
| `SetupsAchieve` | `SetupMeansReady` | `CliProofs` |

Each module has an inductive invariant, `IInv`: what follows from `Init`, is kept by every step, and
implies the properties. (`PayloadProofs` has one for each of its components, and `AgentDeliveryProofs` two more, each
inductive given the ones before.) What they add to the properties, and why:

* `AgentInboxProofs`. `NoLostWakeup` and `SendNeverBlocks` keep each other: that a listed channel
  is empty needs that a call unlists itself before its last receive. `ExactlyOnce` is not
  inductive alone: a step that hands an item to a call must know that nobody has it yet. Hence
  `SentOnce` (items are distinct, the guard of `Enqueue`), `HandedInOrder` (what was sent is
  what was handed followed by what is queued) and `OnlyHanded` (whoever holds an item holds one that was
  handed out). The refinement maps a call to "waiting" while it is listed and to "answered" once
  an item is in its channel (`CallOf`, `AnswerOf`); `Enqueue`, which puts a batch and hands part of it out
  at once, is one step of `Inbox`.
* `ClipChannelProofs`. A send outside the lock finds the channel empty because a listed call was
  never taken, and one that was taken is in the hands of one saver, which has written its path
  before (`Served`). Memory and disk agree because, while nothing has set them `apart`, at most
  one saver is between the two (`InStep`). A ring that a saver has read is a ring of appended
  paths, and is the latest one unless somebody wrote in between (`Ring`).
* `AgentDeliveryProofs`. `Names`: times on the clock only grow, so a name still to be written is
  greater than all written before, and, unless two writers drew one name, a record is journaled
  or claimed by one drainer. `Placed`: an item is in one of journal, claim, daemon or
  client. `Ordered`, the one that carries `ClaimedInOrder`: a drainer that still has a name to try
  has all the smaller ones to try that were there when it listed. For the refinement, `Routed`: what was pushed to the daemon
  is in no record, and what a call was answered by the daemon was pushed to it, so the two ways never cross and
  a daemon's step is a stutter of the queue (`Known` only types the flag `collided`). That a claim passes over
  no older record is `Ordered`.
* `PayloadProofs`, saves (`IInv`): `NamesAreOwned` and `NoLitter` are inductive with the types. The refinement
  maps a reservation to a claim and a failed second reservation to a straying.
* `PayloadProofs`, names (`NamesInv`): no leaf that `Sanitize` yields has a parenthesis, so a name with a
  number tells the leaf and the number (`NumbersTellApart`), and a new name gets a number that none
  of those before has.
* `PayloadProofs`, bodies (`RecvInv`): what is left to read is one of the labelled lines with all that stands behind
  it, and what was read is what was told there. That the parser finds the end of each line is about the first newline
  of a concatenation (`SequenceLemmas`).
* `PayloadProofs`, values (`JsonInv`): the reader is at a mark of the value, its stack is the containers open there,
  and what it gave together with what is pending is what the string stands for up to there. So it cannot end before the last
  mark, which alone is neither in a string nor in a container, and a `Read` with any buffer only moves
  bytes from pending to given. That the reader's escapes are the grammar's is said both ways: each escape of
  the table is read as it says (`EscapeRead`), and nothing else is (`EscapeFound`).
* `IngestProofs`. The books of a request at the item it is at: `total` is the sum of the counted
  items before, and on disk are exactly the files before (`Books`). Nothing past the current
  item is handed over, so order and uniqueness follow. A committed path is of a request that
  has ended, whose files nobody removes.
* `HttpClipProofs`. The slot is with a request that passed every gate; nothing is listed before the
  decoder starts; a temp file of the push in flight is on its list or was overwritten.
* `CliProofs`. `Typed`: besides the types, that a call takes the steps of its verb and that a
  remote process runs over a connection. `Pushed`: the place of the decoder in the frame is
  what the box has of it: whole items up to there, spills of those behind that were read, and a short
  item only if the connection is cut and it is the last. `Trusted`: a call is connected only to a key
  that is pinned; each key was pinned by a call that had found none for its box, or was there first.
  `Reachable`: on a box where no two socket daemons have met there is at most one that is between
  its start and its end, so the path that it has bound stays its own; a client that is about to
  ask the socket found a daemon or the box is `deserted`; what a daemon or client holds is the
  box's token unless a setup has written another. `Achieved`, for setups: whatever is active beside a
  setup that met no other began after it (`Overlaps`); the token that a setup copies is the laptop's
  until one is saved over another, and while the box has an empty token file somebody has still
  to write it or to fail (`Copying`); a file stays on the box of the setup that created it
  (`Owners`), and the file that a sole setup moves into place holds what it has received
  (`Placing`); the alias of a setup that met no other is in the store, and in everything that
  has been loaded from it since (`Recording`).

The assumptions are about constants only. `NamesAssumption` says that `Runes` has the symbols that the sanitizer looks
for, that no numeral stands for two numbers, and that a dot, a slash or a parenthesis is none; `BytesAssumption` that `Bytes` has the labels of a
body; `JsonAssumption` that `Symbols` has the symbols of an escape and that the end of a body is none; `WorksAssumption` that
values fit the grammar of `JsonValues`, correct, cut or broken, and that items and deliveries are written with the symbols named. `InboxAssumption`, `ClipAssumption` (of both modules),
`SaveAssumption`, `DeliveryAssumption`, `HostsAssumption` and `PushAssumption` say what
kind of value each constant is and that the markers of absence are none of the real values.
`JournalAssumption` says besides that two items of the frames are two items: payloads with equal
contents are still two deliveries. `IngestAssumption` types envelopes. `HostsAssumption` also names the
two binaries that were there before any call apart from those that a call creates. `WorldsAssumption`
says what the command line and the files of the laptop can be at the start: a push has something to
send (a verb makes at least one item, and `buildEnvelope` refuses none), a setup, a daemon and a
client of one have a box of their own, a daemon listens on a socket or on a port, and the alias
store is one that setups have written, since nothing else writes it. TLC evaluates each in the runs.

Sums and orders are written so that they can be reasoned about: `SumTo` and `Counted` are recursive
functions on an interval of naturals, about which `PrefixSums` in `SequenceLemmas` says what is needed, and
`SortedNames` is *the* sequence that lists a directory's names in order, of which `AgentDeliveryProofs`
shows that there is one. `accepted` in `Hosts` is history: which call pinned which key, from which
`OnlyTrustedHosts` tells two racing calls from a changed key.

Only model-checked:

* everything about liveness (`EveryItemReturned`, `CallsEnd`, `JournalDrains`, `SavesEnd`, `SlotComesFree`):
  temporal reasoning with fairness and ENABLED is out of the prover's reach;
* that a text of JSON has marks that fit the grammar: the theorem is about values that bring theirs. What finds them
  in a text is recursive (`MarksOf` in `MCEncodings`), and that it always does would be an induction over data, which this
  prover cannot do; TLC evaluates it for every value of the run (`WorksAssumption`);
* the four refuted properties, which are false.

## What is not modelled

* Contents: payloads are model values, or as many bytes as they have. Base64 and the framing
  of integers and strings within a CB01 unit are taken to work.
* The HTTP server's handlers that keep no state (`/health`, `/last`, `/push`). `internal/classify` and
  `internal/auth` are pure functions of one request: `HttpClip` takes a push's class and whether its
  token is right as inputs. Whether a length is over the
  ceiling is an input; that the ceiling leaves room for any payload within the cap is `PayloadsFit`.
* `ssh_config` resolution and authentication, which end in a connection or in a failure; `Forward`,
  which no verb calls; what `install.sh` does beyond moving a whole file into place; the
  parsing of `tailscale status`; a retry, since no verb has one.
* `config.json`, which is only read, and the UTI table, of which a fallback name takes one entry.
* The lock of `watch`'s output. Its clipboard loop is no module of its own: each turn is a wait call of
  `ClipChannel`, and what is saved between two turns is reported by nobody.
* Help, schema and the generated skill: text.
* A socket of another user under the path, which is a refusal.
* File-system faults other than a failed write: a directory that cannot be listed (the
  call ends and changes nothing), a rename that fails for a record that is still there, a stat
  that fails for a file that exists.
* `saveTextToDisk` is taken to be off; on, every clipboard text is a file.
* Power loss: what fsync and the rename without a directory sync leave after one.

## The plan

1. The setup of a box as an abstract specification of its own (a box is bare, ready or half made), which `Setup`
   implements while no two setups meet.
2. `PayloadsFit` for a sum of payloads, each of which rounds up to whole groups of base64.
