# Corust in TLA+

Models of [Corust](../src/README.md), a collaborative Rust playground: TLA+
modules, TLC configurations that check them on small instances, and proofs that
TLAPS checks for every instance. Paths below are relative to `src/`.

Run a check with `tlc -config MCCollab.cfg MCCollab.tla`, the proofs with
`tlapm CollabProofs.tla`. `PROJECT.json` lists runs, mutants, theorems, hazards
and the lines of code every definition stands for.

## 1. The system

A page (`site/`) holds a `Client` (Rust, compiled to WebAssembly) and a
websocket. The web server (`rust/app`) keeps for each session a `Server` behind
a read-write lock, a broadcast channel, a run flag and the last output. Code
runs in docker containers (`rust/sandbox`).

| Component | State | Operations | Interacts with |
|---|---|---|---|
| Text operations, `rust/transforms` | none | `transform`, `compose`, `apply`, `condense`, conversion from and to editor changes | called by client and server |
| `Server`, `rust/components/src/server` | `document_states`, `current_state_id`, `users`, `user_doc_states`, cursors | `apply_client_operation`, `prune_document_states`, `add_user`, marking users | called by connection tasks under the session's lock |
| `Client`, `rust/components/src/client` | `document`, `last_server_state_id`, `client_bridge`, limiters, cursors | `update_document`, `prepare_send_local_update`, `handle_server_message` | called by the page's event loop |
| Connection task, `rust/app/src/websocket.rs` | socket, broadcast receiver, ping timers | join, text messages, close, pong, forward, inactivity check | `Server`, broadcast channel, execution |
| Rate limiter, `client/rate_limiter.rs` | tokens, last refresh | `send_one`, `send_many` | `Client` |
| Cursor maps, `network/cursor.rs` | cursor per user | transform past an operation | `Client`, `Server` |
| Code execution, `rust/app/src/execute`, `handle_execution` | run flag, code output state | request, run, stream, drop of the notifier | containers, broadcast channel |
| Containers, `rust/sandbox/src/container.rs` | semaphore, child process, three I/O tasks | create, execute, stream, join, query a version | execution, metadata requests, runner |
| Runner in the container, `rust/sandbox/src/bin/runner.rs`, `runner.rs`, `codec.rs` | tasks of its standard streams and of those of the program, one shared response | run one command, send what it prints, end | containers, through pipes |
| Sessions, `sessions.rs`, `users.rs`, `background.rs`, `db.rs` | session map, user tables, documents | create or restore, join, rename, remove users, archive | every other part of the web server |
| Cache, `cache.rs` | one value | get or regenerate | metadata requests |
| Simulated network, `network/mod.rs` | heap of events, clock, components, delays | schedule, run, fire | `Server` and `Client` through adapters; tests only |

What is hard:

* **Concurrency.** Connection tasks, two background tasks, two tasks for every
  run and every page's event loop interleave. Locks are short: the server lock
  is released between applying an operation and broadcasting it, the run flag
  is cleared before the end is announced.
* **Failure.** Connections end at any time with messages in them; a failed
  operation ends the connection's task by a panic; users are marked inactive by
  other connections.
* **Ordering.** Clients rely on receiving every state in order, which nothing
  guarantees them (section 6); the server on knowing the state an operation was
  made for.
* **Limits.** The broadcast channel (100), the channel of a run (8), permits
  (8), output size, the document size, rate limits.

What makes each part correct:

* operations: transforming two concurrent ones against each other converges and
  keeps what both users typed; composition is composition;
* server and client: no edit takes effect twice or out of order; and, as long as
  what a client receives is the history in order, everybody ends with one
  document, nothing received fails to apply, and the states a late operation
  needs are still there;
* connection: every state after the snapshot is forwarded, in order unless tasks
  overlap, and what pages show of users and configuration is the session's in
  the end;
* execution: one run per session, a flag that is always given back, requests
  that end, output that belongs to the stored command, a bounded number of
  containers;
* container and runner: what is delivered is what was printed, all of it when a
  run succeeds, and nothing waits for ever, whoever fails;
* simulated network: when it stops everybody agrees, on every schedule;
* limiter: no more than the rate over time; sessions: nothing that was
  accepted is lost between memory and database, a join never fails.

## 2. Modules

| Module | What it is |
|---|---|
| `TextOps` | The algorithms of `xforms.rs` and `ops.rs` as recursive operators |
| `TextUpdates` | Between the editor and operations: conversions of `xforms.rs`, `edit_ops` of `ops.rs` |
| `Cursors` | What an operation does to a cursor, `cursor.rs` |
| `MCTextOps` | Reference definitions and the properties of these algorithms over bounded inputs |
| `Collab` | The protocol: server, clients, connections, over any operations |
| `CollabLaws` | What `Collab` asks of operations, as named assumptions |
| `SharedLog` | What the protocol promises, abstractly; `Collab` implements it |
| `MCCollab` | `Collab` over a register: the smallest operations that satisfy the laws and do not commute |
| `MCCollabText` | `Collab` over `TextOps` |
| `CollabProofs` | Proofs about `Collab`: which interleavings disturb a client, and that what any other receives applies to what it has; one operation at a time, the states it needs, the refinement of `SharedLog` |
| `Connection` | The connection tasks of one session at the steps at which they let go of a lock |
| `MCConnection`, `ConnectionProofs` | Its instances and proofs |
| `Execution` | Run requests, their two tasks, the channel, permits and containers |
| `MCExecution`, `ExecutionProofs` | Its instances and proofs |
| `Sessions` | One session id: joining, connecting, idle users, archiving, the database |
| `MCSessions`, `SessionsProofs` | Its instances and proofs |
| `Sandbox` | One run, or one version query, in a container: application, runner and program |
| `OutputStream` | What streaming promises, abstractly; `Sandbox` implements it |
| `MCSandbox`, `SandboxProofs` | The instance of `Sandbox`, proofs about ends and failures, and the proof that it implements `OutputStream` |
| `SimNetwork` | The network of the tests with server and clients |
| `MCSimNetwork`, `SimNetworkProofs` | Its instance and proofs |
| `RateLimiter` | The token bucket of the client; checked in `MCTextOps` |
| `AlgorithmProofs` | Proofs about the algorithms of `TextOps`, `TextUpdates`, `Cursors` and `RateLimiter`, for inputs of any size |
| `Recursion` | Lemmas on induction, recursive functions and sequences, used by the proofs of `TextOps`, `Collab` and `SimNetwork` |

### Text operations

A document is a sequence of characters, an operation a sequence of `Retain`,
`Delete` and `Insert`; lengths are computed as in `from_ops`. `TextTransform`
and `TextCompose` follow the loops of the code one step per recursion, including
`condense`. Ids and the `is_transform` mark are left to `Collab`.

The editor (CodeMirror, external) counts places and lengths in units of UTF-16,
the code in characters, and the page passes the numbers on
(`mainPage.tsx:383, 913, 954`). `TextUpdates` has both: `Units` is a document as
the editor sees it, in which the characters of `Wide` are two units; `Reported`
is what an editor reports when its user does something, `Dispatch` what an
editor does with the changes it is told. `Collab` takes edits as operations on
characters, which is what `EditConverted` proves them to be as long as no
character of the document is wide.

A cursor is a range and a direction. What it should be is said by marking every
character with where it is from (`Traced`): `CursorFollowsText`.

### Collaboration

| Variables | Code |
|---|---|
| `log` | operation and document of each state, history included |
| `kept` | the keys of `document_states` |
| `users`, `activeUsers`, `userDocStates` | `users`, `activity.active`, `user_doc_states` |
| `open`, `starting` | the connection's task runs; it has subscribed and not yet sent the snapshot |
| `applied` | the update a task has had applied and is about to broadcast, with the state id once it has read it |
| `toServer`, `toClient` | the websocket both ways; broadcast channel and socket are one queue for each client |
| `status` | the page: absent, opening its socket, joining (waiting for the snapshot), synced, panicked, socket closed |
| `document`, `lastServerStateId`, `clientBridge` | the fields of `Client` |
| `edits` | bound: edits made |
| `lapsed` | history: since the connection opened, its user was not active all the time or had another connection |
| `disturbed` | history: since the connection opened, broadcasts have overlapped while the client listened, or its snapshot holds an update that is still to come |

`Clients` are pages, and `User` is the user of each. A user may have several
pages, one after the other (a reload keeps the id, `userJoin.ts:19`,
`users.rs:300`) or at once, and the task of a connection may outlive its page.
A page that comes back as the same member of `Clients` is a new page; the guard
`~open[c]` of `Join` says only that it is not confused with one whose task
still runs. What happens when the old task closes late is the case of two
pages of one user.

The actions are the steps between locks: `Join`, `Connect`, `ReceiveSnapshot`,
`LocalEdit`, `RejectEdit`, `ReceiveAck`, `ReceiveWrongAck`,
`ReceiveRemoteUpdate`, `Leave` of the page (`Connect` is also the start of the
task, which subscribes); `SendSnapshot`, `ApplyClientOperation` or
`RejectClientOperation`, `ReadStateId`, `Broadcast`, `HandleClose`,
`LoseConnection`, `MarkInactive`, `CheckInactive`, `Pong` of the connection's
task; `PruneDocumentStates` of the background task. `EarlyEdit` (typing before
the snapshot) is in `EarlySpec` only, since it breaks the bridge invariant.
The operations are parameters, so that proofs hold for all operations that
satisfy `CollabLaws` and runs choose small ones.

Two interleavings of these steps give a client something else than the history
in order: two tasks between `ApplyClientOperation` and `Broadcast` at once (ids
repeat or skip, broadcasts may swap), and a snapshot that holds an update which
is still to come (one between the subscription and the snapshot, or applied
before it and broadcast after). `disturbed` records them. The properties about
what a client has (`BridgeInv`, `TransformNeverFails`, `NoGap`,
`AgreesAtRest`) say `Undisturbed`, and the proofs show that there is no third.
`BaseAvailable` needs of the user besides that it has stayed active with this
connection only (`lapsed`). Section 6 has what goes wrong otherwise.
`SingleOutstanding` and the order of edits in `SharedLog` need no condition.

Abstracted: cursor maps; the limiters (a page may be refused an edit at any
time); the broadcast buffer (a lagging receiver is `LoseConnection`). The ids of
operations, random in the code, are pairs of client and number.

### Connection

`Collab` has of the tasks what concerns documents. `Connection` has every step, one
for each time a lock is taken: opening (`Subscribe`,
`ReadConfig`, `SendSnapshot`, `ReadUserList`, `BroadcastUserList`), the branches
of the `select!` (`ApplyUpdate`, `ReadStateId`, `BroadcastUpdate`;
`SetRunConfig`, `BroadcastConfig`; `Pong`, `Close`, `StreamEnds`; `Forward`,
`ForwardFails`; `SendPing`; `CheckInactive`, `MarkInactive`), the check in the
background, and the pages.

| Variables | Code |
|---|---|
| `stateId`, `config`, `active`, `late` | `current_state_id`, `run_config`, `activity.active`, `last_activity` too long ago |
| `at`, `held` | where the task of a connection is, and the local variable it has read |
| `queue` | its receiver of the broadcast channel |
| `toServer` | the socket, from the page |
| `page`, `snapshotId`, `shownConfig`, `shownUsers` | the page; a page never reconnects, a reload is a page of its own |
| `published`, `from`, `overlapped`, `crossed` | history: updates broadcast, what a page subscribed after, operations and choices that overlapped |

Abstracted: documents and operations are numbers. The configuration is channel
and optimisation, since every page infers the cargo command for itself; the
configuration a run stores (`runner.rs:220`) is left out. What the server sends
on the socket is shown at once. A page that never answers is one that has gone.

### Execution

`task` and `handler` are how far the two tasks of a request are, `isRunning` is
the flag of `ConcurrentRunChecker`, `sent - received` the fill of the channel,
`ended` whether the container's process has exited, `status` the last
`RunStateUpdate` the pages got. The drop of the notifier is three actions, as
the code takes its steps: `DropNotifier` (the exchange succeeds), `DropPanics`
(it fails and the unwrap panics), `AnnounceEnd`. The order of drops at the end
of `run_code` is that of Rust: container and permit, notifier, sender.
`SessionsEmpty` allows the last user to leave during a run.

Abstracted: what is printed, the run configuration, compilation records; the
three I/O tasks of the container are one stream; a start that fails at any of
its points fails at one.

### Sessions

A page that opens a session takes many steps: it reads the row of the document,
looks at the map, restores or creates the session, gets it from the map, reads
its document, stores it, adds its user, answers; then the page connects, and the
map and the server are looked at again. A check for idle users collects and then
marks and removes one after the other, in the background or in a connection,
which does nothing else meanwhile. The archiver collects, archives, removes.
Every step at which the code lets go of a lock is an action.

| Variables | Code |
|---|---|
| `registered` | the session of the id in `SessionMap` |
| `text` | the document of each session object ever made, as the set of edits in it; a replaced or removed one lives on in its connections |
| `stored` | the row of the id in the table of documents |
| `user` | of each id: the session object it is a user of, `activity.active`, time since `last_activity` |
| `page` | how far a page is; `of` the session object and `row` the document it has in its hands |
| `archiver`, `check` | how far the background tasks and the checks of connections are |
| `panicked`, `orderly` | history: some task has panicked; no two procedures have overlapped |

Time is four degrees: never seen, recent, late (marked), long (removed). Joining
is taken to be shorter than `MARK_INACTIVE_USER_SEC`, and a connection to notice
that it is late before `REMOVE_INACTIVE_USERS_SEC`. An edit is one step here; what
it does to other pages is `Collab`. Names and colours, the table of users (it is
written and never read), a second page that copies the id of the first, and a
crash of the server are left out.

### Container and runner

`Sandbox` is one run from `execute_request` to the end of `stream_responses`, at
the steps at which a task waits, hands something over or ends.

| Variables | Code |
|---|---|
| `program`, `exit`, `written`, `unread` | the program cargo runs, and its two pipes |
| `main`, `inbox`, `stdinReader` | `listen`, the channel of messages, the task that reads them |
| `reader`, `hand`, `response`, `lock` | the two tasks of `run_command` and the response they share |
| `runnerOut`, `writer`, `frame`, `runner` | the channel to the runner's standard output, its writer, the process |
| `stdinPipe`, `stdoutPipe` | the pipes of the container |
| `tasks`, `joinable`, `childIn`, `decoded`, `childOut` | the tasks of `create_child_io`, the `JoinSet`, the channels |
| `app`, `outcome`, `received`, `delivered`, `stdinTx` | `stream_responses`, what it returns and what it has handed on |
| `consumer`, `answered` | the receiver of its channel; a query has collected a response |

A version query is the same with another end: `read_all_responses` collects and
does not join the tasks, and it is dropped with the request that asks.

Abstracted: output is counted; a frame is whole or cut; a pipe between the
container and the application holds one frame; reading a pipe does not fail (the
runner only logs it); what receives the responses takes them until it leaves.
The three queries of one request are independent. Queries write no more than the
limit: the assumption is in `SandboxAssumption`, since `read_all_responses` would
not tell that a response was too large. A program that a signal ends counts as
success for a run and for a query, which look at the status of the runner only.

### Simulated network

`SimNetwork` has the loop of `tick` as one action for each kind of event, and what
a test may call as actions that need the loop to be idle. Events of one instant
are equal in the order of the heap, except that snapshots come first, so that
what is delivered depends on the heap itself: `Push` and `Pop` are those of Rust's
`BinaryHeap`, swap by swap (`Climb`, `Descend`, `SiftDownToBottom`). Delays are chosen once for each client and
direction. Documents are sets of operations; text, cursors and the limiter are
left out.

### Rate limiter

`RefreshTokens`, `Grants` and `SendMany` are the methods of the bucket, over whole
numbers of a fraction of an interval. `MCTextOps` runs sequences of requests
through a bucket. That requests are refused at all is `RejectEdit` in `Collab`.

## 3. Runs

| Run | Shows | Bounds |
|---|---|---|
| `operations` | `transform` converges, keeps what both users typed, and puts the earlier text first; where `compose` is wrong, the result does not fit what follows; conversions from and to the editor, optimal `edit_ops`; cursors stay in their place in the text and agree; the rate limiter keeps its rate until it is idle for long | documents of two characters over two letters, operations of three parts: every pair of kinds and every order of lengths; buckets of up to 3 tokens, up to 4 requests |
| `register` | inductive invariant; order of messages and agreement at rest, for clients that are not disturbed; single outstanding operation; the states an operation needs, pruning | two pages: one of each of two users, opened once, with two and one edits, or two of one user, at once or one after the other, opened any number of times, with one edit each; joining, leaving, lost connections, inactivity, pruning, overlapping tasks |
| `text` | bridge, lengths, and acknowledgements that differ in places only, over text; refinement of `SharedLog` | two edits each over two letters, documents up to 2, overlapping tasks, nobody leaves |
| `ack` | *violated*: server and client may disagree on an operation | two and one edits, documents up to 2 |
| `execution` | who holds the flag, how far runs overlap, permits, what pages show | three requests, one permit, no output beyond the first message |
| `execution_ends` | every request ends | two requests, one permit, a channel of one message, two responses |
| `sessions` | inductive invariant; the archiver finds its session; procedures that do not overlap lose nothing; what is left is archived | two pages that join twice between them, one edit, two user ids, three checkers |
| `sessions_text` | *violated*, see section 6 | the same |
| `connection` | inductive invariant; in which order and under which number updates are broadcast; nothing is missed at the start; pages show the session's configuration | two connections of two users; two updates, two choices or one of each, that may overlap anywhere |
| `connection_converges` | in the end activity and lists of users are right | a user with a page and its reload, timers that fire at any time |
| `sandbox` | inductive invariant; what is delivered (refinement of `OutputStream`), no failure without a cause, that everything ends, the runner's assertion | one run with too much output, one with a second message, one query; channels of one message, output of two and one units with a limit of one |
| `network` | everybody agrees when the network stops, and only updates due at one instant fail an assertion | two clients, late or not, three edits, delays of 0 and 2, times up to 2, any number of runs |

Why these bounds are enough to be interesting: a conflict needs two clients; a
bridge of two operations, one waiting, needs two edits of one client while the
other's edit is on its way; a state an operation needs can be pruned once two
more have been accepted. A close that comes late needs two pages of one user, a disturbance two tasks, or a
task and a page that opens; all of them occur with two clients. Failures do not
depend on what operations are, so they are in `register`, whose operations are
few, and `text` keeps its users connected: that edits are lost only from the end
(`Lose` of `SharedLog`) is in the proof of the refinement, not in that run. Overlap needs one run, one refused request and one more request. A
channel of one message is full as soon as its reader stops. Flag and permits do
not depend on how much a run prints, so `execution` leaves responses to
`execution_ends`. Overlapping broadcasts need two connections and two updates;
the close that comes after a reload needs two connections of one user. In
`sandbox` a channel of one is full with every message, so that every task waits
for every other at some point, and output below, at and above the limit occurs.
In `network` a client can have an edit under way while another's arrives, sooner
or later than its own, and a third edit ties with either. In `sessions` two pages can overlap in every step of joining,
one can come back to a session that was archived, and both connections and the
background can check at once; the invariants also hold with three joins (6.2
million states, too long for a regular run). Every passing property has a mutant in `PROJECT.json`: a
definition marked `Fault` in its module, put in place of the one it distorts,
with which TLC finds the property violated.

`CHECK_DEADLOCK FALSE` is set where the system may stop: when the edits or
requests of the bound are used up and everybody has left, nothing is left to do.

### Fairness

* `Collab`: none is needed. `AgreesAtRest` says where users end up when nothing is
  under way; without new edits every step of a task or a page takes a message
  further, so that nothing stays under way as long as they run.
* `Execution`: both tasks of a request and the exit of its container are weakly
  fair: the runtime runs what can run and `entrypoint.sh` kills a container
  after its time limit. Permits: tokio's semaphore is first come, first served;
  with a finite number of requests weak fairness is enough.
* `Connection`: opening and what follows a branch are weakly fair, as tasks that
  can run do. The branches themselves (messages, broadcasts, pings, checks) are
  strongly fair: `select!` chooses among the ready ones at random, so that one
  that is ready time and again is taken. Time passes for users who are gone, and
  the timers fire. Nothing is assumed of pages.
* `Sandbox`: every task that can run does; the lock of the response goes to
  whoever waits for it (tokio's mutex is fair), hence strong fairness of
  `AppendOutput`. Nothing is assumed of the program, of the time limit, of the
  receiver and of the request that asks for a version.
* `Sessions`: joins and checks that are under way, the background's tasks and
  the idling of users without a connection are weakly fair. Nothing is assumed
  of users: a page may stay connected, or never come back.

`RequestsEnd` is stated for sessions that are not left by everybody. Without that
it is false (section 6). `StreamEnds` is stated for programs that end.
`LeftIsArchived` is stated for sessions that are left, and leaves out a background check that has panicked: its task has ended for good.

## 4. Proofs

Proved for all constants that satisfy the named assumptions.

`CollabProofs`, from `Typing`, `EditsApply` and `Converges` of `CollabLaws`
(operations that fit can be applied, the editor makes operations that fit,
`transform` converges; nothing is assumed of `compose`):

* `Invariance`: `Spec => []SyncInv`; from it `TypeCorrect`, `BridgeCorrect`,
  `Gapless`, `TransformSafe`.
* What has to be shown is that nothing but the two interleavings that `disturbed`
  records takes a client off the history. `DownInv` says of a client that is
  `Attending` that what is on its way is the history after what it has seen, the
  snapshot first while it joins (`Follows`), and that nothing is missing while the
  connection is open, but for the last operation if one task, and no other, has
  still to broadcast it (`AllSent`). It does not hold by the shape of the steps:
  applying, reading the id and broadcasting are three, and a snapshot may be taken
  between any two. `DownApply` is why a second task there disturbs,
  `DownRead` why the id that is read again is the right one when there is no
  second, `DownBroadcast` why the update then is the next of the history for every
  client that listens, `DownSnapshot` why a snapshot taken with nothing queued and
  nobody about to broadcast starts in the right place. Receiving keeps it
  (`DownReceive`).
* `BridgeInv` alone is not inductive. That a message can pass the bridge needs
  the message to be an operation on the document of the state the client has
  seen, hence `DownInv` and `LogInv` (the history applies step by step). `StreamInv`
  holds of every client: a snapshot comes first, updates after it, and a task does
  one thing at a time. `IdleInv` makes the bridge empty when the snapshot arrives,
  `UserInv` lets a pong activate known users only. The core is a lemma by induction
  along the bridge: transforming past each operation keeps the diagram closed.

The order of edits, from the same assumptions and `Invariance`; the argument follows
operations by their ids, whatever `transform` makes of them and whatever overlaps:

* `OrderInvariance`: `Spec => []IInv`, with
  `IInv == SyncInv /\ OrderInv /\ KeptInv /\ BaseInv`; from it `OneOutstanding`,
  `BaseKept`, `RestAgrees` and `Refinement`.
* `SingleOutstanding` speaks of what is under way now; that it stays true needs
  the whole round trip, of disturbed clients as well, so that nothing can be taken
  from the order of states. `SentInv`: what is on its way to the server is the first
  operation of the bridge, and it is not in the history. `OwnInv`: the bridge
  holds the last edits of the client, and the history none but the first.
  `AcceptedInv`: what a task holds or a client is sent is in the history.
  `FlightInv`: an operation of a client is sent, held by its task or coming back,
  in one of the three, and it comes back once: a page cannot have sent
  anything before its snapshot, so that what comes again is never its own.
  `LogIdInv`: the history holds nothing twice.
* `RestAgrees` puts both halves together: with nothing under way, `SingleOutstanding`
  leaves no operation in the bridge, `DownInv` no state that has not been received,
  and `BridgeInv` then says that the document shown is the server's.
* `BaseAvailable` needs a bound on what the server may be asked for later:
  `BaseInv` follows a client from its snapshot (`Bases`: the state of the snapshot
  under way, the last state seen, the states of the messages sent) and says that
  what pruning keeps for the user, `userDocStates`, is no later than any of them.
  That is so for users who have been active since, with no other connection (the
  entry is the user's, and another page moves it; nor does pruning ask for who is
  inactive), and for clients that are not disturbed (an id that skips is later
  than the next one). `KeptInv` makes what is kept an end of the history.
* `Refinement`: `Spec => ImplementsSharedLog`, step by step (`StepImplements`). An
  edit maps to `Edit`, accepting one to `Commit`, in which the readers that are
  disturbed by it lose their place. A snapshot maps to `Open` unless the client is
  disturbed, receiving an acknowledgement or an update to `Advance` for those who
  have a place. `Lose` is a page that leaves, with what
  waits behind the operation it has sent, and the end of a connection that the page
  has left, with that operation. All other steps change nothing in `SharedLog`:
  a connection that ends under its page takes nothing from the bridge. Hence at most
  once, in the client's order, for all clients; entry by entry for those who have
  not been disturbed.

`ExecutionProofs`, from `ExecutionAssumption`:

* `Invariance`: `Spec => []IInv`; from it `TypeCorrect`, `LockHeld`,
  `OverlapLimited`, `PermitsHeld`, `ShownRuns`.
* `OverlapBounded` counts: holders of the flag and panicked tasks, against
  refused requests whose notifier is gone and the flag. Taking the flag adds to
  both sides, a holder's drop removes from both, a refused request's drop
  trades the flag for one refused request, a panic adds to both or neither.
  `ResultInv` says that a run that has not ended has no result, which tells a
  holder from a refused request in the state `dropping`; `ListenersInv` says that
  a page that is not there shows nothing, without which an end nobody hears
  would leave `ShownRunExists` false.

`SessionsProofs`, from `SessionsAssumption`:

* `Invariance`: `Spec => []IInv`; from it `ArchiverSafe` and `OrderlySafe`.
* `ArchiverFindsSession` holds whatever overlaps, by its own: only the archiver
  takes a session out of the map.
* `OrderlyIsSafe` needs to know, for every step a procedure can be at, what it
  has read and that this is still so (`JoinInv`, `CheckInv`, `ArchiveInv`), that
  there is no other procedure (`OneProcedure`), and that a connected user is
  active or about to be told otherwise (`ConnectionInv`), so that a session
  without active users is one without connections. All of it under `orderly`,
  which a step that overlaps another procedure makes false. `IdsInv` keeps one
  user's steps from touching another's.
* The proof has one lemma for each kind of procedure (`JoinOrder`, `ServeOrder`,
  `IdleOrder`, `CheckOrder`, `ArchiveOrder`), each from a lemma on what does not
  change (`JoinFrame`, `ServeFrame`, `CheckFrame`) and from lemmas that give the
  effect of each action field by field.

`ConnectionProofs`, from `ConnectionAssumption`:

* `Invariance`: `Spec => []IInv`; from it `UpdatesOrdered`, `UpdatesComplete` and
  `ConfigurationAgrees`.
* `FlightInv` carries both: an operation is either held by one task or has been
  broadcast, once; operations that are held together are known to overlap; and
  one that is held and does not overlap is the last there is, so that its number
  is still that of the server when it is read, and all before it are broadcast.
  `SubscribedInv` gives a page its snapshot after its subscription, so that what
  the snapshot lacks is broadcast into its queue.
* Frames (`QuietFlight`, `QuietMissed`) settle the steps that leave updates alone;
  the four others have a lemma each.
* `ConfigInv` carries `ConfigAgrees`, which is about pages that have nothing left to
  receive and is not inductive. A connection is `Informed` when the configuration
  is the newest one in its queue, is held by its task, is shown, or the page has
  since chosen another. As long as no two choices have overlapped, either all
  connections are informed, or one task alone has stored a configuration and is
  about to broadcast it (`ConfigStep`).

`SandboxProofs`, from `SandboxAssumption`:

* `Invariance`: `Spec => []EndsInv`; from it `AssertionSafe` and `FailuresHaveCause`.
* `EndsInv` follows an end through the tasks. `MessageInv` counts messages on their
  way, so that a message left when the runner is done is a second one. By
  `StdinInv` the runner's input is open while it is up, unless the run was given
  up: the application lets go of the sender only when a task has been joined, and
  by `JoinInv` one that has not failed ends after the runner. `OutputInv` and
  `SentInv` bound every response that is held or on its way by what the program
  has written, so that a response that is too large has a cause; a frame is cut
  only by a kill. `CauseInv` says that failed tasks, a failed writer and a failed
  runner have a cause: each fails because of another, and the last to be asked
  is the outcome, `FailureHasCause`. `WriterInv` and `AnswerInv` give a query
  whose runner succeeds the response it reads.
* Types are split by the kind of value (`ScalarTypes`, `RecordTypes`, ...) and each
  part of the invariant has a lemma with a step for each action that touches it.

What is streamed, from `SandboxAssumption` and `Invariance`:

* `StreamInvariance`: `Spec => []IInv`, with `IInv == EndsInv /\ DeliveryInv`; from it
  `StreamImplements`: `Sandbox` implements `OutputStream`.
* `Way` is the sequence of all responses between the shared response and the
  receiver: the one delivered last, what `stream_responses` holds, its channel, what
  the stdout task holds, the pipe, the frame, and the runner's channel, as far as
  somebody will still read them. `WayMoves` is the core: whatever the action, a step
  leaves it as it is, appends the present response, takes the first, or cuts it
  short, and then the runner or the stdout task has failed.
* From these four cases `WayInv` (the responses are in order, and each can be
  delivered when its turn comes) and `LastInv` (the last is complete once the
  runner has sent the exit code, unless something was lost) need little more
  than arithmetic. `LockInv` is why a copy of the response is still the response
  when it is sent; `ExitInv` is why it is complete when it has the exit code:
  both streams have been read to their ends. `FailedInv` is why a run that
  succeeds has lost nothing: a task that has failed is joined first, and the
  output of a query, whose tasks nobody joins, is never too large.
* A success then finds `Way` empty but for what was delivered last, which is
  therefore `Complete`.

`SimNetworkProofs`, from `SimNetworkAssumption`:

* `RunsEndAgreed`: `Spec => []RunsAgree`, for any clients, delays, times and number of
  edits, with `IInv == IF panicked THEN tied ELSE NetworkInv`: once an assertion has
  failed nothing more happens, and nothing more is claimed.
* The heap is settled first. `IsHeap` says that no event comes before its parent and
  none is there twice; `PushAllHeap` and `PopHeap` say that this is kept, that `Push`
  adds its event to the set of those that are held and `Pop` takes away the first, and
  `FirstLeast` that nothing held comes before the first. They are inductions over the
  loops of the heap. From here on the proof speaks of `Pending`, the set of the
  events, and of nothing about their places: the order among equals, which is the
  library's, cannot matter unless `tied`.
* `RunsAgree` is about a network that has stopped, and is not inductive. `OpInv` says
  where every edit is: yet to be made, in the bridge of its client or at the server
  (`Accounted`), once (`Fresh`), and that the first of a bridge that is not empty is on
  its way to the server or back (`Sent`, `Returning`). `StateInv` says what a client
  has: what the server had at its state and its own bridge, with an update
  pending for every later state (`Following`), or a snapshot pending and an update
  for every state after it (`Starting`). With nothing pending, what remains is
  agreement (`IInvAgrees`).
* That assertions hold is about time. `InTime`: nothing pending is earlier than the
  instant that is fired, and no message to a client is later than one sent now,
  since its delay is constant. Hence `InOrder`, updates to one client arrive in
  the order of the states as long as no two are due at once, and `SnapshotFirst`: a
  snapshot is not after an edit or an update of its client, and the order of the heap
  puts it first among what is due with it. A late joiner's snapshot is due when an
  update of that instant would be, which is why it needs that order. So the first event
  is the next state of its client, and no client gets two snapshots (`Singles`).
* The step of each event (`LocalUpdateStep`, ...) is stated for `Pending` with the first
  event taken and those that it causes added.

`AlgorithmProofs` are about what recursive functions compute, for inputs of any
size. The library's induction theorems cannot be instantiated; `Induction` and
`SequenceInduction` of `Recursion` state the same for a set, which can. `FoldExists`
says that a function given by a first value and a step exists, and `Alike` that there
is one, which makes sums, application, condensing and requests well defined.

* `TransformationConverges`, for any alphabet, document and operations, and from it
  `Convergence`: `Spec => []TransformConverges` with the bounds of `MCTextOps`. The
  loop of `transform` is a recursive function on pairs of any operations. It is
  defined everywhere (`TransformDefined`), because each round leaves pairs of a
  smaller `Size` (`Smaller1`, `Smaller2`, `SmallerBoth`) and depends on those only
  (`RoundLocal`). `ApplyConcat` splits an application in two: the first operations
  on the first part of the text, the others on the rest. What a round emits makes the
  two documents `Meet` on the part it covers (`InsertionMeets`, `OverlapMeets`), the
  further rounds do on the rest, and `Joined` puts both together; `ApplyRest` is for
  an operation that is cut in two. `WalkConverges` is the induction on `Size`, and
  `CondenseSame` says that condensing changes nothing of what an operation does.
* `TransformationKeeps`, and from it `Intent`: `Spec => []TransformKeepsIntent`. The
  same induction, with what a round inserts and deletes (`Insert1Keeps`, `Insert2Keeps`,
  `OverlapKeeps`)
  in place of the documents; `DeletedBy` counts, so that what both users delete is
  gone once.
* `InsertionOrder`, and from it `EarlierFirst`: `Spec => []EarlierInsertsFirst`. Two
  operations that begin alike and then insert are walked together: `LaterInsertions` is
  the round over a common retention or deletion, `FirstInsertions` the two rounds at
  the insertions, and `InsertionsStand` the induction over how long they are alike.
  That the first operation does not insert twice in a row (`Condensed`) is needed:
  otherwise its second insertion would come between the two.
* `ComposesUnlessShorter`, and from it `Rejection`: `Spec => []WrongCompositionIsRejected`.
  `Composes` is what a round hands on: the composition reads what the first operation
  reads, never writes more than the second, and is right if it writes as much. The
  round that turns the rest of a retention into a deletion (`TakeComposes`) writes
  less, and no later round makes up for it, which is why the length alone tells a
  wrong composition. `SolutionExists` is what the two loops share: a recursion
  each of whose rounds leaves something smaller is defined everywhere.
* `CursorFollows`, for any document, operation and cursor, and from it `CursorKept`:
  `Spec => []CursorFollowsText`. `RangeAt` says of the operations handled so far where
  they leave both ends of the cursor: at each, the traced document is `Divided` into
  what is from before the end and what is not, and an end that has not been reached
  is still as far ahead as the characters in between (`EndAt`). `RangeStep` is one
  operation: `ShiftMoves` is what `transform_cursor` does with its cases by hand,
  `EndStep` that what it writes keeps an end dividing. `TracedSteps` and
  `ShiftedSteps` take both folds one operation at a time; the application traced is
  the one of `TextOps` itself, to a document of places.
* `CursorsMeet`, for any document, operations and cursor, and from it `CursorsAgreed`:
  `Spec => []CursorsAgree`. `Place` counts what an operation writes before an end of a
  cursor, and `CursorPlaced` says that `transform_cursor` takes the ends there.
  `PlacesAgree` says that what a walk of `transform` makes takes an end to one place
  in both orders, if both operations retain the character the end stands at
  (`Retains`). It is proved along the loop like the convergence: an insertion moves
  the end in both orders (`InsertionPlaces`), and in an overlap what is read before
  the end is what `Overlap` leaves of it (`OverlapAgrees`). What a user keeps is
  retained because `CursorFollows` has the traces of a kept character between the
  ends around it (`KeptIsRetained`), and `CursorHeld` says that the cursor goes on
  selecting what it selects, or nothing, which `transform_cursor` asks again for the
  second operation.
* `EditConverted` and `UpdatesReach`, for any document and operation, and from them
  `EditorKept`: `Spec => []EditorAgrees`. The report of the editor grows with the
  operation (`ReportGrows`): after each part, the changes so far, converted, read as
  much of the document as is behind, and write what the part of the operation writes,
  also where a change joins the one it touches (`TouchApplies`). `Edited` is what one
  change is converted to, `BodyAppend` and `BodyReads` add them up. Towards the
  editor `SentGrows` does the same for what the editor has written after each change.
  That a document has as many units as characters exactly if it has no wide character
  (`UnitsLength`) gives both sides of the condition: the length of a converted edit
  is that of the document if all are narrow and greater if one is not, and up to the
  first wide character a place in units is a place in characters (`UnitsPart`).
* `OperationsSatisfyLaws`: `Typing` and `Converges` of `CollabLaws`, from the theorems
  above and `ApplyLength`. The proofs about `Collab` are therefore not about laws
  that the operations of the code might not have. Not covered is `EditsApply`, which
  is about the editor: `EditConverted` has it, for documents without wide characters.
* `LimitLasts`, for any bucket and requests, and from it `LimitUntilIdle`:
  `Spec => []LimitLastsUntilIdle`. `RequestKeepsRate` is the step of the induction
  as long as no request fills the bucket up; `UnlimitedOnceFilled` says that after
  one that does, every later one fills it up again.

Model-checked only:

* liveness (`RequestsEnd`, `LeftIsArchived`, `ActivityConverges`,
  `UserListsConverge`, `StreamEnds`), which is out of the prover's reach;
* `EditOpsOptimal`, over bounded inputs: it compares what the table of `edit_ops`
  yields with every operation between the two documents, which needs an induction
  over both the table and those operations;
* `AckDiffersInPlaceOnly`: it counts characters, of which the laws that the proofs
  about `Collab` use say nothing, so that it would need the proofs about `TextOps`
  and those about `Collab` in one module.

## 5. Not modelled

* The maps of cursors that server and clients keep (`cursor.rs`): see the plan.
  What an operation does to one cursor is in `Cursors`.
* User names and colours. A name is looked for in one step and taken in another
  (`users.rs:336`), so that two joins that overlap may get the same; nothing
  depends on names.
* The lock the pruning task holds on a shard of the session map while it waits
  for a server (`background.rs:56`). Whoever needs the shard blocks a thread of
  the runtime, so that a deadlock depends on the number of threads: see the plan.
* The output state of a session, beyond what `Execution` says. A request resets it
  before it is known whether the run is accepted (`websocket.rs:518`), so that the
  output of one run can be stored with the command of another.
* A crash of the web server: what is in memory is lost, nothing is recovered but
  the rows that were stored, and no code reacts to it.
* The cache of versions, one value behind a mutex that is held while it is
  regenerated; how messages are serialised; SQL statements beyond the row of a document; the
  page's rendering; crate population, deployment and the docker command line.

## 6. Where the code and its words differ

Two of these are runs that TLC finds violated:

* `ack`: the server transforms past a composition, the client step by step; the
  results may differ and the client panics on its acknowledgement.
* `sessions_text`: the archiver removes a session that was joined after it had
  been found without active users (a new session is, until its first user is
  added); who is connected goes on in a session nobody else will find, and what
  is typed there is lost. Overlapping joins may also replace each other's
  session, and restore a row that has been overwritten meanwhile.
  `OrderlyIsSafe` says that nothing but such overlaps does it.

Further, without a run of their own; where a property is named, its conditions
say how far it goes:

* The client says it "receives each server message sequentially"
  (`client/mod.rs:407`) and asserts it in debug builds. It does not when an update
  falls between subscription (`websocket.rs:90`) and snapshot (106), or when two
  tasks overlap between applying (303), reading the id again (324) and broadcasting
  (330), or one of them with the start of another connection. A release build does
  not look at the id: it applies what comes again once more, or two operations in
  the wrong order, and where their lengths happen to fit the page stays different
  from the others. `NoGap` and `AgreesAtRest` say that nothing else does it.
* Where they do not fit, `transform` or `apply` is unwrapped on an error that
  "should never happen" (`client/mod.rs:515, 561`). `TransformNeverFails` says
  that it takes one of the same interleavings. Without `Undisturbed` in these
  properties TLC shows each of them in a few steps.
* A page is reloaded, the close of the old connection (`websocket.rs:399`)
  comes after the new one has joined and marks the user inactive, and pruning, which
  asks active users only (`server/mod.rs:231`), drops the state the new page has, "a
  historical state" (`server/mod.rs:136`). The next pong makes the user active
  again and does not bring it back. An operation made before a later state
  is then refused, and the connection's task panics. `BaseAvailable` is stated
  for users who have one connection and stay active.
* `compose` turns the rest of a retention into a deletion when an insertion is
  shorter than the retention it meets (`xforms.rs:451`), against the law stated
  for it (`ComposeLaw` in `MCTextOps`). `WrongCompositionIsRejected` says that the
  server refuses what follows from it.
* The snapshot replaces the document under a bridge that is not empty when the
  user types before it arrives: `EarlySpec` breaks `BridgeInv`.
* A refused run request clears the flag of the run in progress, which lets a
  third request in. `OverlapBounded`: every refused request lets one more run in
  or makes one task panic in the assertion of the drop, "Previous compilation
  should have been running" (`runner.rs:186`). A run that panics does not
  announce its end, so that pages may show it for ever; `ShownRunExists` names
  that case.
* When all leave, a run may wait for its handler and the handler for the run,
  with flag and permit held: the condition of `RequestsEnd`.
* In the simulated network clients do not receive sequentially either when two
  messages are due at one instant: equal events leave the heap in no order
  (`network/mod.rs:455`; `ReceivedSequentially` in `SimNetwork`). `RunsAgree` says
  that nothing else does it there.
* The assertion before the broadcast (`websocket.rs:318`) may fail when two tasks
  overlap. `OrderedUnlessOverlapped` says that nothing else disturbs the order.
* A second message that reaches the runner late ends the task that reads its
  input, and the assertion at the end of `listen` (`bin/runner.rs:103`) fails,
  although a test says that it is ignored (`container.rs:747`): `AssertionHolds`.
* "Killing container" (`container.rs:564`) is logged and not done: the container
  is dropped and outlives its permit until its time limit, the exception in
  `ContainersHavePermits`.
* A full refill does not set `last_refresh` (`rate_limiter.rs:119`): after one
  idle period every request finds the bucket full, for ever, and the limiter is
  off. A partial refill adds without looking at `max_tokens` (line 128), the
  "maximum number of tokens that can be stored" (line 67).
  `LimitLastsUntilIdle`, `UnlimitedOnceFilled`.
* `debug_assert!(self.components.insert(..).is_none())` (`network/mod.rs:280`)
  inserts in debug builds only; a release build of the tests has no components.
* "Indices are in characters, not bytes" (`xforms.rs:588`) and "This matches how
  the front end interface handles text" (`xforms.rs:695`), but the editor's are
  in units of UTF-16. `EditorAgrees` says what follows: once the document holds a
  character of two units, every later edit, also one that only moves the cursor,
  has the wrong length and the server rejects it; and until where remote changes
  land in their place.
* "Unsure if this sanity check is true" (`cursor.rs:257`, cursors of server and
  client are the same): it is not where somebody deletes the character a cursor
  stands before, or an end of what it selects; `CursorsAgree` says that
  otherwise it is.

## 7. Plan

Done, in this order: text operations, the protocol with its abstract log and
proofs, execution with its proofs, sessions with its proofs, conversions of
editor changes and cursors, connections with their proofs, the container and its
runner with their proofs and their refinement, the rate limiter, the
simulated network, the proofs of the order of edits and of the refinement of
`SharedLog`, the proofs of the algorithms and of the simulated network. To come,
most important first:

1. Session locks: the pruning task's lock on a shard of the map while it waits
   for a server, beside the locks of joins, over the threads of the runtime.
2. The maps of cursors in `Collab`, over `Cursors`: agreement of the pages.
