# selftunnel: a TLA+ model of the relay, its tunnels and its client

selftunnel publishes an HTTP service behind NAT. A *client* opens a WebSocket to
a *relay server* and gets an 8-character tunnel ID; HTTP requests to
`/t/{id}/...` are sent down that socket as frames, executed against a local
target and streamed back. This directory models the parts of it in which several
goroutines, two processes or a crash meet, checks them with TLC, and proves some
of the results with TLAPS. Source paths below are relative to the repository.

## 1. Inventory

| Component | State | Operations | Talks to |
|---|---|---|---|
| Registry (`internal/server/registry.go`) | map ID -> Tunnel, `mu`, `tunnels.json` and its `.tmp` | Load, Register, Save/saveLocked, List, Tunnel.SetTarget | handlers of sessions; disk |
| Session (`internal/server/tunnel.go`) | `closed`, `done`, `sendQ`, `pending`, `tun`, writer | Run, readLoop, writeLoop, send, RegisterPending, routeResponse, close | registry, relay handlers, client |
| Server (`internal/server/server.go`) | `onlineCount`, `Tunnel.session` | handleTunnel, handleHello, PollStats, handleHealthz | sessions, registry |
| Relay (`internal/server/relay.go`) | one handler per request and its mailbox | handleRelay, streamBody, cancel, truncateResponse | a session's queue and pending map |
| App (`internal/server/lifecycle.go`) | listener | Start, Stop | sessions, registry |
| Client (`internal/client/client.go`, `power.go`) | `conn`, `closed`, `stop`, `recon`, status, inhibitor, Config | Run, connect, readLoop, close, Stop, Reconnect, sleepBackoff | server; `config.json`; OS |
| Forwarding (`client.go`) | `pending`, `active`, `sem` | handleRequest*, dispatch, forward, handleCancel | the local target |
| Programs (`cmd/`) | GUI state | Start, Stop, Disconnect, Connect | App, Registry, Client |
| proto, debuglog, ngrok, guiicon, scripts | - | encoding, logging, tooling | - |

How they interact. A session lives in the goroutine of its `/ws/tunnel` handler
(which is also its reader) and one writer goroutine. Relay handlers share its
`sendQ` and its `pending` map with the reader. A later session of the same tunnel
swaps the pointer `Tunnel.session` and calls `close()` on the earlier one from its own
goroutine; App.Stop and the GUI's Disconnect call it from others. Registry and
handlers share the map under `mu`, except for the target, which is an atomic. On the
client, Run, the ping goroutine of each connection and the callers of Stop or
Reconnect share `conn` and the once-flag `closed`, which `connect` resets.

What is hard: `close()` racing with itself, with publication and with senders; a
reader that blocks by design; a counter kept by two different atomics; saves that fail
or are cut off by a crash; acks that are lost after the server has acted; and, on the
client, a once-flag that is re-armed while others may be using it. The complete list
is under `hazards` in `PROJECT.json`.

What makes each component correct: an acknowledged ID is never lost and has one owner
(registry, handshake); only a live session is registered, a closed one ends (session);
every request is answered, with no gap, and never with a channel closed twice (relay);
answers and bodies are never mixed up, and a cancelled request gives its slot back
(forwarding); resources follow the connection and Stop ends Run (client).

## 2. Modules

| Module | Models | Correspondence |
|---|---|---|
| `Registry` | registry.go with the handlers that use it | `tunnels[g]` is the map of server generation `g` (the GUI makes a new Registry on each Start), `mu[g]` its lock, `disk`/`tmp` the two files. A save is `WriteTmp`, then `Rename`, either may be replaced by `SaveFails`; `Crash` may come between |
| `Ownership` | Registry composed with clients, `config.json`, hello and hello_ack | `cfg`/`cfgFile` per client; `Publish` is the part of handleHello after Register; `Drop` loses the connection and any ack on it |
| `Session` | handshake, takeover, writer, `close()`, App.Stop, Disconnect | `pc[s]` is the handler of session `s`; `close()` is five actions (`CloseSwap` ... `CloseReturns`) that any actor executes for the session in `call[a]`; `step[s]` is how far the body has come |
| `Relay` | handleRelay, streamBody, the queue, routeResponse, writer, teardown | one state per blocking point of a handler, "upload" and "write" being those where it waits for its caller; `outcome[r]` is why it stops; `held` is the frame the reader is delivering; `step` is the close() of the session; the client is the environment (`peer`, `wire`, `failed`) |
| `RelayContract` | what a caller may observe of its response | the abstract specification: accepted, opened, chunks in order, then refused, ended or broken. A body that ends normally is whole, unless the client failed it, the session had gone, the caller had left, or the connection cannot be cut. No queues, handlers or timers |
| `Forward` | both ends over successive connections of one tunnel: NextReqID, RegisterPending, the handlers, and the client's pending, active, sem and forward goroutines | `session[r]`, `id[r]`, `pendingS[s]` on the server; `pendingC`, `active`, `fwd[r]` on the client; `srv[s]`, `cli[s]` are the two ends of the s-th connection, `down`, `up` the frames under way on it, `conn` the pointer `c.conn` that sendFrame reads late |
| `Client` | Run, connect, readLoop, pinger, Stop, Reconnect, close() | `pc` walks through Run and the functions it calls; `sock[g]` is the g-th connection, `conn` the pointer; each `close()` is call, AllowSleep, shutting of whatever `conn` then is |
| `MCOwnership`, `MCSession`, `MCRelay`, `MCForward`, `MCClient` | constants and symmetry for TLC | one `.cfg` per run |
| `OwnershipProofs`, `SessionProofs`, `RelayProofs`, `ContractProofs`, `ForwardProofs`, `ClientProofs` | theorems about the module of that name, and that Relay implements RelayContract | section 5 |
| `UploadProofs`, `AnswerProofs` | more theorems about Forward: request bodies, answers | section 5 |

Every module names its bounds as constants. `PROJECT.json` maps each definition to the
lines it stands for. A definition whose comment begins with "Variant" is not part of
the specification: it is a plausible bug, used to see that a property notices it.

Abstractions. Frames carry a kind, a request and a chunk number. Deadlines and timers
are actions that may happen at any time they are armed. SHA-256 is an injection. A
secret is never drawn twice (`issued`), and crypto/rand does not fail. In `Session` the queue's occupancy is left out
(a send may succeed or give up); in `Relay` a single session is considered and request
IDs do not wrap around. In `Relay` the client answers a request only when it has
it in full, with frames in any order of kinds, malformed ones included, because that is
what the handler is written to survive. `Client` reads `c.conn` once in `close()`, where
the code reads it before and after a close frame of at most 5 seconds.

`Forward` takes the detail of the other modules away where they have checked it: a
session's end is one step, the mailbox of a handler is part of the wire (a frame is taken
when its handler waits for one, and dropped when nobody is registered), and dialling,
hello and the publication are one step, `Redial`. It keeps what the others leave out. A
request ID is drawn (`NextReqID`) and registered (`RegisterPending`) in two steps; the counter
may stand anywhere, and `Lapsed` is the one thing assumed of it: it does not come round to an
ID between the two steps, nor while a finished request still has frames or a forward
under that ID, which takes 2^32 requests. A write to a connection whose other end
is gone may succeed, or fail and spoil the connection (`"broken"`). Frames carry the request
they come from (`by`), which the code does not see and the properties compare.

## 3. Runs

| Run | Question | Bounds |
|---|---|---|
| `ownership` | Do acknowledged IDs survive and have one owner? `AckedCredentialsSurvive`, `SoleOwner`, `MemoryReachesDisk`, `EntriesKept` | 2 clients wanting the same custom ID, 2 handlers, 2 IDs, 2 secrets, 1 target, 2 server generations; the operator restarts only when no handshake, save or unread stats frame is left |
| `gui_restart` | The same `EntriesKept` when the operator restarts at any time (violated) | the same |
| `session` | `NoDeadSessionRegistered`, `SuccessorKept`, `OnlineCountAccounted`, `ClosedSessionEnds`, `StopEndsListed` | 2 sessions, 2 tunnels, 1 goroutine that disconnects and runs App.Stop |
| `online_count`, `ack_first` | What the documents say of /healthz and of hello_ack (violated) | the same |
| `relay` | `NoDoubleClose`, `TeardownWakesWaiters`, `EndMeansComplete` | 2 requests, every queue of one frame, 1 response chunk |
| `relay_live` | Does the relay implement its contract, `ContractKept`? `NoSilentGap`, `HandlersFinish`, `ReaderMovesOn` | 1 request with 2 body chunks and 3 response chunks, mailbox and wire of two, send queue of one |
| `drop_end` | close(): a pending request is failed, `DroppedIsFailed` (violated) | 1 request, 1 chunk |
| `client` | `ReleasedAtExit`, `NeverReleasedEarly`, `OneConnection`, `StopEndsRun`, `PingersEnd` | 3 connections; Stop called while online; PreventSleep may fail |
| `client_stop` | `StopEndsRun` when Stop comes while connecting (violated) | 2 connections |
| `forward` | Are requests, bodies and answers kept apart, over wrap-around and reconnection? `UniqueInFlight`, `WiresWithinSession`, `CleanEndComplete`, `BodyWhole`, `Cancellable`, `CancelReleasesSlot` | 2 requests, 2 connections, 2 IDs, 1 slot, 1 body chunk, 1 response chunk, 1 frame under way each way |
| `forward_reconnect` | Spec 8, test 12: reqIds never cross wires (violated across a reconnection) | the same, without bodies |

Why the bounds are enough. Ownership disputes need two clients and one ID; a second ID
lets the loser be allocated another one, and a second secret gives it one of its own. A
third generation would repeat what the second does to the first. A takeover needs two
sessions, and two tunnels let App.Stop miss or meet a session that is being published.
In the code the queues hold 256 and 16 frames; only "full" and "not full" are told
apart, so a capacity of one reaches every case soonest, and `relay_live` uses two where
order within a queue matters. It has a single request, since two with liveness are too many
states: that a request may also wait for the caller of another, by way of the blocked reader,
is said by `HandlersFinish` and not exercised. Three connections let a pinger or a close() of the first
meet the second and its successor. In `forward`, two
requests are the least that can be confused, one after the other (over a reconnection or a
wrap-around) or both at once; two IDs let them differ as well; with one slot
the second forward waits while cancels and reconnections go by. The last connection is not
lost, which bounds the run without stopping it. Deadlock is not checked: servers that have stopped,
clients that have returned and requests that are all answered are legal ends.

Symmetry is used for clients, handlers and secrets, for requests, and in the runs of
`Session` without temporal properties; no fair run and no run with a liveness
property uses it.

### What the violated runs show

* `gui_restart`: the handler of an old server saves its old map over the new one's file
  (registry.go:149, lifecycle.go:100, spec line 119).
* `online_count`: every takeover adds one to `onlineCount` for good (server.go:118,
  tunnel.go:314; `OnlineCountAccounted` says exactly by how much it is wrong).
* `ack_first`: a request_start may be queued before hello_ack, and the client then
  gives the connection up (server.go:114, client.go:361).
* `drop_end`: a response whose session dies ends as if it were complete, even with chunks left in
  the mailbox (relay.go:190, against tunnel.go:294 and relay.go:299). `ContractKept` names
  this as one of the exceptions; another is an error end of the client, which the handler only
  logs (relay.go:181) where Spec 3.2 has the connection truncated (spec line 132).
* `client_stop`: a Stop during connect is undone by the reset of the flag (client.go:333).
  The GUI calls Stop while online, or on closing its window, when the process ends.
* `forward_reconnect`: a forward whose connection is lost goes on and answers on the
  next one; if its ID has been given to a request of the new session, that request's caller
  gets the old answer (client.go:540, sendFrame at 675, tunnel.go:238).
  `WiresWithinSession` says that this is the only way answers cross.

Observations that no run checks: Run returns nil instead of ctx.Err() when the context
ends while a connection is read (client.go:203); a client without a custom ID does not
send the tunnel ID it has stored, so it gets a new one on each connection (client.go:314,
against client.go:46); a session that is swapped in after App.Stop has visited its tunnel stays open
and registered (lifecycle.go:100), where its line 84 and spec line 199 have all sessions
closed (`StopEndsListed` says which ones are); a Stop or Reconnect between
the reset of `closed` and PreventSleep leaves the inhibitor held for good (client.go:379), where
Spec 3.7 has the policy restored on exit; a cancel that comes while its request waits for a
slot finds neither a pending entry nor a cancel function and is dropped (client.go:547), where
spec line 278 has the request stopped at once (`Cancellable` and `CancelReleasesSlot` say what
holds once the function is stored); after a cancel a forward still
sends a 502 or an error end, where Spec 5 has it send no further frames (client.go:593, 632); a
forward that nobody cancels and whose target stays silent holds its slot for
ever, as the HTTP client has no timeout (client.go:541); Connect pressed in the GUI while the first
client connects or backs off starts a second one and forgets the first
(cmd/selftunnel-client-gui/main.go:156); the
request counter counts started requests, its comment says completed ones (relay.go:104,
registry.go:75); a caller that neither reads its response nor leaves holds its handler, and by a
full mailbox the only reader of the session, for as long as it likes, as neither the read of a
body nor the write of a response has a deadline (relay.go:177 and 266, tunnel.go:286).

## 4. Fairness

* `Session`: weak fairness of every handler that is not waiting for its peer, of a
  writer that has been told to end, of every step of `close()` and of App.Stop's own
  steps: these goroutines do not block on anything else. Nothing is assumed of peers: `ReadFails`
  is fair only once the session is closed, when the connection is closed under the reader.
* `Relay`: weak fairness of each handler's own steps (sends, timers, frames in its mailbox), of the
  reader, the writer and a `close()` that has begun. Reading a body and writing a response have no
  deadline, so they return for certain only once the caller has left (`gone`), when net/http
  closes the connection. After the writer has exited the session is closed, because the connection
  is broken, or the client hears no pings and drops it after its read deadline (client.go:427);
  but only a reader that reads notices, so this is fair while it holds no frame. `HandlersFinish`
  and `ReaderMovesOn` therefore exempt a caller that keeps its handler waiting for ever, and
  nobody else. Neither callers' departures nor the client's answers are fair.
* `Forward`: weak fairness of the error exit of a forward whose context is
  cancelled (`net/http` aborts the request or the read of the body) and of its deferred
  calls; sendFrame has a write deadline, so it returns. Nothing is assumed of the
  target, the network, the server, or of a slot becoming free.
* `Client`: weak fairness of Run's steps that wait for nothing, of a ping that has been
  sent (it has a write deadline) and of `close()`; strong fairness of the pinger's
  cancellation and done cases, because `select` chooses at random among ready cases
  and cannot take the ticker for ever. Incoming frames, drops, deadlines and callers are not
  assumed. One timing assumption is part of the model: `DelayOver` waits for pings and
  close() calls in progress, as the delay is at least 1.6 seconds. A ping or close frame
  held up by a stalled write could last longer; with it `OneConnection` and
  `NeverReleasedEarly` are not claimed.

## 5. Proofs

For all values of the constants that satisfy the named assumptions (`RegistryAssumption`,
`RecordAssumption`, `OwnershipAssumption`, `SessionAssumption`, `RelayAssumption`,
`ForwardAssumption`, `ClientAssumption`: the markers NoId, Nobody, None, Absent and so on are none of the
values they stand beside, and bounds are numbers). `IInv` is the inductive invariant of
each module.

* `OwnershipProofs`: `TypeCorrect`, `CredentialsSurvive` (`AckedCredentialsSurvive`),
  `NoSharedTunnel` (`SoleOwner`), `DiskAgrees` (`MemoryReachesDisk`) and `FileKept`
  (`EntriesKept`), all under `Undisturbed`: the operator does not restart the server while a
  handshake or a save is running or a stats frame is unread (`gui_restart` shows what happens otherwise). What a client holds
  says nothing of where it came from, so the invariant follows a secret from the moment
  it is drawn. `Locked` (who saves holds the mutex) makes saves one at a time; `Durable`
  (the file has nothing the map lacks, a file about to be renamed has all the map has) then
  survives failed and cut-off saves; `Issued` (a secret is drawn for one ID) and `Reused` (an
  ID that is answered without a secret is the one the client has) carry `Credentials` (what a
  client has, or is about to get, is in the file) from Register over the answer, or its
  loss, to `config.json`; `Mine` says that no secret is on its way to two clients. Two owners of
  one ID would have the hash of one secret, hence the same secret.
* `ClientProofs`: `TypeCorrect`, `ReleasedOnReturn` (`ReleasedAtExit`), `ReleasedWhenClosed`
  (`NeverReleasedEarly`) and `NoConnectionLeft` (`OneConnection`). All but the first assume
  `AsProgramsCall`: nobody calls Reconnect, and Stop is called while online, which is what the
  programs in `cmd/` do. The invariant's `Calm` (while Run connects, no pinger
  lives and nobody is inside `close()`) is what makes the reset of the once-flag
  harmless; with it `FlagOwned` (who is past the swap has set the flag), `HeldFor` (an inhibitor held
  after the swap is about to be released by somebody), `OneOpen` (an open connection is
  the one `connect` has or the one `c.conn` is) and `ShutFor` (after the swap it is shut or about
  to be) are preserved.
* `SessionProofs`: `TypeCorrect`, `DeadSessionsUnregistered`
  (`NoDeadSessionRegistered`), `SuccessorsKept` (`SuccessorKept`) and `CountAccounted`
  (`OnlineCountAccounted`).
  `NoDeadSessionRegistered` is not inductive: `Publish` could register a session that
  somebody has already closed. The invariant therefore adds `Fresh` (before publication
  a session is open, in no tunnel and in nobody's hands) and `Bound` (the one `Publish` is about
  to register knows its tunnel). Steps are grouped by what they leave alone (`QuietStep`, `HandlerStep`,
  `LeaveStep`, ...). `SuccessorKept` follows from the invariant and `Next`.
  For the counter, `Balance` says by how much it is off at any moment: minus the sessions between their
  Swap and their Add, plus those between their CompareAndSwap and their Add(-1); both sets
  are empty when `Settled`. `CallerBusy` (a reader inside `close()` is taking over
  or leaving) keeps the two atomics of one session apart.
* `RelayProofs`: `TypeCorrect`, `DoneClosedOnce` (`NoDoubleClose`) and `WaitersWoken`
  (`TeardownWakesWaiters`). The invariant adds `Unregistered` (before it
  registers, a request is not pending and its mailbox is open), `Registered` (afterwards
  it is pending or has been woken) and `Reached` (after the teardown, a handler that
  is past the test of the closed flag has been woken, even one still waiting for room in
  the queue), from which the property follows.
* `ContractProofs`: `CallerHasPrefix` (`NoSilentGap`), `CompleteAtEnd` (`EndMeansComplete`) and
  `RelayImplementsContract`, the refinement: `Spec => ContractKept`.
  That a caller has a prefix says nothing of what is still under way, so the
  invariant `CInv` adds to the one above: `AskInv` (the client is asked once for each request, start
  before body before end, and a handler listens exactly until it has decided the
  outcome), `FrameInv` (a frame says what its client has done, a closed connection carries none,
  and a handler that listens loses its mailbox to the teardown only), `InOrder` (while a
  handler listens, its mailbox, the frame in the reader's hands and the wire hold
  every place from the one it expects next to the last one sent, in order), `Delivered` (what the
  caller has is a prefix, and all of it when the response ended well) and `Accounted` (a response that
  stopped short for another reason has what excuses it: a failed answer, a closed session, a
  caller that left). Each step moves a frame
  across at most one of these boundaries. The refinement maps a handler's states
  to accepted, opened and verdict, and each action to one abstract step or a stutter. The verdict is
  what net/http shows: a handler that just returns ends the body normally, whatever made it
  return, and only a hijacked connection breaks.
* `ForwardProofs`: `IdsApart` (`UniqueInFlight`), `WiresApart` (`WiresWithinSession`) and
  `CancelReaches` (`Cancellable`). What is assumed of the counter is in `Lapsed`: it does not come round to
  an ID of which a finished request has left a forward or a frame. A trace of a request
  is a frame under way in its session or a forward that has not finished. `Alone` (a request that is
  not over, in an open session, has its ID to itself: the others that had it are done and left
  no trace) holds when an ID is drawn, by `UniqueInFlight` and `Lapsed`, and is what lets
  RegisterPending and UnregisterPending write the map without looking. `Apart` (of the requests
  of a session with one ID one at most has left a trace) outlives the session and covers the client's
  side, where the maps go by the ID alone. `Order` and `Opened` (frames of a request
  are in order; before a chunk or an end is read its request has the pending entry) make the forward
  that an end dispatches the one of its own request. `Links`, `Sources` and `Mailboxes` say
  which connection and request everything belongs to.
* `UploadProofs`: `AskedWhole` (`BodyWhole`) and `ForwardTyped` (`TypeOK`). A body is in two
  places while it is uploaded, the connection and the pending map, and the map goes by the ID alone.
  The invariant `UInv` adds to the one above: `Entries` (an entry has the first chunks of one
  request, without a gap; this is also what bounds the type of the map), `Uploads` (nothing but a
  cancel comes after the end of a body; `asked` is empty until then), `Capacity` (no wire is
  overfull) and `Whole`: before a chunk, or an end, all of the body that comes before it is ahead on
  the same wire, or in the request's own entry if its start has been read; and the same for the next
  chunk a handler will send. An entry left by a lost connection is replaced when the start of the
  next request with its ID is read, which by `Opened` is before a chunk of that request; that
  nobody else's frames come in between is `Apart`.
* `AnswerProofs`: `AnsweredWhole` (`CleanEndComplete`). The frames of a forward have places: the
  head 0, the chunks 1, 2, ..., an end the one after. The invariant `AInv` says that a frame tells
  what its forward has done and that the places of a request grow along a wire (`Answers`), that a handler
  which has heard its own forward only has the places 0, 1, ... in order (`Listens`), and that on
  a connection its session still has open, all places between what was heard and a frame that is not an
  error are ahead of that frame (`Flow`); the places up to the next one are ahead of a forward that can
  still write. The next frame of its own that a handler hears is then the next place, or an
  error (`NextPlace`), and an answer that ends well is `Complete`. After a write that
  fails, no clean end of that forward is heard on that connection.

Every invariant and every action property that a passing run checks is thus a theorem. Only
model-checked are the liveness properties: liveness under fairness is outside what the proof
system handles.

## 6. Not modelled

Frame encoding, header filtering, URL normalisation, origin checks, logging, ngrok,
widgets, icons and scripts: no shared state, or only text. The inhibitors of each OS are
modelled through the idempotent interface of power.go. The counter of started requests is
only displayed. The GUI programs appear as the calls they make on one server or one client.

## 7. Plan

1. The client GUI with two clients of one configuration, which take each other's tunnel over
   without end.
2. `Relay` with several sessions of one tunnel, so that the contract covers takeovers.
