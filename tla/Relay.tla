-------------------------------- MODULE Relay --------------------------------
(***************************************************************************)
(* Relayed requests over one tunnel session (internal/server/relay.go and  *)
(* the request side of internal/server/tunnel.go): the HTTP handlers, each *)
(* with its mailbox, the bounded send queue and its writer, the reader     *)
(* that routes response frames, and close(), all interleaved.  The tunnel  *)
(* client is the environment: it answers what it has received in full,     *)
(* with any well-formed or broken stream of frames.                        *)
(*                                                                         *)
(* A request stands for its reqId: IDs grow and do not wrap around here.   *)
(***************************************************************************)
EXTENDS Naturals, Sequences

CONSTANTS Requests,     \* HTTP requests for /t/{tunnelID}/
          WithBody,     \* those that have a body
          Hijackable,   \* those over HTTP/1.1, whose connection can be cut
          SendCap,      \* sendQueueCap
          MailCap,      \* capacity of pendingResp.ch
          WireCap,      \* bound on frames between the client and the reader
          MaxBody,      \* bound on the chunks of a request body
          MaxChunks     \* bound on the chunks of a response body

ASSUME RelayAssumption ==
    /\ WithBody \subseteq Requests /\ Hijackable \subseteq Requests
    /\ SendCap \in Nat \ {0} /\ MailCap \in Nat \ {0} /\ WireCap \in Nat \ {0}
    /\ MaxBody \in Nat /\ MaxChunks \in Nat

VARIABLES pc,        \* pc[r]: where the handler of r is
          op,        \* op[r]: the frame it is sending
          uploaded,  \* uploaded[r]: chunks of the request body sent
          outcome,   \* outcome[r]: why the handler stops
          got,       \* got[r]: the chunks handed to the caller, in order
          truncated, \* truncated[r]: the caller's connection was cut
          gone,      \* gone[r]: the caller has left
          pending,   \* Session.pending
          mail,      \* mail[r]: pendingResp.ch
          over,      \* over[r]: pendingResp.done is closed
          sendQ,     \* Session.sendQ
          step,      \* how far close() of the session has come
          writer,    \* the writer goroutine
          held,      \* the frame the reader is delivering, if any
          wire,      \* frames on their way from the client to the reader
          peer,      \* peer[r]: what the client does for r
          sent,      \* sent[r]: response chunks the client has sent
          failed     \* the requests whose answer it ended with a failure

handlerVars == <<pc, op, uploaded, outcome, got, truncated, gone>>
mailVars    == <<pending, mail, over>>
peerVars    == <<wire, peer, sent, failed>>
vars == <<handlerVars, mailVars, sendQ, step, writer, held, peerVars>>

Kinds  == {"start", "chunk", "end", "fail", "bad"}
Frame  == [req : Requests, kind : Kinds, seq : 0..MaxChunks+1]
NoFrame == <<>>
Ops    == {"none", "start", "chunk", "end", "cancel"}
PCs    == {"idle", "register", "check", "select", "upload", "first", "stream",
           "write", "finish", "done"}
Outcomes == {"none", "error", "end", "fail", "bad", "dropped", "left", "idle"}

Init ==
    /\ pc = [r \in Requests |-> "idle"]
    /\ op = [r \in Requests |-> "none"]
    /\ uploaded = [r \in Requests |-> 0]
    /\ outcome = [r \in Requests |-> "none"]
    /\ got = [r \in Requests |-> <<>>]
    /\ truncated = [r \in Requests |-> FALSE]
    /\ gone = [r \in Requests |-> FALSE]
    /\ pending = {}
    /\ mail = [r \in Requests |-> <<>>]
    /\ over = [r \in Requests |-> FALSE]
    /\ sendQ = <<>>
    /\ step = "open"
    /\ writer = "run"
    /\ held = NoFrame
    /\ wire = <<>>
    /\ peer = [r \in Requests |-> "none"]
    /\ sent = [r \in Requests |-> 0]
    /\ failed = {}

closed == step # "open"                             \* Session.closed
done   == step \in {"done", "detached", "offline"}  \* Session.done
Detached == step \in {"detached", "offline"}        \* pending was torn down

-----------------------------------------------------------------------------
(* handleRelay.  Moves the handler of r, which sends frame f next if any. *)
Goto(r, l) == pc' = [pc EXCEPT ![r] = l]
Send(r, f) == pc' = [pc EXCEPT ![r] = "check"] /\ op' = [op EXCEPT ![r] = f]
Sent(r, l) == Goto(r, l) /\ op' = [op EXCEPT ![r] = "none"]
Decide(r, o) == outcome' = [outcome EXCEPT ![r] = o]

(* The session pointer is loaded; an offline tunnel is answered with 502. *)
Arrive(r) ==
    /\ pc[r] = "idle"
    /\ \/ step # "offline" /\ Goto(r, "register") /\ UNCHANGED outcome
       \/ step = "offline" /\ Goto(r, "done") /\ Decide(r, "error")
    /\ UNCHANGED <<op, uploaded, got, truncated, gone, mailVars, sendQ, step,
                   writer, held, peerVars>>

(* NextReqID and RegisterPending, possibly after the session has died. *)
RegisterPending(r) ==
    /\ pc[r] = "register"
    /\ pending' = pending \cup {r}
    /\ Send(r, "start")
    /\ UNCHANGED <<uploaded, outcome, got, truncated, gone, mail, over, sendQ,
                   step, writer, held, peerVars>>

(* A failed send: cancel and 502, unless it was the cancel that failed. *)
SendFailed(r) ==
    IF op[r] = "cancel" THEN Sent(r, "finish") /\ UNCHANGED outcome
                        ELSE Send(r, "cancel") /\ Decide(r, "error")

(* Variant: the closed flag is not tested. *)
SendUnchecked(r) ==
    /\ pc[r] = "check"
    /\ Goto(r, "select")
    /\ UNCHANGED <<op, uploaded, outcome, got, truncated, gone, mailVars, sendQ, step,
                   writer, held, peerVars>>

(* sendWithContext tests the closed flag ... *)
SendCheck(r) ==
    /\ pc[r] = "check"
    /\ \/ closed /\ SendFailed(r)
       \/ ~closed /\ Goto(r, "select") /\ UNCHANGED <<op, outcome>>
    /\ UNCHANGED <<uploaded, got, truncated, gone, mailVars, sendQ, step,
                   writer, held, peerVars>>

(* Variant: an unbounded queue. *)
SendUnbounded(r) ==
    /\ pc[r] = "select"
    /\ sendQ' = Append(sendQ, [req |-> r, kind |-> op[r]])
    /\ Sent(r, "first")
    /\ UNCHANGED <<uploaded, outcome, got, truncated, gone, mailVars, step, writer, held,
                   peerVars>>

(* ... and then waits for room in the queue ... *)
SendEnqueue(r) ==
    /\ pc[r] = "select" /\ Len(sendQ) < SendCap
    /\ sendQ' = Append(sendQ, [req |-> r, kind |-> op[r]])
    /\ \/ op[r] = "start" /\ Sent(r, IF r \in WithBody THEN "upload" ELSE "first")
       \/ op[r] = "chunk" /\ Sent(r, "upload")
       \/ op[r] = "end" /\ Sent(r, "first")
       \/ op[r] = "cancel" /\ Sent(r, "finish")
    /\ UNCHANGED <<uploaded, outcome, got, truncated, gone, mailVars, step,
                   writer, held, peerVars>>

(* Variant: done is not waited for. *)
SendIgnoresDone(r) ==
    /\ pc[r] = "select"
    /\ IF op[r] = "cancel" THEN Len(sendQ) = SendCap ELSE gone[r]
    /\ SendFailed(r)
    /\ UNCHANGED <<uploaded, got, truncated, gone, mailVars, sendQ, step, writer, held,
                   peerVars>>

(* ... for done, for the caller to go or, sending cancel, for 5 seconds. *)
SendAborts(r) ==
    /\ pc[r] = "select"
    /\ done \/ (IF op[r] = "cancel" THEN Len(sendQ) = SendCap ELSE gone[r])
    /\ SendFailed(r)
    /\ UNCHANGED <<uploaded, got, truncated, gone, mailVars, sendQ, step,
                   writer, held, peerVars>>

(* streamBody: a chunk was read, the body has ended, or it cannot be read. *)
(* The read has no deadline: nothing but the caller makes it return.       *)
UploadChunk(r) ==
    /\ pc[r] = "upload" /\ uploaded[r] < MaxBody
    /\ uploaded' = [uploaded EXCEPT ![r] = @ + 1]
    /\ Send(r, "chunk")
    /\ UNCHANGED <<outcome, got, truncated, gone, mailVars, sendQ, step, writer,
                   held, peerVars>>

UploadEnds(r) ==
    /\ pc[r] = "upload"
    /\ \/ Send(r, "end") /\ UNCHANGED outcome
       \/ Send(r, "cancel") /\ Decide(r, "error")
    /\ UNCHANGED <<uploaded, got, truncated, gone, mailVars, sendQ, step, writer,
                   held, peerVars>>

(* Stage one: the first frame decides the status, which is then written. *)
FirstFrame(r) ==
    /\ pc[r] = "first" /\ mail[r] # <<>>
    /\ mail' = [mail EXCEPT ![r] = Tail(@)]
    /\ \/ /\ Head(mail[r]).kind = "start"
          /\ Goto(r, "write") /\ UNCHANGED outcome
       \/ /\ Head(mail[r]).kind # "start"
          /\ Goto(r, "finish") /\ Decide(r, "error")
    /\ UNCHANGED <<op, uploaded, got, truncated, gone, pending, over, sendQ, step, writer,
                   held, peerVars>>

(* Stage two: chunks are passed on; anything else ends the response. *)
StreamFrame(r) ==
    /\ pc[r] = "stream" /\ mail[r] # <<>>
    /\ mail' = [mail EXCEPT ![r] = Tail(@)]
    /\ \/ /\ Head(mail[r]).kind = "chunk"
          /\ got' = [got EXCEPT ![r] = Append(@, Head(mail[r]).seq)]
          /\ Goto(r, "write") /\ UNCHANGED outcome
       \/ /\ Head(mail[r]).kind \in {"end", "fail"}
          /\ Goto(r, "finish") /\ Decide(r, Head(mail[r]).kind) /\ UNCHANGED got
       \/ /\ Head(mail[r]).kind \in {"start", "bad"}
          /\ Goto(r, "finish") /\ Decide(r, "bad") /\ UNCHANGED got
    /\ UNCHANGED <<op, uploaded, truncated, gone, pending, over, sendQ, step, writer,
                   held, peerVars>>

(* Write and Flush to the caller return; they have no deadline either, and *)
(* an error of theirs is ignored.                                          *)
WriteReturns(r) ==
    /\ pc[r] = "write"
    /\ Goto(r, "stream")
    /\ UNCHANGED <<op, uploaded, outcome, got, truncated, gone, mailVars, sendQ, step,
                   writer, held, peerVars>>

(* pr.done is closed: 502 in stage one, a plain return in stage two. *)
Dropped(r) ==
    /\ pc[r] \in {"first", "stream"} /\ over[r]
    /\ Goto(r, "finish")
    /\ Decide(r, IF pc[r] = "stream" THEN "dropped" ELSE "error")
    /\ UNCHANGED <<op, uploaded, got, truncated, gone, mailVars, sendQ, step, writer,
                   held, peerVars>>

(* relayTimeout, streamIdleTimeout, or the caller has gone: send cancel. *)
TimesOut(r) ==
    /\ pc[r] \in {"first", "stream"}
    /\ \/ Decide(r, IF pc[r] = "stream" THEN "idle" ELSE "error")
       \/ gone[r] /\ Decide(r, IF pc[r] = "stream" THEN "left" ELSE "error")
    /\ Send(r, "cancel")
    /\ UNCHANGED <<uploaded, got, truncated, gone, mailVars, sendQ, step, writer,
                   held, peerVars>>

(* Variant: the connection is never cut. *)
TruncatesNever(r) == FALSE

(* truncateResponse, called for an idle stream: HTTP/2 cannot be hijacked. *)
truncateResponse(r) == outcome[r] = "idle" /\ r \in Hijackable

(* The handler has written its answer; the deferred UnregisterPending runs. *)
Finish(r) ==
    /\ pc[r] = "finish"
    /\ Goto(r, "done")
    /\ truncated' = [truncated EXCEPT ![r] = truncateResponse(r)]
    /\ over' = [over EXCEPT ![r] = @ \/ r \in pending]
    /\ pending' = pending \ {r}
    /\ uploaded' = [uploaded EXCEPT ![r] = 0]
    /\ UNCHANGED <<op, outcome, got, gone, mail, sendQ, step, writer,
                   held, peerVars>>

CallerLeaves(r) ==
    /\ pc[r] \notin {"idle", "finish", "done"} /\ ~gone[r]
    /\ gone' = [gone EXCEPT ![r] = TRUE]
    /\ UNCHANGED <<pc, op, uploaded, outcome, got, truncated, mailVars, sendQ, step,
                   writer, held, peerVars>>

-----------------------------------------------------------------------------
(* readLoop and routeResponse: look the mailbox up, then block on it. *)
RouteLookup ==
    /\ held = NoFrame /\ wire # <<>> /\ ~done
    /\ held' = IF Head(wire).req \in pending THEN Head(wire) ELSE NoFrame
    /\ wire' = Tail(wire)
    /\ UNCHANGED <<handlerVars, mailVars, sendQ, step, writer, peer, sent, failed>>

(* Variants: a full mailbox loses the frame; nothing aborts the delivery. *)
RouteDrops ==
    /\ held # NoFrame
    /\ mail' = IF Len(mail[held.req]) < MailCap
               THEN [mail EXCEPT ![held.req] = Append(@, held)] ELSE mail
    /\ held' = NoFrame
    /\ UNCHANGED <<handlerVars, pending, over, sendQ, step, writer, peerVars>>

RouteInsists ==
    /\ held # NoFrame
    /\ Len(mail[held.req]) < MailCap
    /\ mail' = [mail EXCEPT ![held.req] = Append(@, held)]
    /\ held' = NoFrame
    /\ UNCHANGED <<handlerVars, pending, over, sendQ, step, writer, peerVars>>

RouteDeliver ==
    /\ held # NoFrame
    /\ \/ /\ Len(mail[held.req]) < MailCap
          /\ mail' = [mail EXCEPT ![held.req] = Append(@, held)]
       \/ over[held.req] /\ UNCHANGED mail
    /\ held' = NoFrame
    /\ UNCHANGED <<handlerVars, pending, over, sendQ, step, writer, peerVars>>

(* writeLoop: the client receives the frames in the order of the queue. *)
WriterWrites ==
    /\ writer = "run" /\ sendQ # <<>> /\ ~done
    /\ sendQ' = Tail(sendQ)
    /\ LET r == Head(sendQ).req  k == Head(sendQ).kind IN
       \/ /\ k = "start"
          /\ peer' = [peer EXCEPT ![r] = IF r \in WithBody THEN "assembling" ELSE "ready"]
       \/ k = "chunk" /\ UNCHANGED peer
       \/ k = "end" /\ peer' = [peer EXCEPT ![r] = "ready"]
       \/ k = "cancel" /\ peer' \in {peer, [peer EXCEPT ![r] = "stopped"]}
    /\ UNCHANGED <<handlerVars, mailVars, step, writer, held, wire, sent,
                   failed>>

(* It ends on done or on a ping that is refused (the session is closed, or *)
(* the queue is full and only the writer empties it), or on a failed write. *)
WriterEnds ==
    /\ writer = "run"
    /\ \/ (closed \/ Len(sendQ) = SendCap) /\ UNCHANGED sendQ
       \/ sendQ # <<>> /\ sendQ' = Tail(sendQ)
    /\ writer' = "exited"
    /\ UNCHANGED <<handlerVars, mailVars, step, held, peerVars>>

(***************************************************************************)
(* close(): the closed flag; the connection and done; the mailboxes of all *)
(* pending requests, under pendingMu; the tunnel's session pointer.        *)
(***************************************************************************)
CloseBegins ==
    /\ step = "open"
    /\ step' = "swapped"
    /\ UNCHANGED <<handlerVars, mailVars, sendQ, writer, held, peerVars>>

CloseConn ==
    /\ step = "swapped"
    /\ step' = "done"
    /\ wire' = <<>>
    /\ UNCHANGED <<handlerVars, mailVars, sendQ, writer, held, peer, sent, failed>>

(* Variant: the closed mailboxes stay in the map. *)
CloseKeepsPending ==
    /\ step = "done"
    /\ step' = "detached"
    /\ over' = [r \in Requests |-> over[r] \/ r \in pending]
    /\ UNCHANGED <<handlerVars, pending, mail, sendQ, writer, held, peerVars>>

CloseMailboxes ==
    /\ step = "done"
    /\ step' = "detached"
    /\ over' = [r \in Requests |-> over[r] \/ r \in pending]
    /\ pending' = {}
    /\ UNCHANGED <<handlerVars, mail, sendQ, writer, held, peerVars>>

CloseDetach ==
    /\ step = "detached"
    /\ step' = "offline"
    /\ UNCHANGED <<handlerVars, mailVars, sendQ, writer, held, peerVars>>

-----------------------------------------------------------------------------
(***************************************************************************)
(* The tunnel client answers a request it has in full.  What it sends once *)
(* the handler has returned reaches no one (RouteLookup); only the frames  *)
(* that are then already on their way are kept.  A frame is numbered, for  *)
(* the properties, by its place in the response: the first one is 0.       *)
(***************************************************************************)
Emit(r, kind, n) ==
    /\ Len(wire) < WireCap /\ ~done /\ pc[r] # "done"
    /\ wire' = Append(wire, [req |-> r, kind |-> kind, seq |-> n])
    /\ UNCHANGED <<handlerVars, mailVars, sendQ, step, writer, held>>

PeerStarts(r) ==
    /\ peer[r] = "ready"
    /\ peer' = [peer EXCEPT ![r] = "streaming"]
    /\ Emit(r, "start", 0)
    /\ UNCHANGED <<sent, failed>>

PeerSendsChunk(r) ==
    /\ peer[r] = "streaming" /\ sent[r] < MaxChunks
    /\ sent' = [sent EXCEPT ![r] = @ + 1]
    /\ Emit(r, "chunk", sent[r] + 1)
    /\ UNCHANGED <<peer, failed>>

PeerEnds(r) ==
    /\ peer[r] \in {"ready", "streaming"}
    /\ \E kind \in {"end", "fail", "bad"} :
          /\ Emit(r, kind, IF peer[r] = "ready" THEN 0 ELSE sent[r] + 1)
          /\ failed' = IF kind = "end" THEN failed ELSE failed \cup {r}
    /\ peer' = [peer EXCEPT ![r] = "stopped"]
    /\ UNCHANGED sent

-----------------------------------------------------------------------------
Handler(r) ==
    \/ RegisterPending(r) \/ SendCheck(r) \/ SendEnqueue(r) \/ SendAborts(r)
    \/ FirstFrame(r) \/ StreamFrame(r) \/ Dropped(r) \/ TimesOut(r) \/ Finish(r)

(* What the caller's connection lets the handler do. *)
Caller(r) == UploadChunk(r) \/ UploadEnds(r) \/ WriteReturns(r)

Client(r) == PeerStarts(r) \/ PeerSendsChunk(r) \/ PeerEnds(r)

Reader == RouteLookup \/ RouteDeliver

CloseStep == CloseConn \/ CloseMailboxes \/ CloseDetach

Next ==
    \/ \E r \in Requests :
          Handler(r) \/ Arrive(r) \/ Caller(r) \/ CallerLeaves(r) \/ Client(r)
    \/ Reader \/ WriterWrites \/ WriterEnds
    \/ CloseBegins \/ CloseStep

(***************************************************************************)
(* Handlers, the reader, the writer and a close() that has begun keep      *)
(* running.  A read from the caller and a write to it have no deadline:    *)
(* they return for certain only once its connection is closed.  When the   *)
(* writer has exited, the connection is broken, or the client hears no     *)
(* more pings and drops it, which closes the session as soon as the reader *)
(* reads from it again.  Nothing is assumed of the client's answers.       *)
(***************************************************************************)
Fairness ==
    /\ \A r \in Requests : /\ WF_vars(Handler(r))
                           /\ WF_vars(gone[r] /\ (UploadEnds(r) \/ WriteReturns(r)))
    /\ WF_vars(Reader) /\ WF_vars(WriterWrites) /\ WF_vars(CloseStep)
    /\ WF_vars(writer = "exited" /\ held = NoFrame /\ CloseBegins)

Spec == Init /\ [][Next]_vars
FairSpec == Spec /\ Fairness

-----------------------------------------------------------------------------
QFrame == [req : Requests, kind : Ops \ {"none"}]

TypeOK ==
    /\ pc \in [Requests -> PCs]
    /\ op \in [Requests -> Ops]
    /\ uploaded \in [Requests -> 0..MaxBody]
    /\ outcome \in [Requests -> Outcomes]
    /\ got \in [Requests -> Seq(0..MaxChunks+1)]
    /\ truncated \in [Requests -> BOOLEAN]
    /\ gone \in [Requests -> BOOLEAN]
    /\ pending \subseteq Requests
    /\ mail \in [Requests -> Seq(Frame)]
    /\ \A r \in Requests : Len(mail[r]) <= MailCap
    /\ over \in [Requests -> BOOLEAN]
    /\ sendQ \in Seq(QFrame) /\ Len(sendQ) <= SendCap
    /\ step \in {"open", "swapped", "done", "detached", "offline"}
    /\ writer \in {"run", "exited"}
    /\ held \in Frame \cup {NoFrame}
    /\ wire \in Seq(Frame) /\ Len(wire) <= WireCap
    /\ peer \in [Requests -> {"none", "assembling", "ready", "streaming", "stopped"}]
    /\ sent \in [Requests -> 0..MaxChunks]
    /\ failed \subseteq Requests

(***************************************************************************)
(* A done channel is closed at most once: a mailbox that is still pending  *)
(* has an open one, so neither UnregisterPending nor close() panics        *)
(* (close() forgets, under pendingMu, every mailbox it closes).            *)
(***************************************************************************)
NoDoubleClose == \A r \in pending : ~over[r]

(***************************************************************************)
(* Once close() has gone through the mailboxes, no handler waits for an    *)
(* answer that cannot come: its done channel is closed, even if it         *)
(* registered while the session was being torn down (close, the closed     *)
(* flag in sendWithContext, RegisterPending).                              *)
(***************************************************************************)
TeardownWakesWaiters ==
    Detached => \A r \in Requests : pc[r] \in {"first", "stream"} => over[r]

(***************************************************************************)
(* No chunk is dropped, repeated or reordered: at any time the caller has  *)
(* a prefix of what the client sent, however slow the caller is and        *)
(* however the session ends (routeResponse blocks instead of dropping).    *)
(***************************************************************************)
NoSilentGap ==
    \A r \in Requests : /\ Len(got[r]) <= sent[r]
                        /\ \A i \in 1..Len(got[r]) : got[r][i] = i

(***************************************************************************)
(* A response that ends with response_end without an error is complete.    *)
(***************************************************************************)
EndMeansComplete ==
    \A r \in Requests : outcome[r] = "end" => Len(got[r]) = sent[r]

(***************************************************************************)
(* The code waits without a deadline for two things only: for the caller,  *)
(* to upload or to take what is written, and, in the reader, for room in   *)
(* the mailbox of a handler that waits for its caller.                     *)
(***************************************************************************)
WaitsForCaller(r) == pc[r] \in {"upload", "write"} /\ ~gone[r]
Stalled(r) == held # NoFrame /\ held.req = r /\ pc[r] = "write" /\ ~gone[r]

(***************************************************************************)
(* Every relayed request is answered, unless its own caller keeps it       *)
(* waiting for ever, or another one the session's reader: no handler stays *)
(* blocked in a full send queue, on a dead session or on a silent client.  *)
(***************************************************************************)
HandlersFinish ==
    \A r \in Requests : pc[r] # "idle" ~>
        \/ pc[r] = "done"
        \/ []WaitsForCaller(r)
        \/ \E q \in Requests : []Stalled(q)

(***************************************************************************)
(* The session's only reader is blocked for good by nothing but a caller   *)
(* that neither takes its response nor leaves; a handler that uploads,     *)
(* sends, times out or has returned lets it go (routeResponse,             *)
(* UnregisterPending).                                                     *)
(***************************************************************************)
ReaderMovesOn == held # NoFrame ~> held = NoFrame \/ \E q \in Requests : []Stalled(q)

-----------------------------------------------------------------------------
(* What the caller of r sees: net/http ends the body normally when the     *)
(* handler just returns, whatever made it return.                          *)
StatusWritten(r) ==
    pc[r] \in {"stream", "write"} \/ outcome[r] \notin {"none", "error"}
Verdict(r) == IF pc[r] # "done" THEN "none"
              ELSE IF outcome[r] = "error" THEN "refused"
              ELSE IF truncated[r] THEN "broken" ELSE "ended"

Contract == INSTANCE RelayContract WITH
    Cuttable <- Hijackable,
    accepted <- [r \in Requests |-> pc[r] # "idle"],
    produced <- sent,
    ended    <- [r \in Requests |-> peer[r] = "stopped"],
    failed   <- failed,
    online   <- ~closed,
    left     <- {r \in Requests : gone[r]},
    opened   <- [r \in Requests |-> StatusWritten(r)],
    body     <- got,
    verdict  <- [r \in Requests |-> Verdict(r)]

(***************************************************************************)
(* The relay keeps its contract with every caller, over all interleavings  *)
(* of its handlers, the reader, the writer and the teardown.               *)
(***************************************************************************)
ContractKept == Contract!Spec

-----------------------------------------------------------------------------
(* The comment of close(): the handlers of pending requests see done and   *)
(* fail the request; after the status was written, only a cut connection   *)
(* tells the caller so (the comment of truncateResponse).                  *)
DroppedIsFailed ==
    \A r \in Hijackable : pc[r] = "done" /\ outcome[r] = "dropped" => truncated[r]
=============================================================================
