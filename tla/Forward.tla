-------------------------------- MODULE Forward --------------------------------
(***************************************************************************)
(* Both ends of the relay over successive connections of one tunnel: the   *)
(* server's handlers with the request IDs and pending maps of their        *)
(* sessions (tunnel.go, relay.go), and the client's request side           *)
(* (client.go: pending, active, the semaphore and the forward goroutines). *)
(* Request IDs wrap around, and restart with every session; the client's   *)
(* maps and its forwards outlive the connection.  The local target answers *)
(* as it likes, or never.                                                  *)
(***************************************************************************)
EXTENDS Naturals, Sequences, SequencesExt, Functions, FiniteSets

CONSTANTS MaxReq,     \* bound on the HTTP requests for the tunnel
          IdSpace,    \* number of request IDs (2^32 in the code)
          MaxConn,    \* bound on the connections of the client; the last one stays
          Slots,      \* maxConcurrent
          WireCap,    \* bound on frames in one direction of a connection
          MaxBody,    \* bound on the chunks of a request body
          MaxChunks   \* bound on the chunks of a response body

ASSUME ForwardAssumption ==
    /\ {IdSpace, MaxConn, Slots, WireCap} \subseteq Nat \ {0}
    /\ MaxReq \in Nat /\ MaxBody \in Nat /\ MaxChunks \in Nat

VARIABLES pc,        \* pc[r]: where the handler of r is
          session,   \* session[r]: the session it uses
          id,        \* id[r]: its reqID
          uploaded,  \* uploaded[r]: chunks of the request body sent
          heard,     \* heard[r]: the response frames it has taken
          online,    \* Tunnel.session (0 is nil)
          srv,       \* srv[s]: the server's end of the s-th connection
          pendingS,  \* pendingS[s]: Session.pending
          down, up,  \* frames under way to the client and to the server
          conn,      \* Client.conn (0 is nil)
          cli,       \* cli[s]: the client's end of the s-th connection
          pendingC,  \* Client.pending: the request, with the owner of each chunk
          active,    \* Client.active: whose cancel function an ID has
          fwd,       \* fwd[r]: where the forward of r is
          asked,     \* asked[r]: the body it sends to the target
          cancelled, \* cancelled[r]: its context is cancelled
          produced   \* produced[r]: response chunks it has read

handlerVars == <<pc, session, id, uploaded, heard>>
serverVars  == <<online, srv, pendingS>>
linkVars    == <<conn, cli>>
mapVars     == <<pendingC, active>>
forwardVars == <<fwd, asked, cancelled, produced>>
vars == <<handlerVars, serverVars, down, up, linkVars, mapVars, forwardVars>>

Requests == 1..MaxReq   \* numbered in the order in which they arrive
NoReq == 0              \* what a map has for an ID without an entry
Conns == 1..MaxConn
Ids   == 0..IdSpace-1
NoEntry == [req |-> NoReq, chunks |-> <<>>]

Init ==
    /\ pc = [r \in Requests |-> "idle"]
    /\ session = [r \in Requests |-> 0] /\ id = [r \in Requests |-> 0]
    /\ uploaded = [r \in Requests |-> 0] /\ heard = [r \in Requests |-> <<>>]
    /\ online = 0
    /\ srv = [s \in Conns |-> "none"] /\ cli = [s \in Conns |-> "none"]
    /\ pendingS = [s \in Conns |-> [i \in Ids |-> NoReq]]
    /\ down = [s \in Conns |-> <<>>] /\ up = [s \in Conns |-> <<>>]
    /\ conn = 0
    /\ pendingC = [i \in Ids |-> NoEntry]
    /\ active = [i \in Ids |-> NoReq]
    /\ fwd = [r \in Requests |-> "none"] /\ asked = [r \in Requests |-> <<>>]
    /\ cancelled = [r \in Requests |-> FALSE]
    /\ produced = [r \in Requests |-> 0]

-----------------------------------------------------------------------------
(* handleRelay, for the session the tunnel has when the request arrives. *)
Goto(r, l) == pc' = [pc EXCEPT ![r] = l]

Arrive(r) ==
    /\ pc[r] = "idle" /\ online # 0
    /\ \A q \in 1..r-1 : pc[q] # "idle"
    /\ session' = [session EXCEPT ![r] = online]
    /\ Goto(r, "draw")
    /\ UNCHANGED <<id, uploaded, heard, serverVars, down, up, linkVars, mapVars,
                   forwardVars>>

(***************************************************************************)
(* The counter does not come round to an ID that is drawn but not yet      *)
(* registered, or that a finished request has left a forward or frames of: *)
(* in the code that takes 2^32 requests.                                   *)
(***************************************************************************)
InUse(r) ==
    \/ pc[r] = "register"
    \/ /\ pc[r] = "done"
       /\ \/ fwd[r] \notin {"none", "finished"}
          \/ \E f \in Range(down[session[r]]) \cup Range(up[session[r]]) : f.by = r

Lapsed(s, i) == \A r \in Requests : session[r] = s /\ id[r] = i => ~InUse(r)

(* Variant: the ID is not looked up. *)
NextReqIDBlind(r) ==
    /\ pc[r] = "draw"
    /\ \E i \in Ids : Lapsed(session[r], i) /\ id' = [id EXCEPT ![r] = i]
    /\ Goto(r, "register")
    /\ UNCHANGED <<session, uploaded, heard, serverVars, down, up, linkVars, mapVars,
                   forwardVars>>

(***************************************************************************)
(* NextReqID takes the first ID from the counter on that is not pending.   *)
(* The counter is anywhere, as requests that are not followed here draw    *)
(* from it too.                                                            *)
(***************************************************************************)
NextReqID(r) ==
    /\ pc[r] = "draw"
    /\ \E i \in Ids : /\ Lapsed(session[r], i) /\ pendingS[session[r]][i] = NoReq
                     /\ id' = [id EXCEPT ![r] = i]
    /\ Goto(r, "register")
    /\ UNCHANGED <<session, uploaded, heard, serverVars, down, up, linkVars, mapVars,
                   forwardVars>>

SetPending(s, i, r) == pendingS' = [pendingS EXCEPT ![s][i] = r]

RegisterPending(r) ==
    /\ pc[r] = "register"
    /\ SetPending(session[r], id[r], r)
    /\ Goto(r, "start")
    /\ UNCHANGED <<session, id, uploaded, heard, online, srv, down, up, linkVars,
                   mapVars, forwardVars>>

(* Variant: an unbounded queue. *)
ToClientUnbounded(s, f) == srv[s] = "open" /\ down' = [down EXCEPT ![s] = Append(@, f)]

(* A frame to the client: queued and written, or lost with the connection. *)
ToClient(s, f) ==
    /\ srv[s] = "open"
    /\ \/ Len(down[s]) < WireCap /\ cli[s] # "closed" /\ down' = [down EXCEPT ![s] = Append(@, f)]
       \/ cli[s] = "closed" /\ UNCHANGED down

(* Frames carry, for the properties, the request they come from (by). *)
Frame(r, kind, n) == [id |-> id[r], kind |-> kind, seq |-> n, by |-> r]

SendStart(r) ==
    /\ pc[r] = "start"
    /\ \E hasBody \in BOOLEAN :
          /\ ToClient(session[r], Frame(r, IF hasBody THEN "body" ELSE "nobody", 0))
          /\ Goto(r, IF hasBody THEN "upload" ELSE "wait")
    /\ UNCHANGED <<session, id, uploaded, heard, serverVars, up, linkVars, mapVars,
                   forwardVars>>

(* streamBody. *)
UploadChunk(r) ==
    /\ pc[r] = "upload" /\ uploaded[r] < MaxBody
    /\ uploaded' = [uploaded EXCEPT ![r] = @ + 1]
    /\ ToClient(session[r], Frame(r, "chunk", uploaded[r]))
    /\ UNCHANGED <<pc, session, id, heard, serverVars, up, linkVars, mapVars, forwardVars>>

UploadEnds(r) ==
    /\ pc[r] = "upload"
    /\ ToClient(session[r], Frame(r, "end", 0))
    /\ Goto(r, "wait")
    /\ UNCHANGED <<session, id, uploaded, heard, serverVars, up, linkVars, mapVars,
                   forwardVars>>

(* The handler returns; the deferred UnregisterPending runs. *)
Finish(r) == Goto(r, "done") /\ SetPending(session[r], id[r], NoReq)

(* A send fails, the caller leaves, a timer fires: cancel, if it can be sent. *)
GivesUp(r) ==
    /\ pc[r] \in {"start", "upload", "wait", "stream"}
    /\ Finish(r)
    /\ ToClient(session[r], Frame(r, "cancel", 0)) \/ UNCHANGED down
    /\ UNCHANGED <<session, id, uploaded, heard, online, srv, up, linkVars,
                   mapVars, forwardVars>>

-----------------------------------------------------------------------------
(***************************************************************************)
(* The session's reader looks the mailbox of a frame up, and the handler   *)
(* takes it when it waits for one; a frame nobody waits for is dropped.    *)
(***************************************************************************)
ServerReads(s) ==
    /\ srv[s] = "open" /\ up[s] # <<>>
    /\ up' = [up EXCEPT ![s] = Tail(@)]
    /\ LET f == Head(up[s])  r == pendingS[s][f.id] IN
       \/ r = NoReq /\ UNCHANGED <<pc, heard, pendingS>>
       \/ /\ r # NoReq
          /\ heard' = [heard EXCEPT ![r] = Append(@, f)]
          /\ \/ pc[r] = "wait" /\ f.kind = "start" /\ Goto(r, "stream") /\ UNCHANGED pendingS
             \/ pc[r] = "stream" /\ f.kind = "chunk" /\ UNCHANGED <<pc, pendingS>>
             \/ pc[r] = "wait" /\ f.kind # "start" /\ Finish(r)
             \/ pc[r] = "stream" /\ f.kind # "chunk" /\ Finish(r)
    /\ UNCHANGED <<session, id, uploaded, online, srv, down, linkVars, mapVars,
                   forwardVars>>

(***************************************************************************)
(* Session.close: the handlers of the session find it out by themselves.   *)
(* A bound: only connections that can be replaced are lost.                *)
(***************************************************************************)
ServerCloses(s) ==
    /\ srv[s] = "open" /\ s < MaxConn
    /\ srv' = [srv EXCEPT ![s] = "closed"]
    /\ up' = [up EXCEPT ![s] = <<>>]
    /\ pendingS' = [pendingS EXCEPT ![s] = [i \in Ids |-> NoReq]]
    /\ online' = IF online = s THEN 0 ELSE online
    /\ UNCHANGED <<handlerVars, down, linkVars, mapVars, forwardVars>>

(* The client's end: a read fails or times out, ... *)
ClientCloses ==
    /\ conn \in 1..MaxConn-1 /\ cli[conn] # "closed"
    /\ cli' = [cli EXCEPT ![conn] = "closed"]
    /\ down' = [down EXCEPT ![conn] = <<>>]
    /\ UNCHANGED <<handlerVars, serverVars, up, conn, mapVars, forwardVars>>

(* ... and Run dials again: a new session, a new counter, the same maps. *)
Redial ==
    /\ conn \notin {s \in Conns : cli[s] # "closed"} /\ conn < MaxConn
    /\ conn' = conn + 1 /\ online' = conn + 1
    /\ cli' = [cli EXCEPT ![conn + 1] = "open"]
    /\ srv' = [srv EXCEPT ![conn + 1] = "open"]
    /\ UNCHANGED <<handlerVars, pendingS, down, up, mapVars, forwardVars>>

-----------------------------------------------------------------------------
(* dispatch: the forward of request r begins, with what has been assembled. *)
Dispatch(r, i, chunks) ==
    /\ pendingC' = [pendingC EXCEPT ![i] = NoEntry]
    /\ fwd' = [fwd EXCEPT ![r] = "waiting"]
    /\ asked' = [asked EXCEPT ![r] = chunks]

(* Variant: an entry that is there already is kept. *)
RequestStartKeeps(f) ==
    \/ /\ f.kind = "body"
       /\ pendingC' = [pendingC EXCEPT ![f.id] = [req |-> f.by, chunks |-> @.chunks]]
       /\ UNCHANGED <<fwd, asked>>
    \/ f.kind = "nobody" /\ Dispatch(f.by, f.id, <<>>)

handleRequestStart(f) ==
    \/ /\ f.kind = "body"
       /\ pendingC' = [pendingC EXCEPT ![f.id] = [req |-> f.by, chunks |-> <<>>]]
       /\ UNCHANGED <<fwd, asked>>
    \/ f.kind = "nobody" /\ Dispatch(f.by, f.id, <<>>)

(* p.chunks[f.Seq] = data: a chunk is kept at its place, in whatever order chunks come. *)
Put(chunks, n, r) == [m \in DOMAIN chunks \cup {n} |-> IF m = n THEN r ELSE chunks[m]]

handleRequestChunk(f) ==
    /\ f.kind = "chunk"
    /\ pendingC' = IF pendingC[f.id].req = NoReq THEN pendingC
                   ELSE [pendingC EXCEPT ![f.id].chunks = Put(@, f.seq, f.by)]
    /\ UNCHANGED <<fwd, asked>>

handleRequestEnd(f) ==
    /\ f.kind = "end"
    /\ LET p == pendingC[f.id] IN
       \/ p.req # NoReq /\ Dispatch(p.req, f.id, p.chunks)
       \/ p.req = NoReq /\ UNCHANGED <<pendingC, fwd, asked>>

handleCancel(f) ==
    /\ f.kind = "cancel"
    /\ pendingC' = [pendingC EXCEPT ![f.id] = NoEntry]
    /\ active' = [active EXCEPT ![f.id] = NoReq]
    /\ cancelled' = [r \in Requests |-> cancelled[r] \/ active[f.id] = r]
    /\ UNCHANGED <<fwd, asked>>

(* readLoop: the only reader of the current connection. *)
ClientReads ==
    /\ conn # 0 /\ cli[conn] # "closed" /\ down[conn] # <<>>
    /\ down' = [down EXCEPT ![conn] = Tail(@)]
    /\ LET f == Head(down[conn]) IN
       \/ /\ handleRequestStart(f) \/ handleRequestChunk(f) \/ handleRequestEnd(f)
          /\ UNCHANGED <<active, cancelled>>
       \/ handleCancel(f)
    /\ UNCHANGED <<handlerVars, serverVars, up, linkVars, produced>>

-----------------------------------------------------------------------------
(* forward.  A slot is held from TakeSlot to Leave. *)
Holding == {"slot", "asking", "streaming", "failed", "leaving"}
GotoF(r, l) == fwd' = [fwd EXCEPT ![r] = l]

(***************************************************************************)
(* sendFrame on what c.conn now is.  A connection only this end still has  *)
(* swallows the frame or refuses it; a write that waits too long for room  *)
(* fails, and after it every other one on that connection.                 *)
(***************************************************************************)
Written(f) ==
    /\ cli[conn] = "open"
    /\ \/ srv[conn] = "open" /\ Len(up[conn]) < WireCap
          /\ up' = [up EXCEPT ![conn] = Append(@, f)]
       \/ srv[conn] = "closed" /\ UNCHANGED up
    /\ UNCHANGED cli

Refused ==
    /\ \/ cli[conn] # "open" /\ UNCHANGED cli
       \/ /\ cli[conn] = "open" /\ (srv[conn] = "closed" \/ Len(up[conn]) = WireCap)
          /\ cli' = [cli EXCEPT ![conn] = "broken"]
    /\ UNCHANGED up

TakeSlot(r) ==
    /\ fwd[r] = "waiting"
    /\ Cardinality({q \in Requests : fwd[q] \in Holding}) < Slots
    /\ GotoF(r, "slot")
    /\ UNCHANGED <<handlerVars, serverVars, down, up, linkVars, mapVars, asked, cancelled,
                   produced>>

(* The cancel function becomes known. *)
RegisterCancel(r) ==
    /\ fwd[r] = "slot"
    /\ active' = [active EXCEPT ![id[r]] = r]
    /\ GotoF(r, "asking")
    /\ UNCHANGED <<handlerVars, serverVars, down, up, linkVars, pendingC, asked, cancelled,
                   produced>>

(* Variant: the entry is removed once the response has started. *)
AnswerStartsForgetting(r) ==
    /\ fwd[r] = "asking"
    /\ \/ Written(Frame(r, "start", 0)) /\ GotoF(r, "streaming")
       \/ Refused /\ GotoF(r, "leaving")
    /\ active' = [active EXCEPT ![id[r]] = NoReq]
    /\ UNCHANGED <<handlerVars, serverVars, down, conn, pendingC, asked, cancelled, produced>>

(* The target answers ... *)
AnswerStarts(r) ==
    /\ fwd[r] = "asking"
    /\ \/ Written(Frame(r, "start", 0)) /\ GotoF(r, "streaming")
       \/ Refused /\ GotoF(r, "leaving")
    /\ UNCHANGED <<handlerVars, serverVars, down, conn, mapVars, asked, cancelled, produced>>

(* Variant: a cancelled context is not noticed. *)
AnswerFailsUncancelled(r) ==
    /\ fwd[r] = "asking" /\ ~cancelled[r]
    /\ Written(Frame(r, "start", 0)) \/ Refused
    /\ GotoF(r, "failed")
    /\ UNCHANGED <<handlerVars, serverVars, down, conn, mapVars, asked, cancelled, produced>>

(* ... or cannot be asked, or the context is cancelled: sendError. *)
AnswerFails(r) ==
    /\ fwd[r] = "asking"
    /\ Written(Frame(r, "start", 0)) \/ Refused
    /\ GotoF(r, "failed")
    /\ UNCHANGED <<handlerVars, serverVars, down, conn, mapVars, asked, cancelled, produced>>

StreamChunk(r) ==
    /\ fwd[r] = "streaming" /\ produced[r] < MaxChunks
    /\ produced' = [produced EXCEPT ![r] = @ + 1]
    /\ \/ Written(Frame(r, "chunk", produced[r] + 1)) /\ UNCHANGED fwd
       \/ Refused /\ GotoF(r, "leaving")
    /\ UNCHANGED <<handlerVars, serverVars, down, conn, mapVars, asked, cancelled>>

(* Variant: data that comes with the end of the file is not sent. *)
StreamEndsEarly(r) ==
    /\ fwd[r] = "streaming" /\ produced[r] < MaxChunks
    /\ produced' = [produced EXCEPT ![r] = @ + 1]
    /\ Written(Frame(r, "end", 0)) \/ Refused
    /\ GotoF(r, "leaving")
    /\ UNCHANGED <<handlerVars, serverVars, down, conn, mapVars, asked, cancelled>>

(* The body ends. *)
StreamEnds(r) ==
    /\ fwd[r] = "streaming"
    /\ Written(Frame(r, "end", 0)) \/ Refused
    /\ GotoF(r, "leaving")
    /\ UNCHANGED <<handlerVars, serverVars, down, conn, mapVars, asked, cancelled, produced>>

(* The body cannot be read on, as when the context is cancelled. *)
StreamFails(r) ==
    /\ fwd[r] \in {"streaming", "failed"}
    /\ Written(Frame(r, "fail", 0)) \/ Refused
    /\ GotoF(r, "leaving")
    /\ UNCHANGED <<handlerVars, serverVars, down, conn, mapVars, asked, cancelled, produced>>

(* The deferred calls; the ID is forgotten whoever has it now. *)
Leave(r) ==
    /\ fwd[r] = "leaving"
    /\ active' = [active EXCEPT ![id[r]] = NoReq]
    /\ GotoF(r, "finished")
    /\ UNCHANGED <<handlerVars, serverVars, down, up, linkVars, pendingC, asked, cancelled,
                   produced>>

-----------------------------------------------------------------------------
Handler(r) ==
    \/ Arrive(r) \/ NextReqID(r) \/ RegisterPending(r) \/ SendStart(r)
    \/ UploadChunk(r) \/ UploadEnds(r) \/ GivesUp(r)

Forward(r) ==
    \/ TakeSlot(r) \/ RegisterCancel(r) \/ AnswerStarts(r) \/ AnswerFails(r)
    \/ StreamChunk(r) \/ StreamEnds(r) \/ StreamFails(r) \/ Leave(r)

Next ==
    \/ \E r \in Requests : Handler(r) \/ Forward(r)
    \/ \E s \in Conns : ServerReads(s) \/ ServerCloses(s)
    \/ ClientCloses \/ Redial \/ ClientReads

(***************************************************************************)
(* A forward whose context is cancelled gets an error from the target, and *)
(* its writes have a deadline.  Nothing is assumed of the target, of the   *)
(* network, or of a slot becoming free.                                    *)
(***************************************************************************)
Aborts(r) == AnswerFails(r) \/ StreamFails(r)

Fairness ==
    \A r \in Requests : WF_vars(cancelled[r] /\ Aborts(r)) /\ WF_vars(Leave(r))

Spec == Init /\ [][Next]_vars
FairSpec == Spec /\ Fairness

-----------------------------------------------------------------------------
PCs  == {"idle", "draw", "register", "start", "upload", "wait", "stream", "done"}
FwdStates == Holding \cup {"none", "waiting", "finished"}
Kinds == {"body", "nobody", "start", "chunk", "end", "fail", "cancel"}
Message == [id : Ids, kind : Kinds, seq : 0..MaxBody + MaxChunks, by : Requests]
Bodies == UNION {[0..n-1 -> Requests] : n \in 0..MaxBody}

TypeOK ==
    /\ pc \in [Requests -> PCs]
    /\ session \in [Requests -> 0..MaxConn] /\ id \in [Requests -> Ids]
    /\ uploaded \in [Requests -> 0..MaxBody]
    /\ heard \in [Requests -> Seq(Message)]
    /\ online \in 0..MaxConn /\ conn \in 0..MaxConn
    /\ srv \in [Conns -> {"none", "open", "closed"}]
    /\ cli \in [Conns -> {"none", "open", "broken", "closed"}]
    /\ pendingS \in [Conns -> [Ids -> Requests \cup {NoReq}]]
    /\ down \in [Conns -> Seq(Message)] /\ up \in [Conns -> Seq(Message)]
    /\ \A s \in Conns : Len(down[s]) <= WireCap /\ Len(up[s]) <= WireCap
    /\ pendingC \in [Ids -> [req : Requests \cup {NoReq}, chunks : Bodies]]
    /\ active \in [Ids -> Requests \cup {NoReq}]
    /\ fwd \in [Requests -> FwdStates] /\ asked \in [Requests -> Bodies]
    /\ cancelled \in [Requests -> BOOLEAN]
    /\ produced \in [Requests -> 0..MaxChunks]

(***************************************************************************)
(* While its session lives, a handler's mailbox is the one registered for  *)
(* its ID: no later request takes an ID that is still in flight, wrapped   *)
(* around or not (NextReqID, RegisterPending, UnregisterPending).          *)
(***************************************************************************)
UniqueInFlight ==
    \A r \in Requests :
        pc[r] \in {"start", "upload", "wait", "stream"} /\ srv[session[r]] = "open"
            => pendingS[session[r]][id[r]] = r

(***************************************************************************)
(* Interleaved IDs never cross wires within a session: what a handler      *)
(* hears comes from the forward of its own request, or else from one of an *)
(* earlier session (routeResponse, sendFrame).                             *)
(***************************************************************************)
WiresWithinSession ==
    \A r \in Requests : \A f \in Range(heard[r]) :
        f.by = r \/ session[f.by] < session[r]

(***************************************************************************)
(* A handler that only heard its own forward, and heard it end without an  *)
(* error, has every chunk the target produced, in order.                   *)
(***************************************************************************)
CleanEndComplete ==
    \A r \in Requests :
        LET h == heard[r] IN
        (\A f \in Range(h) : f.by = r) /\ (h # <<>> /\ Last(h).kind = "end")
            => h = <<Frame(r, "start", 0)>>
                   \o [n \in 1..produced[r] |-> Frame(r, "chunk", n)]
                   \o <<Frame(r, "end", 0)>>

(***************************************************************************)
(* The target is asked with the body of the request, whole and unmixed,    *)
(* whatever an earlier connection has left in the pending map              *)
(* (handleRequestStart, handleRequestChunk, dispatch).                     *)
(***************************************************************************)
BodyWhole ==
    \A r \in Requests :
        fwd[r] # "none" => asked[r] = [n \in 0..uploaded[r]-1 |-> r]

(***************************************************************************)
(* A forward that is asking or streaming can be cancelled: its ID leads to *)
(* its cancel function, unless a request of another session has had the    *)
(* same ID (forward, handleCancel).                                        *)
(***************************************************************************)
Cancellable ==
    \A r \in Requests :
        /\ fwd[r] \in {"asking", "streaming"} /\ ~cancelled[r]
        /\ \A q \in Requests : id[q] = id[r] => session[q] \in {0, session[r]}
        => active[id[r]] = r

(***************************************************************************)
(* A forward that is cancelled gives its slot back, however silent the     *)
(* target and however stuck the connection (forward, sendFrame).           *)
(***************************************************************************)
CancelReleasesSlot ==
    \A r \in Requests : cancelled[r] ~> fwd[r] = "finished"

-----------------------------------------------------------------------------
(* Spec 8, test 12: interleaved reqIds never cross wires. *)
NeverCrossWires ==
    \A r \in Requests : \A f \in Range(heard[r]) : f.by = r
=============================================================================
