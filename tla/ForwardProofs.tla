----------------------------- MODULE ForwardProofs -----------------------------
(***************************************************************************)
(* Requests, answers and cancels are not mixed up within a session:        *)
(* theorems about Forward for any numbers of requests, request IDs,        *)
(* connections and slots.                                                  *)
(*                                                                         *)
(* An ID may be drawn again while a request that had it is over.  What     *)
(* keeps the two apart is that of all the requests of one session with one *)
(* ID only one has left a trace, a frame or a forward (Apart), and that    *)
(* one which is registered has no other beside it (Alone).                 *)
(***************************************************************************)
EXTENDS Forward, TLAPS

InFlight == {"start", "upload", "wait", "stream"}
Begun    == InFlight \cup {"done"}
Drawn    == Begun \cup {"register"}

Types ==
    /\ pc \in [Requests -> PCs]
    /\ session \in [Requests -> 0..MaxConn] /\ id \in [Requests -> Ids]
    /\ uploaded \in [Requests -> 0..MaxBody]
    /\ heard \in [Requests -> Seq(Message)]
    /\ online \in 0..MaxConn /\ conn \in 0..MaxConn
    /\ srv \in [Conns -> {"none", "open", "closed"}]
    /\ cli \in [Conns -> {"none", "open", "broken", "closed"}]
    /\ pendingS \in [Conns -> [Ids -> Requests \cup {NoReq}]]
    /\ down \in [Conns -> Seq(Message)] /\ up \in [Conns -> Seq(Message)]
    /\ DOMAIN pendingC = Ids
    /\ \A i \in Ids : /\ pendingC[i].req \in Requests \cup {NoReq}
                      /\ DOMAIN pendingC[i] = {"req", "chunks"}
    /\ active \in [Ids -> Requests \cup {NoReq}]
    /\ fwd \in [Requests -> FwdStates]
    /\ cancelled \in [Requests -> BOOLEAN]
    /\ produced \in [Requests -> 0..MaxChunks]

Sent(r, w) == \E f \in Range(w) : f.by = r
Trace(r) ==
    \/ fwd[r] \notin {"none", "finished"}
    \/ Sent(r, down[session[r]]) \/ Sent(r, up[session[r]])

(* The connections follow one another; a closed end reads no more. *)
Links ==
    /\ online # 0 => srv[online] = "open"
    /\ \A s \in Conns : /\ s < conn => cli[s] = "closed"
                        /\ s > conn <=> cli[s] = "none"
                        /\ s > conn <=> srv[s] = "none"
                        /\ srv[s] # "open" => up[s] = <<>>
                        /\ cli[s] \in {"none", "closed"} => down[s] = <<>>
    /\ \A r \in Requests : pc[r] # "idle" => session[r] \in 1..conn

(* Frames, forwards and pending entries come from requests with their ID. *)
Sources ==
    /\ \A s \in Conns : \A f \in Range(down[s]) :
          pc[f.by] \in Begun /\ session[f.by] = s /\ id[f.by] = f.id
    /\ \A s \in Conns : \A f \in Range(up[s]) :
          pc[f.by] \in Begun /\ session[f.by] <= s /\ id[f.by] = f.id
    /\ \A i \in Ids : pendingC[i].req # NoReq =>
          pc[pendingC[i].req] \in Begun /\ id[pendingC[i].req] = i
    /\ \A r \in Requests : fwd[r] # "none" => pc[r] \in Begun
    /\ \A r \in Requests : heard[r] # <<>> => pc[r] \in Begun
    /\ \A r \in Requests : \A f \in Range(heard[r]) : pc[f.by] \in Begun

(* Only the mailbox of a request in flight is registered. *)
Mailboxes ==
    \A s \in Conns, i \in Ids : LET r == pendingS[s][i] IN
        r # NoReq => pc[r] \in InFlight /\ session[r] = s /\ id[r] = i

Same(q, r) == pc[q] \in Drawn /\ pc[r] \in Drawn /\ session[q] = session[r] /\ id[q] = id[r]

(* A request with an ID in an open session is the only one that can do anything with it. *)
Alone ==
    \A r, q \in Requests :
        q # r /\ Same(q, r) /\ pc[r] # "done" /\ srv[session[r]] = "open"
            => pc[q] = "done" /\ ~Trace(q)

(* Of the requests of a session with one ID only one has left a trace. *)
Apart == \A r, q \in Requests : q # r /\ Same(q, r) => ~(Trace(q) /\ Trace(r))

(* The frames of a request are in order: body, chunks, end, and a cancel after all. *)
Order ==
    /\ \A s \in Conns : \A j, k \in 1..Len(down[s]) :
          j < k /\ down[s][j].by = down[s][k].by =>
              /\ down[s][k].kind \notin {"body", "nobody"}
              /\ down[s][j].kind # "cancel"
              /\ down[s][j].kind \in {"end", "nobody"} => down[s][k].kind = "cancel"
    /\ \A s \in Conns : \A f \in Range(down[s]) :
          /\ pc[f.by] # "start"
          /\ pc[f.by] = "upload" => f.kind \in {"body", "chunk"}
          /\ pc[f.by] \in {"wait", "stream"} => f.kind # "cancel"

(* Before a chunk or the end is read, the client has a pending entry of its request. *)
Starts(s, r, n) == \E j \in 1..n : down[s][j].by = r /\ down[s][j].kind = "body"
Opened ==
    /\ \A s \in Conns : \A k \in 1..Len(down[s]) :
          down[s][k].kind \in {"chunk", "end"} =>
              \/ Starts(s, down[s][k].by, k - 1)
              \/ pendingC[down[s][k].id].req = down[s][k].by
    /\ \A r \in Requests : LET s == session[r] IN
          pc[r] = "upload" /\ srv[s] = "open" /\ cli[s] # "closed" =>
              Starts(s, r, Len(down[s])) \/ pendingC[id[r]].req = r

(* Cancellable, without the IDs of requests that have not drawn one. *)
CancelKnown ==
    \A r \in Requests :
        /\ fwd[r] \in {"asking", "streaming"} /\ ~cancelled[r]
        /\ \A q \in Requests : pc[q] \in Drawn /\ id[q] = id[r] => session[q] = session[r]
        => active[id[r]] = r

IInv == /\ Types /\ Links /\ Sources /\ Mailboxes /\ Alone /\ Apart /\ Order /\ Opened
        /\ UniqueInFlight /\ WiresWithinSession /\ CancelKnown

-----------------------------------------------------------------------------
(* What sending, reading and losing frames does to those under way. *)
LEMMA WireFacts ==
  ASSUME NEW w \in Seq(Message)
  PROVE  /\ DOMAIN w = 1..Len(w) /\ Len(w) \in Nat /\ Range(w) \subseteq Message
         /\ \A k \in 1..Len(w) : w[k] \in Range(w)
         /\ \A f \in Range(w) : \E k \in 1..Len(w) : w[k] = f
         /\ \A f \in Message : /\ Append(w, f) \in Seq(Message)
                               /\ Range(Append(w, f)) = Range(w) \cup {f}
                               /\ Len(Append(w, f)) = Len(w) + 1
                               /\ \A k \in 1..Len(w) : Append(w, f)[k] = w[k]
                               /\ Append(w, f)[Len(w) + 1] = f
         /\ w # <<>> => /\ Head(w) \in Range(w) /\ Head(w) = w[1] /\ Len(w) >= 1
                        /\ Tail(w) \in Seq(Message)
                        /\ Range(Tail(w)) \subseteq Range(w)
                        /\ Len(Tail(w)) = Len(w) - 1
                        /\ \A k \in 1..Len(w) - 1 : Tail(w)[k] = w[k + 1]
<1>1. DOMAIN w = 1..Len(w) /\ Len(w) \in Nat OBVIOUS
<1>2. Range(w) \subseteq Message /\ \A k \in 1..Len(w) : w[k] \in Range(w) BY DEF Range
<1>3. \A f \in Range(w) : \E k \in 1..Len(w) : w[k] = f BY DEF Range
<1>4. ASSUME NEW f \in Message
      PROVE  /\ Append(w, f) \in Seq(Message)
             /\ Range(Append(w, f)) = Range(w) \cup {f}
             /\ Len(Append(w, f)) = Len(w) + 1
             /\ \A k \in 1..Len(w) : Append(w, f)[k] = w[k]
             /\ Append(w, f)[Len(w) + 1] = f
  <2>1. Len(Append(w, f)) = Len(w) + 1 /\ Append(w, f) \in Seq(Message) OBVIOUS
  <2>2. \A k \in 1..Len(w) : Append(w, f)[k] = w[k] OBVIOUS
  <2>3. Append(w, f)[Len(w) + 1] = f OBVIOUS
  <2>4. DOMAIN Append(w, f) = 1..Len(w) \cup {Len(w) + 1} BY <2>1
  <2>5. Range(Append(w, f)) = Range(w) \cup {f} BY <2>2, <2>3, <2>4, <1>1 DEF Range
  <2> QED BY <2>1, <2>2, <2>3, <2>5
<1>5. ASSUME w # <<>>
      PROVE  /\ Head(w) \in Range(w) /\ Head(w) = w[1] /\ Len(w) >= 1
             /\ Tail(w) \in Seq(Message)
             /\ Range(Tail(w)) \subseteq Range(w)
             /\ Len(Tail(w)) = Len(w) - 1
             /\ \A k \in 1..Len(w) - 1 : Tail(w)[k] = w[k + 1]
  <2>1. Len(w) >= 1 /\ Head(w) = w[1] BY <1>5
  <2>2. Tail(w) \in Seq(Message) /\ Len(Tail(w)) = Len(w) - 1 BY <1>5
  <2>3. \A k \in 1..Len(w) - 1 : Tail(w)[k] = w[k + 1] BY <1>5
  <2>4. Range(Tail(w)) \subseteq Range(w)
    <3>1. DOMAIN Tail(w) = 1..Len(w) - 1 BY <2>2
    <3>2. \A k \in 1..Len(w) - 1 : k + 1 \in 1..Len(w) BY <1>1
    <3> QED BY <1>1, <2>3, <3>1, <3>2 DEF Range
  <2> QED BY <1>2, <2>1, <2>2, <2>3, <2>4
<1> QED BY <1>1, <1>2, <1>3, <1>4, <1>5

LEMMA NothingSent == Range(<<>>) = {} /\ <<>> \in Seq(Message)
BY DEF Range

(* The steps of a handler that send a frame. *)
Sending(r) == SendStart(r) \/ UploadChunk(r) \/ UploadEnds(r) \/ GivesUp(r)

(* A frame of request r is on its way to the client, or lost. *)
SentDown(r, kinds) ==
    \/ cli[session[r]] = "closed" /\ UNCHANGED down
    \/ /\ srv[session[r]] = "open" /\ cli[session[r]] # "closed"
       /\ \E f \in Message :
             /\ f.by = r /\ f.id = id[r] /\ f.kind \in kinds
             /\ down' = [down EXCEPT ![session[r]] = Append(@, f)]

LEMMA FrameTyped ==
  ASSUME Types, NEW r \in Requests, NEW k \in Kinds, NEW n \in 0..MaxBody + MaxChunks
  PROVE  /\ Frame(r, k, n) \in Message /\ Frame(r, k, n).by = r
         /\ Frame(r, k, n).id = id[r] /\ Frame(r, k, n).kind = k
BY DEF Frame, Message, Types

(* A send succeeds only on an open session, and is lost if the client's end is closed. *)
LEMMA Sent1 ==
  ASSUME Types, NEW r \in Requests, NEW k \in Kinds, NEW n \in 0..MaxBody + MaxChunks,
         ToClient(session[r], Frame(r, k, n))
  PROVE  SentDown(r, {k}) /\ srv[session[r]] = "open"
BY FrameTyped DEF ToClient, SentDown

LEMMA SendStep ==
  ASSUME IInv, NEW r \in Requests, Sending(r)
  PROVE  /\ pc[r] \in InFlight /\ pc'[r] \in Begun
         /\ \A q \in Requests : q # r => pc'[q] = pc[q]
         /\ UNCHANGED <<session, id, heard, online, srv, up, linkVars, mapVars, forwardVars>>
         /\ \/ pendingS' = pendingS /\ pc'[r] \in InFlight /\ srv[session[r]] = "open"
            \/ /\ pendingS' = [pendingS EXCEPT ![session[r]][id[r]] = NoReq]
               /\ pc'[r] = "done"
         /\ \/ pc[r] = "start" /\ pc'[r] = "upload" /\ SentDown(r, {"body"})
            \/ pc[r] = "start" /\ pc'[r] = "wait" /\ SentDown(r, {"nobody"})
            \/ pc[r] = "upload" /\ pc'[r] = "upload" /\ SentDown(r, {"chunk"})
            \/ pc[r] = "upload" /\ pc'[r] = "wait" /\ SentDown(r, {"end"})
            \/ pc'[r] = "done" /\ (SentDown(r, {"cancel"}) \/ UNCHANGED down)
<1> USE DEF InFlight, Begun, Goto, serverVars, linkVars, mapVars, forwardVars
<1>0. Types BY DEF IInv
<1>1. 0 \in 0..MaxBody + MaxChunks /\ uploaded[r] \in Nat BY <1>0, ForwardAssumption DEF Types
<1>2. CASE SendStart(r)
  <2>1. PICK hasBody \in BOOLEAN :
           /\ ToClient(session[r], Frame(r, IF hasBody THEN "body" ELSE "nobody", 0))
           /\ Goto(r, IF hasBody THEN "upload" ELSE "wait")
    BY <1>2 DEF SendStart
  <2>2. SentDown(r, {IF hasBody THEN "body" ELSE "nobody"}) /\ srv[session[r]] = "open"
    BY <1>0, <1>1, <2>1, Sent1 DEF Kinds
  <2>3. pc[r] = "start" /\ pc'[r] = IF hasBody THEN "upload" ELSE "wait"
    BY <1>0, <1>2, <2>1 DEF SendStart, Types
  <2>4. \A q \in Requests : q # r => pc'[q] = pc[q] BY <1>0, <2>1 DEF Types
  <2>5. UNCHANGED <<session, id, heard, online, srv, up, linkVars, mapVars, forwardVars, pendingS>>
    BY <1>2 DEF SendStart
  <2> HIDE DEF linkVars, mapVars, forwardVars
  <2>6. CASE hasBody BY <2>2, <2>3, <2>4, <2>5, <2>6
  <2>7. CASE ~hasBody BY <2>2, <2>3, <2>4, <2>5, <2>7
  <2> QED BY <2>6, <2>7
<1>3. CASE UploadChunk(r)
  <2>1. uploaded[r] \in 0..MaxBody + MaxChunks
    BY <1>1, <1>3, ForwardAssumption DEF UploadChunk
  <2>2. SentDown(r, {"chunk"}) /\ srv[session[r]] = "open"
    BY <1>0, <1>3, <2>1, Sent1 DEF Kinds, UploadChunk
  <2> QED BY <1>0, <1>3, <2>2 DEF UploadChunk, Types
<1>4. CASE UploadEnds(r)
  <2>1. SentDown(r, {"end"}) /\ srv[session[r]] = "open"
    BY <1>0, <1>1, <1>4, Sent1 DEF Kinds, UploadEnds
  <2> QED BY <1>0, <1>4, <2>1 DEF UploadEnds, Types
<1>5. CASE GivesUp(r)
  <2>1. SentDown(r, {"cancel"}) \/ UNCHANGED down
    BY <1>0, <1>1, <1>5, Sent1 DEF Kinds, GivesUp
  <2> QED BY <1>0, <1>5, <2>1 DEF GivesUp, Finish, SetPending, Types
<1> QED BY <1>2, <1>3, <1>4, <1>5 DEF Sending

(* The steps of a forward that send a frame. *)
Answering(r) == AnswerStarts(r) \/ AnswerFails(r) \/ StreamChunk(r) \/ StreamEnds(r) \/ StreamFails(r)

(* A frame of request r is on its way to the server, or lost, or the connection is spoilt. *)
SentUp(r) ==
    \/ UNCHANGED up
    \/ /\ srv[conn] = "open"
       /\ \E f \in Message :
             f.by = r /\ f.id = id[r] /\ up' = [up EXCEPT ![conn] = Append(@, f)]

LEMMA Sent2 ==
  ASSUME Types, NEW r \in Requests, NEW k \in Kinds, NEW n \in 0..MaxBody + MaxChunks,
         Written(Frame(r, k, n)) \/ Refused
  PROVE  SentUp(r) /\ (UNCHANGED cli \/ (cli[conn] = "open" /\ cli' = [cli EXCEPT ![conn] = "broken"]))
BY FrameTyped DEF Written, Refused, SentUp

LEMMA AnswerStep ==
  ASSUME IInv, NEW r \in Requests, Answering(r)
  PROVE  /\ fwd[r] \in {"asking", "streaming", "failed"}
         /\ fwd'[r] \in {"streaming", "failed", "leaving"}
         /\ fwd'[r] = "streaming" => fwd[r] \in {"asking", "streaming"}
         /\ \A q \in Requests : q # r => fwd'[q] = fwd[q]
         /\ UNCHANGED <<handlerVars, serverVars, down, conn, mapVars, asked, cancelled>>
         /\ SentUp(r)
         /\ UNCHANGED cli \/ (cli[conn] = "open" /\ cli' = [cli EXCEPT ![conn] = "broken"])
<1> USE DEF GotoF
<1>0. Types BY DEF IInv
<1>1. 0 \in 0..MaxBody + MaxChunks /\ produced[r] \in 0..MaxChunks
  BY <1>0, ForwardAssumption DEF Types
<1>2. CASE AnswerStarts(r)
  BY <1>0, <1>1, <1>2, Sent2 DEF Kinds, AnswerStarts, Types, FwdStates
<1>3. CASE AnswerFails(r)
  BY <1>0, <1>1, <1>3, Sent2 DEF Kinds, AnswerFails, Types, FwdStates
<1>4. CASE StreamChunk(r)
  <2>1. produced[r] + 1 \in 0..MaxBody + MaxChunks
    BY <1>1, <1>4, ForwardAssumption DEF StreamChunk
  <2> QED BY <1>0, <2>1, <1>4, Sent2 DEF Kinds, StreamChunk, Types, FwdStates
<1>5. CASE StreamEnds(r)
  BY <1>0, <1>1, <1>5, Sent2 DEF Kinds, StreamEnds, Types, FwdStates
<1>6. CASE StreamFails(r)
  BY <1>0, <1>1, <1>6, Sent2 DEF Kinds, StreamFails, Types, FwdStates
<1> QED BY <1>2, <1>3, <1>4, <1>5, <1>6 DEF Answering

(* The reader of a session hands a frame to the handler that is registered for its ID. *)
LEMMA ReadStep ==
  ASSUME IInv, NEW s \in Conns, ServerReads(s)
  PROVE  LET f == Head(up[s])  r == pendingS[s][f.id] IN
         /\ srv[s] = "open" /\ f \in Message /\ f \in Range(up[s])
         /\ up' = [up EXCEPT ![s] = Tail(@)] /\ Tail(up[s]) \in Seq(Message)
         /\ Range(Tail(up[s])) \subseteq Range(up[s])
         /\ UNCHANGED <<session, id, uploaded, online, srv, down, linkVars, mapVars, forwardVars>>
         /\ \/ UNCHANGED <<pc, heard, pendingS>>
            \/ /\ r \in Requests /\ session[r] = s /\ id[r] = f.id
               /\ pc[r] \in {"wait", "stream"}
               /\ heard' = [heard EXCEPT ![r] = Append(@, f)]
               /\ \A q \in Requests : q # r => pc'[q] = pc[q]
               /\ \/ pc'[r] = "stream" /\ UNCHANGED pendingS
                  \/ pc'[r] = "done" /\ pendingS' = [pendingS EXCEPT ![s][f.id] = NoReq]
<1> DEFINE f == Head(up[s])
           r == pendingS[s][f.id]
<1>0. Types BY DEF IInv
<1>1. /\ srv[s] = "open" /\ up[s] # <<>> /\ up' = [up EXCEPT ![s] = Tail(@)]
      /\ UNCHANGED <<session, id, uploaded, online, srv, down, linkVars, mapVars, forwardVars>>
  BY DEF ServerReads
<1>2. /\ f \in Range(up[s]) /\ f \in Message /\ Tail(up[s]) \in Seq(Message)
      /\ Range(Tail(up[s])) \subseteq Range(up[s])
  <2>1. up[s] \in Seq(Message) BY <1>0 DEF Types
  <2> QED BY <1>1, <2>1, WireFacts
<1>3. f.id \in Ids BY <1>2 DEF Message
<1>4. CASE r = NoReq
  <2>1. UNCHANGED <<pc, heard, pendingS>>
    <3>1. pc[r] \in {} \/ r = NoReq BY <1>4
    <3>2. \A x : x = r => x = NoReq BY <1>4
    <3> QED BY <1>4 DEF ServerReads
  <2> QED BY <1>1, <1>2, <2>1
<1>5. CASE r # NoReq
  <2>1. r \in Requests /\ session[r] = s /\ id[r] = f.id
    BY <1>0, <1>3, <1>5 DEF Types, IInv, Mailboxes
  <2>2. /\ heard' = [heard EXCEPT ![r] = Append(@, f)]
        /\ \/ pc[r] = "wait" /\ f.kind = "start" /\ Goto(r, "stream") /\ UNCHANGED pendingS
           \/ pc[r] = "stream" /\ f.kind = "chunk" /\ UNCHANGED <<pc, pendingS>>
           \/ pc[r] = "wait" /\ f.kind # "start" /\ Finish(r)
           \/ pc[r] = "stream" /\ f.kind # "chunk" /\ Finish(r)
    BY <1>5 DEF ServerReads
  <2>3. pc \in [Requests -> PCs] BY <1>0 DEF Types
  <2> HIDE DEF f, r
  <2>4. /\ pc[r] \in {"wait", "stream"}
        /\ \A q \in Requests : q # r => pc'[q] = pc[q]
        /\ \/ pc'[r] = "stream" /\ UNCHANGED pendingS
           \/ pc'[r] = "done" /\ pendingS' = [pendingS EXCEPT ![s][f.id] = NoReq]
    BY <2>1, <2>2, <2>3 DEF Goto, Finish, SetPending
  <2> QED BY <1>1, <1>2, <2>1, <2>2, <2>4 DEF f, r
<1> QED BY <1>4, <1>5

(* The client's reader: what a frame does to the pending entry of its ID and to the forwards. *)
LEMMA ClientReadStep ==
  ASSUME IInv, ClientReads
  PROVE  LET f == Head(down[conn]) IN
         /\ conn \in Conns /\ f \in Message /\ f \in Range(down[conn])
         /\ down[conn] # <<>> /\ f = down[conn][1]
         /\ down' = [down EXCEPT ![conn] = Tail(@)]
         /\ UNCHANGED <<handlerVars, serverVars, up, linkVars, produced>>
         /\ DOMAIN pendingC' = Ids
         /\ \A i \in Ids : i # f.id => pendingC'[i] = pendingC[i]
         /\ DOMAIN pendingC'[f.id] = {"req", "chunks"}
         /\ \/ f.kind = "body" /\ pendingC'[f.id].req = f.by
            \/ f.kind = "chunk" /\ pendingC'[f.id].req = pendingC[f.id].req
            \/ f.kind \in {"nobody", "end", "cancel"} /\ pendingC'[f.id].req = NoReq
         /\ \/ UNCHANGED fwd
            \/ f.kind \in {"nobody", "end"} /\ fwd' = [fwd EXCEPT ![f.by] = "waiting"]
         /\ \/ UNCHANGED <<active, cancelled>>
            \/ /\ f.kind = "cancel" /\ UNCHANGED fwd
               /\ active' = [active EXCEPT ![f.id] = NoReq]
               /\ cancelled' = [r \in Requests |-> cancelled[r] \/ active[f.id] = r]
<1> DEFINE f == Head(down[conn])
<1>0. Types BY DEF IInv
<1>1. /\ conn \in Conns /\ down[conn] # <<>>
      /\ down' = [down EXCEPT ![conn] = Tail(@)]
      /\ UNCHANGED <<handlerVars, serverVars, up, linkVars, produced>>
      /\ \/ /\ handleRequestStart(f) \/ handleRequestChunk(f) \/ handleRequestEnd(f)
            /\ UNCHANGED <<active, cancelled>>
         \/ handleCancel(f)
  BY <1>0, ForwardAssumption DEF ClientReads, Conns, Types
<1>2. f \in Range(down[conn]) /\ f \in Message /\ f = down[conn][1] /\ 1 \in 1..Len(down[conn])
  <2>1. down[conn] \in Seq(Message) BY <1>0, <1>1 DEF Types
  <2> QED BY <1>1, <2>1, WireFacts
<1>3. f.id \in Ids /\ f.by \in Requests BY <1>2 DEF Message
<1>4. /\ DOMAIN pendingC = Ids /\ DOMAIN pendingC[f.id] = {"req", "chunks"}
  BY <1>0, <1>3 DEF Types
<1>5. f.kind = "end" => pendingC[f.id].req = f.by
  <2>1. f.kind = "end" =>
          Starts(conn, f.by, 1 - 1) \/ pendingC[f.id].req = f.by
    BY <1>1, <1>2 DEF IInv, Opened
  <2> QED BY <2>1 DEF Starts
<1> DEFINE Effect ==
      /\ DOMAIN pendingC' = Ids
      /\ \A i \in Ids : i # f.id => pendingC'[i] = pendingC[i]
      /\ DOMAIN pendingC'[f.id] = {"req", "chunks"}
      /\ \/ f.kind = "body" /\ pendingC'[f.id].req = f.by
         \/ f.kind = "chunk" /\ pendingC'[f.id].req = pendingC[f.id].req
         \/ f.kind \in {"nobody", "end", "cancel"} /\ pendingC'[f.id].req = NoReq
      /\ \/ UNCHANGED fwd
         \/ f.kind \in {"nobody", "end"} /\ fwd' = [fwd EXCEPT ![f.by] = "waiting"]
      /\ \/ UNCHANGED <<active, cancelled>>
         \/ /\ f.kind = "cancel" /\ UNCHANGED fwd
            /\ active' = [active EXCEPT ![f.id] = NoReq]
            /\ cancelled' = [r \in Requests |-> cancelled[r] \/ active[f.id] = r]
<1>6. Effect
  <2> HIDE DEF f
  <2>1. CASE handleRequestStart(f) /\ UNCHANGED <<active, cancelled>>
    BY <1>3, <1>4, <2>1 DEF handleRequestStart, Dispatch, NoEntry
  <2>2. CASE handleRequestChunk(f) /\ UNCHANGED <<active, cancelled>>
    BY <1>3, <1>4, <2>2 DEF handleRequestChunk
  <2>3. CASE handleRequestEnd(f) /\ UNCHANGED <<active, cancelled>>
    BY <1>3, <1>4, <1>5, <2>3 DEF handleRequestEnd, Dispatch, NoEntry
  <2>4. CASE handleCancel(f) BY <1>3, <1>4, <2>4 DEF handleCancel, NoEntry
  <2> QED BY <1>1, <2>1, <2>2, <2>3, <2>4
<1> QED BY <1>1, <1>2, <1>6

-----------------------------------------------------------------------------
(* A frame that is sent, or is not: what it adds. *)
LEMMA DownAdds ==
  ASSUME Types, NEW r \in Requests, NEW K, SentDown(r, K)
  PROVE  /\ down' \in [Conns -> Seq(Message)]
         /\ \A s \in Conns :
              \/ down'[s] = down[s]
              \/ /\ s = session[r] /\ srv[s] = "open" /\ cli[s] # "closed"
                 /\ \E f \in Message : /\ f.by = r /\ f.id = id[r] /\ f.kind \in K
                                       /\ down'[s] = Append(down[s], f)
<1>1. CASE UNCHANGED down BY <1>1 DEF Types
<1>2. CASE /\ srv[session[r]] = "open" /\ cli[session[r]] # "closed"
           /\ \E f \in Message :
                 /\ f.by = r /\ f.id = id[r] /\ f.kind \in K
                 /\ down' = [down EXCEPT ![session[r]] = Append(@, f)]
  <2>1. PICK f \in Message :
           /\ f.by = r /\ f.id = id[r] /\ f.kind \in K
           /\ down' = [down EXCEPT ![session[r]] = Append(@, f)]
    BY <1>2
  <2>2. down \in [Conns -> Seq(Message)] BY DEF Types
  <2>3. \A s \in Conns : Append(down[s], f) \in Seq(Message) BY <2>2
  <2>4. \A s \in Conns : \/ down'[s] = down[s]
                         \/ s = session[r] /\ down'[s] = Append(down[s], f)
    BY <2>1, <2>2
  <2> QED BY <1>2, <2>1, <2>2, <2>3, <2>4
<1> QED BY <1>1, <1>2 DEF SentDown

LEMMA UpAdds ==
  ASSUME Types, NEW r \in Requests, SentUp(r)
  PROVE  /\ up' \in [Conns -> Seq(Message)]
         /\ \A s \in Conns :
              \/ up'[s] = up[s]
              \/ /\ s = conn /\ srv[s] = "open"
                 /\ \E f \in Message : /\ f.by = r /\ f.id = id[r]
                                       /\ up'[s] = Append(up[s], f)
<1>1. CASE UNCHANGED up BY <1>1 DEF Types
<1>2. CASE /\ srv[conn] = "open"
           /\ \E f \in Message :
                 f.by = r /\ f.id = id[r] /\ up' = [up EXCEPT ![conn] = Append(@, f)]
  <2>1. PICK f \in Message :
           f.by = r /\ f.id = id[r] /\ up' = [up EXCEPT ![conn] = Append(@, f)]
    BY <1>2
  <2>2. up \in [Conns -> Seq(Message)] BY DEF Types
  <2>3. \A s \in Conns : Append(up[s], f) \in Seq(Message) BY <2>2
  <2>4. \A s \in Conns : \/ up'[s] = up[s]
                         \/ s = conn /\ up'[s] = Append(up[s], f)
    BY <2>1, <2>2
  <2> QED BY <1>2, <2>1, <2>2, <2>3, <2>4
<1> QED BY <1>1, <1>2 DEF SentUp

LEMMA SendingAdds ==
  ASSUME IInv, NEW r \in Requests, Sending(r)
  PROVE  SentDown(r, Kinds) \/ UNCHANGED down
<1>1. \A K \in SUBSET Kinds : SentDown(r, K) => SentDown(r, Kinds) BY DEF SentDown
<1> QED BY <1>1, SendStep DEF Kinds

LEMMA PendingSet ==
  ASSUME Types, NEW s, NEW i, NEW r \in Requests \cup {NoReq}, SetPending(s, i, r)
  PROVE  pendingS' \in [Conns -> [Ids -> Requests \cup {NoReq}]]
<1> DEFINE Maps == [Ids -> Requests \cup {NoReq}]
<1>1. pendingS \in [Conns -> Maps] BY DEF Types
<1>2. s \in Conns => [pendingS[s] EXCEPT ![i] = r] \in Maps BY <1>1
<1>3. pendingS' = [pendingS EXCEPT ![s] = [pendingS[s] EXCEPT ![i] = r]] BY DEF SetPending
<1> HIDE DEF Maps
<1>4. pendingS' \in [Conns -> Maps] BY <1>1, <1>2, <1>3
<1> QED BY <1>4 DEF Maps

LEMMA Finishes ==
  ASSUME Types, NEW r \in Requests, Finish(r)
  PROVE  /\ pc' \in [Requests -> PCs]
         /\ pendingS' \in [Conns -> [Ids -> Requests \cup {NoReq}]]
<1>1. pc' \in [Requests -> PCs] BY DEF Types, Finish, Goto, PCs
<1> QED BY <1>1, PendingSet DEF Finish

(* What each step does to the parts of the invariant. *)
LEMMA TypeStep == ASSUME IInv, [Next]_vars PROVE Types'
<1>0. Types BY DEF IInv
<1>1. ASSUME NEW r \in Requests, Arrive(r) \/ NextReqID(r) \/ RegisterPending(r) PROVE Types'
  <2>1. UNCHANGED <<uploaded, heard, online, srv, down, up, linkVars, mapVars, forwardVars>>
    BY <1>1 DEF Arrive, NextReqID, RegisterPending, serverVars
  <2>2. pc' \in [Requests -> PCs]
    BY <1>0, <1>1 DEF Types, Arrive, NextReqID, RegisterPending, Goto, PCs
  <2>3. session' \in [Requests -> 0..MaxConn] /\ id' \in [Requests -> Ids]
    <3>1. \/ session' = [session EXCEPT ![r] = online] /\ id' = id
          \/ session' = session /\ \E i \in Ids : id' = [id EXCEPT ![r] = i]
          \/ session' = session /\ id' = id
      BY <1>1 DEF Arrive, NextReqID, RegisterPending
    <3> QED BY <1>0, <3>1 DEF Types
  <2>4. pendingS' \in [Conns -> [Ids -> Requests \cup {NoReq}]]
    <3>1. SetPending(session[r], id[r], r) \/ UNCHANGED pendingS
      BY <1>1 DEF Arrive, NextReqID, RegisterPending, serverVars
    <3> QED BY <1>0, <3>1, PendingSet DEF Types
  <2> QED BY <1>0, <2>1, <2>2, <2>3, <2>4 DEF Types, linkVars, mapVars, forwardVars
<1>2. ASSUME NEW r \in Requests, Sending(r) PROVE Types'
  <2>1. UNCHANGED <<session, id, heard, online, srv, up, linkVars, mapVars, forwardVars>>
    BY <1>2, SendStep
  <2>2. down' \in [Conns -> Seq(Message)]
    <3>1. CASE UNCHANGED down BY <1>0, <3>1 DEF Types
    <3> QED BY <1>0, <1>2, <3>1, SendingAdds, DownAdds
  <2>3. pc' \in [Requests -> PCs]
    BY <1>0, <1>2 DEF Types, Sending, SendStart, UploadChunk, UploadEnds, GivesUp,
       Finish, Goto, PCs
  <2>4. uploaded' \in [Requests -> 0..MaxBody]
    <3>1. \/ UNCHANGED uploaded
          \/ uploaded[r] < MaxBody /\ uploaded' = [uploaded EXCEPT ![r] = @ + 1]
      BY <1>2 DEF Sending, SendStart, UploadChunk, UploadEnds, GivesUp
    <3>2. uploaded \in [Requests -> 0..MaxBody] BY <1>0 DEF Types
    <3>3. uploaded[r] < MaxBody => uploaded[r] + 1 \in 0..MaxBody BY <3>2, ForwardAssumption
    <3> QED BY <3>1, <3>2, <3>3
  <2>5. pendingS' \in [Conns -> [Ids -> Requests \cup {NoReq}]]
    <3>1. UNCHANGED pendingS \/ Finish(r)
      BY <1>2 DEF Sending, SendStart, UploadChunk, UploadEnds, GivesUp, serverVars
    <3> QED BY <1>0, <3>1, Finishes DEF Types
  <2> QED BY <1>0, <2>1, <2>2, <2>3, <2>4, <2>5 DEF Types, linkVars, mapVars, forwardVars
<1>3. ASSUME NEW r \in Requests, TakeSlot(r) \/ RegisterCancel(r) \/ Leave(r) PROVE Types'
  BY <1>0, <1>3 DEF Types, TakeSlot, RegisterCancel, Leave, GotoF, FwdStates, Holding,
     handlerVars, serverVars, linkVars, mapVars, forwardVars
<1>4. ASSUME NEW r \in Requests, Answering(r) PROVE Types'
  <2>1. /\ UNCHANGED <<handlerVars, serverVars, down, conn, mapVars, asked, cancelled>>
        /\ SentUp(r)
        /\ UNCHANGED cli \/ (cli[conn] = "open" /\ cli' = [cli EXCEPT ![conn] = "broken"])
    BY <1>4, AnswerStep
  <2>2. up' \in [Conns -> Seq(Message)] BY <1>0, <2>1, UpAdds
  <2>3. fwd' \in [Requests -> FwdStates]
    BY <1>0, <1>4 DEF Types, Answering, AnswerStarts, AnswerFails, StreamChunk,
       StreamEnds, StreamFails, GotoF, FwdStates, Holding
  <2>4. produced' \in [Requests -> 0..MaxChunks]
    <3>1. \/ UNCHANGED produced
          \/ produced[r] < MaxChunks /\ produced' = [produced EXCEPT ![r] = @ + 1]
      BY <1>4 DEF Answering, AnswerStarts, AnswerFails, StreamChunk, StreamEnds, StreamFails
    <3>2. produced \in [Requests -> 0..MaxChunks] BY <1>0 DEF Types
    <3>3. produced[r] < MaxChunks => produced[r] + 1 \in 0..MaxChunks BY <3>2, ForwardAssumption
    <3> QED BY <3>1, <3>2, <3>3
  <2>5. cli' \in [Conns -> {"none", "open", "broken", "closed"}] BY <1>0, <2>1 DEF Types
  <2> QED BY <1>0, <2>1, <2>2, <2>3, <2>4, <2>5 DEF Types, handlerVars, serverVars, mapVars
<1>5. ASSUME NEW s \in Conns, ServerReads(s) PROVE Types'
  <2> DEFINE f == Head(up[s])
             r == pendingS[s][f.id]
  <2>1. /\ f \in Message /\ up' = [up EXCEPT ![s] = Tail(@)] /\ Tail(up[s]) \in Seq(Message)
        /\ UNCHANGED <<session, id, uploaded, online, srv, down, linkVars, mapVars, forwardVars>>
        /\ \/ UNCHANGED <<pc, heard, pendingS>>
           \/ r \in Requests /\ heard' = [heard EXCEPT ![r] = Append(@, f)]
    BY <1>5, ReadStep
  <2>2. up' \in [Conns -> Seq(Message)] BY <1>0, <2>1 DEF Types
  <2>3. heard' \in [Requests -> Seq(Message)]
    <3> HIDE DEF f, r
    <3>1. heard \in [Requests -> Seq(Message)] BY <1>0 DEF Types
    <3>2. \A q \in Requests : Append(heard[q], f) \in Seq(Message) BY <2>1, <3>1
    <3> QED BY <2>1, <3>1, <3>2
  <2>4. pc' \in [Requests -> PCs] /\ pendingS' \in [Conns -> [Ids -> Requests \cup {NoReq}]]
    <3>1. \/ UNCHANGED <<pc, pendingS>> \/ (Goto(r, "stream") /\ UNCHANGED pendingS)
          \/ Finish(r)
      BY <1>5 DEF ServerReads
    <3>2. r \in Requests \/ UNCHANGED <<pc, pendingS>> BY <2>1
    <3> HIDE DEF f, r
    <3>3. CASE UNCHANGED <<pc, pendingS>> BY <1>0, <3>3 DEF Types
    <3>4. CASE Goto(r, "stream") /\ UNCHANGED pendingS BY <1>0, <3>4 DEF Types, Goto, PCs
    <3>5. CASE r \in Requests /\ Finish(r) BY <1>0, <3>5, Finishes
    <3> QED BY <3>1, <3>2, <3>3, <3>4, <3>5
  <2> QED BY <1>0, <2>1, <2>2, <2>3, <2>4 DEF Types, linkVars, mapVars, forwardVars
<1>6. ASSUME NEW s \in Conns, ServerCloses(s) PROVE Types'
  <2>1. UNCHANGED <<handlerVars, down, linkVars, mapVars, forwardVars>> BY <1>6 DEF ServerCloses
  <2>2. /\ srv' \in [Conns -> {"none", "open", "closed"}]
        /\ online' \in 0..MaxConn
    BY <1>0, <1>6, ForwardAssumption DEF Types, ServerCloses
  <2>3. up' \in [Conns -> Seq(Message)] BY <1>0, <1>6, NothingSent DEF Types, ServerCloses
  <2>4. pendingS' \in [Conns -> [Ids -> Requests \cup {NoReq}]]
    BY <1>0, <1>6 DEF Types, ServerCloses
  <2> QED BY <1>0, <2>1, <2>2, <2>3, <2>4 DEF Types, handlerVars, linkVars, mapVars, forwardVars
<1>7. ASSUME ClientCloses \/ Redial PROVE Types'
  <2>1. CASE ClientCloses
    <3>1. UNCHANGED <<handlerVars, serverVars, up, conn, mapVars, forwardVars>>
      BY <2>1 DEF ClientCloses
    <3>2. cli' \in [Conns -> {"none", "open", "broken", "closed"}]
      BY <1>0, <2>1 DEF Types, ClientCloses
    <3>3. down' \in [Conns -> Seq(Message)]
      BY <1>0, <2>1, NothingSent DEF Types, ClientCloses
    <3> QED BY <1>0, <3>1, <3>2, <3>3 DEF Types, handlerVars, serverVars, mapVars, forwardVars
  <2>2. CASE Redial
    <3>1. UNCHANGED <<handlerVars, pendingS, down, up, mapVars, forwardVars>>
      BY <2>2 DEF Redial
    <3>2. conn' \in 0..MaxConn /\ online' \in 0..MaxConn
      BY <1>0, <2>2, ForwardAssumption DEF Types, Redial
    <3>3. /\ cli' \in [Conns -> {"none", "open", "broken", "closed"}]
          /\ srv' \in [Conns -> {"none", "open", "closed"}]
      BY <1>0, <2>2 DEF Types, Redial
    <3> QED BY <1>0, <3>1, <3>2, <3>3 DEF Types, handlerVars, mapVars, forwardVars
  <2> QED BY <1>7, <2>1, <2>2
<1>8. ASSUME ClientReads PROVE Types'
  <2> DEFINE f == Head(down[conn])
  <2>1. /\ conn \in Conns /\ f \in Message /\ down[conn] # <<>>
        /\ down' = [down EXCEPT ![conn] = Tail(@)]
        /\ UNCHANGED <<handlerVars, serverVars, up, linkVars, produced>>
    BY <1>8, ClientReadStep
  <2>2. /\ DOMAIN pendingC' = Ids
        /\ \A i \in Ids : i # f.id => pendingC'[i] = pendingC[i]
        /\ DOMAIN pendingC'[f.id] = {"req", "chunks"}
        /\ pendingC'[f.id].req \in {f.by, pendingC[f.id].req, NoReq}
    BY <1>8, ClientReadStep
  <2>3. UNCHANGED fwd \/ fwd' = [fwd EXCEPT ![f.by] = "waiting"]
    BY <1>8, ClientReadStep
  <2>4. \/ UNCHANGED <<active, cancelled>>
        \/ /\ active' = [active EXCEPT ![f.id] = NoReq]
           /\ cancelled' = [r \in Requests |-> cancelled[r] \/ active[f.id] = r]
    BY <1>8, ClientReadStep
  <2> HIDE DEF f
  <2>5. f.id \in Ids /\ f.by \in Requests BY <2>1 DEF Message
  <2>6. down' \in [Conns -> Seq(Message)]
    <3>1. down \in [Conns -> Seq(Message)] BY <1>0 DEF Types
    <3>2. Tail(down[conn]) \in Seq(Message) BY <2>1, <3>1, WireFacts
    <3> QED BY <2>1, <3>1, <3>2
  <2>7. cancelled' \in [Requests -> BOOLEAN] /\ active' \in [Ids -> Requests \cup {NoReq}]
    BY <1>0, <2>4, <2>5 DEF Types
  <2>8. fwd' \in [Requests -> FwdStates] BY <1>0, <2>3 DEF Types, FwdStates
  <2>9. \A i \in Ids : /\ pendingC'[i].req \in Requests \cup {NoReq}
                       /\ DOMAIN pendingC'[i] = {"req", "chunks"}
    BY <1>0, <2>2, <2>5 DEF Types
  <2> QED BY <1>0, <2>1, <2>2, <2>6, <2>7, <2>8, <2>9 DEF Types, handlerVars, serverVars, linkVars
<1>9. ASSUME UNCHANGED vars PROVE Types'
  BY <1>0, <1>9 DEF Types, vars, handlerVars, serverVars, linkVars, mapVars, forwardVars
<1> QED BY <1>1, <1>2, <1>3, <1>4, <1>5, <1>6, <1>7, <1>8, <1>9
        DEF Next, Handler, Forward, Sending, Answering

(* A request that has drawn its ID is of a session there has been. *)
LEMMA Placed ==
  ASSUME IInv, NEW r \in Requests, pc[r] \in Drawn
  PROVE  session[r] \in Conns /\ session[r] \in 1..conn /\ srv[session[r]] # "none"
<1>1. session[r] \in 1..conn BY DEF IInv, Links, Drawn, Begun, InFlight
<1>2. conn \in Nat /\ conn <= MaxConn /\ MaxConn \in Nat BY ForwardAssumption DEF IInv, Types
<1>3. session[r] \in Conns /\ ~(session[r] > conn) BY <1>1, <1>2 DEF Conns
<1> QED BY <1>1, <1>3 DEF IInv, Links

(* A request that has not begun has left nothing. *)
LEMMA Traceless ==
  ASSUME IInv, NEW r \in Requests, pc[r] = "register"
  PROVE  ~Trace(r)
BY Placed DEF IInv, Sources, Trace, Sent, Drawn, Begun, InFlight

(* A step that adds no trace leaves those who share an ID as they are. *)
LEMMA KeptApart ==
  ASSUME IInv, UNCHANGED <<session, id>>,
         \A q \in Requests : pc'[q] \in Drawn => pc[q] \in Drawn,
         \A q \in Requests : pc[q] = "done" => pc'[q] = "done",
         \A q \in Requests : pc[q] \in Drawn /\ srv'[session[q]] = "open" => srv[session[q]] = "open",
         \A q \in Requests : pc[q] \in Drawn /\ Trace(q)' => Trace(q)
  PROVE  Alone' /\ Apart'
BY DEF IInv, Alone, Apart, Same

(* All of the invariant but the types, which TypeStep has. *)
Core == /\ Links /\ Sources /\ Mailboxes /\ Alone /\ Apart /\ Order /\ Opened
        /\ UniqueInFlight /\ WiresWithinSession /\ CancelKnown

(* What maps, frames and what was heard lead to are requests that have begun. *)
LEMMA Owners ==
  ASSUME IInv
  PROVE  /\ \A s \in Conns : \A f \in Range(down[s]) :
               f \in Message /\ f.by \in Requests /\ f.id \in Ids /\ pc[f.by] \in Begun
         /\ \A s \in Conns : \A f \in Range(up[s]) :
               f \in Message /\ f.by \in Requests /\ f.id \in Ids /\ pc[f.by] \in Begun
         /\ \A r \in Requests : \A f \in Range(heard[r]) :
               f.by \in Requests /\ pc[f.by] \in Begun /\ pc[r] \in Begun
         /\ \A i \in Ids : pendingC[i].req # NoReq =>
               pendingC[i].req \in Requests /\ pc[pendingC[i].req] \in Begun
         /\ \A s \in Conns, i \in Ids : pendingS[s][i] # NoReq =>
               pendingS[s][i] \in Requests /\ pc[pendingS[s][i]] \in InFlight
<1>0. Types BY DEF IInv
<1>1. \A s \in Conns : Range(down[s]) \subseteq Message /\ Range(up[s]) \subseteq Message
  BY <1>0, WireFacts DEF Types
<1>2. \A r \in Requests : Range(heard[r]) \subseteq Message BY <1>0, WireFacts DEF Types
<1>3. \A r \in Requests : \A f \in Range(heard[r]) : heard[r] # <<>> BY NothingSent
<1>4. \A s \in Conns, i \in Ids : pendingS[s][i] # NoReq =>
         pendingS[s][i] \in Requests /\ pc[pendingS[s][i]] \in InFlight
  <2>1. \A s \in Conns, i \in Ids : pendingS[s][i] \in Requests \cup {NoReq}
    BY <1>0 DEF Types
  <2> QED BY <2>1 DEF IInv, Mailboxes
<1>5. \A i \in Ids : pendingC[i].req # NoReq =>
         pendingC[i].req \in Requests /\ pc[pendingC[i].req] \in Begun
  BY <1>0 DEF IInv, Types, Sources
<1> QED BY <1>1, <1>2, <1>3, <1>4, <1>5 DEF IInv, Sources, Message

LEMMA ArriveStep ==
  ASSUME IInv, Types', NEW r \in Requests, Arrive(r)
  PROVE  Core'
<1> USE DEF Drawn, Begun, InFlight
<1>0. Types BY DEF IInv
<1>1. /\ pc[r] = "idle" /\ online # 0 /\ pc'[r] = "draw" /\ session'[r] = online
      /\ \A q \in Requests : q # r => pc'[q] = pc[q] /\ session'[q] = session[q]
      /\ UNCHANGED <<id, uploaded, heard, serverVars, down, up, linkVars, mapVars, forwardVars>>
  BY <1>0 DEF Arrive, Goto, Types
<1>2. UNCHANGED <<online, srv, pendingS, conn, cli, pendingC, active, fwd, cancelled>>
  BY <1>1 DEF serverVars, linkVars, mapVars, forwardVars
<1>3. \A q \in Requests : pc'[q] \in Drawn \/ pc[q] \in Drawn => q # r BY <1>1
<1>4. Links'
  <2>1. online \in 1..conn
    <3>1. online \in Conns /\ srv[online] # "none" /\ conn \in 0..MaxConn
      BY <1>0, <1>1, ForwardAssumption DEF IInv, Types, Links, Conns
    <3> QED BY <3>1, ForwardAssumption DEF IInv, Links, Conns
  <2> QED BY <1>1, <1>2, <2>1 DEF IInv, Links
<1>5. Sources' BY <1>1, <1>2, <1>3, Owners DEF IInv, Sources
<1>6. Mailboxes' BY <1>1, <1>2, Owners DEF IInv, Mailboxes
<1>7. \A q \in Requests : q # r => Trace(q)' = Trace(q) BY <1>1, <1>2 DEF Trace
<1>8. Alone' /\ Apart' BY <1>1, <1>2, <1>3, <1>7 DEF IInv, Alone, Apart, Same
<1>9. Order' BY <1>1, <1>2, Owners DEF IInv, Order
<1>10. Opened' BY <1>1, <1>2, <1>3 DEF IInv, Opened, Starts
<1>11. UniqueInFlight' BY <1>1, <1>2, <1>3 DEF IInv, UniqueInFlight
<1>12. WiresWithinSession' BY <1>1, Owners DEF IInv, WiresWithinSession
<1>13. CancelKnown'
  <2>1. ASSUME NEW q \in Requests, fwd[q] \in {"asking", "streaming"} PROVE q # r
    BY <1>1, <2>1 DEF IInv, Sources
  <2> QED BY <1>1, <1>2, <2>1 DEF IInv, CancelKnown
<1> QED BY <1>4, <1>5, <1>6, <1>8, <1>9, <1>10, <1>11, <1>12, <1>13 DEF Core

(* The ID that is drawn is not registered, and nothing of a request that had it is left. *)
LEMMA NextReqIDStep ==
  ASSUME IInv, Types', NEW r \in Requests, NextReqID(r)
  PROVE  Core'
<1> USE DEF Drawn, Begun, InFlight
<1>0. Types BY DEF IInv
<1>1. PICK i \in Ids : /\ Lapsed(session[r], i) /\ pendingS[session[r]][i] = NoReq
                       /\ id' = [id EXCEPT ![r] = i]
  BY DEF NextReqID
<1>2. /\ pc[r] = "draw" /\ pc'[r] = "register" /\ id'[r] = i
      /\ \A q \in Requests : q # r => pc'[q] = pc[q] /\ id'[q] = id[q]
      /\ UNCHANGED <<session, uploaded, heard, serverVars, down, up, linkVars, mapVars, forwardVars>>
  BY <1>0, <1>1 DEF NextReqID, Goto, Types
<1>3. UNCHANGED <<online, srv, pendingS, conn, cli, pendingC, active, fwd, cancelled>>
  BY <1>2 DEF serverVars, linkVars, mapVars, forwardVars
<1>4. Links' BY <1>2, <1>3 DEF IInv, Links
<1>5. Sources' BY <1>2, <1>3, Owners DEF IInv, Sources
<1>6. Mailboxes' BY <1>2, <1>3, Owners DEF IInv, Mailboxes
<1>7. \A q \in Requests : Trace(q)' = Trace(q) BY <1>2, <1>3 DEF Trace
<1>8. ~Trace(r)
  <2>1. session[r] \in Conns
    BY <1>0, <1>2, ForwardAssumption DEF IInv, Types, Links, Conns
  <2> QED BY <1>2, <2>1, Owners DEF IInv, Sources, Trace, Sent
<1>9. ASSUME NEW q \in Requests, q # r, pc[q] \in Drawn, session[q] = session[r], id[q] = i
       PROVE  /\ pc[q] \in InFlight => srv[session[r]] # "open"
              /\ pc[q] # "register"
              /\ pc[q] = "done" => ~Trace(q)
  <2>1. ~InUse(q) BY <1>1, <1>9 DEF Lapsed
  <2>2. ~(pc[q] \in InFlight /\ srv[session[r]] = "open")
    BY <1>1, <1>9 DEF IInv, UniqueInFlight, NoReq, Requests
  <2>3. pc[q] = "done" => ~Trace(q)
    BY <2>1, <1>9 DEF InUse, Trace, Sent
  <2> QED BY <2>1, <2>2, <2>3 DEF InUse
<1>10. Alone'
  <2>1. ASSUME NEW p \in Requests, NEW q \in Requests, q # p, Same(q, p)', pc'[p] # "done",
               srv'[session'[p]] = "open"
        PROVE  pc'[q] = "done" /\ ~Trace(q)'
    <3>1. CASE p = r BY <1>2, <1>3, <1>7, <1>9, <2>1, <3>1 DEF Same
    <3>2. CASE q = r
      <4>1. p # r /\ pc[p] \in Drawn /\ session[p] = session[r] /\ id[p] = i /\ pc[p] # "done"
        BY <1>2, <2>1, <3>2 DEF Same
      <4> QED BY <1>2, <1>3, <1>9, <2>1, <4>1
    <3>3. CASE p # r /\ q # r
      BY <1>2, <1>3, <1>7, <2>1, <3>3 DEF IInv, Alone, Same
    <3> QED BY <3>1, <3>2, <3>3
  <2> QED BY <2>1 DEF Alone
<1>11. Apart' BY <1>2, <1>7, <1>8 DEF IInv, Apart, Same
<1>12. Order' BY <1>2, <1>3, Owners DEF IInv, Order
<1>13. Opened' BY <1>2, <1>3 DEF IInv, Opened, Starts
<1>14. UniqueInFlight' BY <1>2, <1>3 DEF IInv, UniqueInFlight
<1>15. WiresWithinSession' BY <1>2, <1>3 DEF IInv, WiresWithinSession
<1>16. CancelKnown'
  <2>1. ASSUME NEW q \in Requests, fwd[q] \in {"asking", "streaming"} PROVE q # r
    BY <1>2, <2>1 DEF IInv, Sources
  <2>2. ASSUME NEW p \in Requests, p # r,
               \A q \in Requests : pc'[q] \in Drawn /\ id'[q] = id'[p] => session'[q] = session'[p],
               NEW q \in Requests, pc[q] \in Drawn, id[q] = id[p]
        PROVE  session[q] = session[p]
    BY <1>2, <2>2
  <2> QED BY <1>2, <1>3, <2>1, <2>2 DEF IInv, CancelKnown
<1> QED BY <1>4, <1>5, <1>6, <1>10, <1>11, <1>12, <1>13, <1>14, <1>15, <1>16 DEF Core

(* The frames of a request stay in order when it sends another one. *)
LEMMA SendingOrder ==
  ASSUME IInv, NEW r \in Requests, Sending(r)
  PROVE  Order' /\ Opened'
<1> USE DEF Drawn, Begun, InFlight
<1> DEFINE s == session[r]
           Lasts(kinds) ==
             \/ UNCHANGED down
             \/ /\ srv[s] = "open" /\ cli[s] # "closed"
                /\ \E f \in Message :
                      /\ f.by = r /\ f.id = id[r] /\ f.kind \in kinds
                      /\ down' = [down EXCEPT ![s] = Append(@, f)]
<1>0. Types BY DEF IInv
<1>1. /\ pc[r] \in InFlight /\ pc'[r] \in Begun
      /\ \A q \in Requests : q # r => pc'[q] = pc[q]
      /\ UNCHANGED <<session, id, srv, cli, pendingC>>
  BY SendStep DEF linkVars, mapVars
<1>2. s \in Conns /\ id[r] \in Ids /\ down \in [Conns -> Seq(Message)]
  BY <1>0, <1>1, Placed DEF Types
<1>3. \/ pc[r] = "start" /\ pc'[r] = "upload" /\ Lasts({"body"})
      \/ pc[r] = "start" /\ pc'[r] = "wait" /\ Lasts({"nobody"})
      \/ pc[r] = "upload" /\ pc'[r] = "upload" /\ Lasts({"chunk"})
      \/ pc[r] = "upload" /\ pc'[r] = "wait" /\ Lasts({"end"})
      \/ pc'[r] = "done" /\ Lasts({"cancel"})
  <2>1. \A K \in SUBSET Kinds : SentDown(r, K) => Lasts(K) BY DEF SentDown
  <2>2. UNCHANGED down => Lasts({"cancel"}) OBVIOUS
  <2> HIDE DEF Lasts
  <2> QED BY <2>1, <2>2, SendStep DEF Kinds
<1>4. pc'[r] = "upload" /\ srv[s] = "open" /\ cli[s] # "closed" =>
         pc[r] = "upload" \/ (pc[r] = "start" /\ down' # down)
  <2>1. pc'[r] = "upload" /\ pc[r] = "start" /\ cli[s] # "closed" =>
           \E f \in Message : down' = [down EXCEPT ![s] = Append(@, f)]
    BY SendStep DEF SentDown
  <2>2. \A f \in Message : [down EXCEPT ![s] = Append(@, f)] # down
    <3>1. \A f \in Message : Len(Append(down[s], f)) # Len(down[s]) BY <1>2
    <3> QED BY <1>2, <3>1
  <2> QED BY <1>3, <2>1, <2>2
<1>5. \A w \in Conns : \A k \in 1..Len(down[w]) :
         down[w][k] \in Range(down[w]) /\ down[w][k] \in Message
  BY <1>2, WireFacts
<1>6. CASE UNCHANGED down
  <2>1. Order'
    <3>1. \A w \in Conns : \A f \in Range(down[w]) :
             /\ pc'[f.by] # "start"
             /\ pc'[f.by] = "upload" => f.kind \in {"body", "chunk"}
             /\ pc'[f.by] \in {"wait", "stream"} => f.kind # "cancel"
      BY <1>1, <1>3, Owners DEF IInv, Order
    <3> QED BY <1>6, <3>1 DEF IInv, Order
  <2>2. Opened'
    <3>1. \A q \in Requests : pc'[q] = "upload" /\ srv[session[q]] = "open"
                              /\ cli[session[q]] # "closed" => pc[q] = "upload"
      BY <1>1, <1>4, <1>6
    <3> QED BY <1>1, <1>6, <3>1 DEF IInv, Opened, Starts
  <2> QED BY <2>1, <2>2
<1>7. ASSUME srv[s] = "open", cli[s] # "closed", NEW f \in Message, f.by = r, f.id = id[r],
             down' = [down EXCEPT ![s] = Append(@, f)],
             \/ pc[r] = "start" /\ pc'[r] = "upload" /\ f.kind = "body"
             \/ pc[r] = "start" /\ pc'[r] = "wait" /\ f.kind = "nobody"
             \/ pc[r] = "upload" /\ pc'[r] = "upload" /\ f.kind = "chunk"
             \/ pc[r] = "upload" /\ pc'[r] = "wait" /\ f.kind = "end"
             \/ pc'[r] = "done" /\ f.kind = "cancel"
      PROVE  Order' /\ Opened'
  <2> DEFINE n == Len(down[s])
             Now(w, q, k) == \E j \in 1..k : down'[w][j].by = q /\ down'[w][j].kind = "body"
  <2>1. /\ n \in Nat /\ Len(down'[s]) = n + 1 /\ down'[s][n + 1] = f
        /\ \A k \in 1..n : down'[s][k] = down[s][k]
        /\ Range(down'[s]) = Range(down[s]) \cup {f}
    BY <1>2, <1>7, WireFacts
  <2>2. \A w \in Conns : w # s => down'[w] = down[w] BY <1>2, <1>7
  <2>3. \A w \in Conns : Len(down[w]) \in Nat BY <1>2
  <2> HIDE DEF n
  <2>4. \A w \in Conns : \A g \in Range(down'[w]) :
           /\ pc'[g.by] # "start"
           /\ pc'[g.by] = "upload" => g.kind \in {"body", "chunk"}
           /\ pc'[g.by] \in {"wait", "stream"} => g.kind # "cancel"
    <3>1. \A w \in Conns : \A g \in Range(down[w]) :
             /\ pc'[g.by] # "start"
             /\ pc'[g.by] = "upload" => g.kind \in {"body", "chunk"}
             /\ pc'[g.by] \in {"wait", "stream"} => g.kind # "cancel"
      BY <1>1, <1>7, Owners DEF IInv, Order
    <3>2. /\ pc'[r] # "start"
          /\ pc'[r] = "upload" => f.kind \in {"body", "chunk"}
          /\ pc'[r] \in {"wait", "stream"} => f.kind # "cancel"
      BY <1>7
    <3> QED BY <1>7, <2>1, <2>2, <3>1, <3>2
  <2>5. \A j \in 1..n : down[s][j].by = r =>
           /\ f.kind \notin {"body", "nobody"}
           /\ down[s][j].kind # "cancel"
           /\ down[s][j].kind \in {"end", "nobody"} => f.kind = "cancel"
    <3>1. \A j \in 1..n : down[s][j].by = r =>
             /\ pc[r] # "start"
             /\ pc[r] = "upload" => down[s][j].kind \in {"body", "chunk"}
             /\ pc[r] \in {"wait", "stream"} => down[s][j].kind # "cancel"
      BY <1>2, <1>5 DEF IInv, Order, n
    <3> QED BY <1>1, <1>7, <3>1
  <2>6. Order'
    <3>1. ASSUME NEW j \in 1..n + 1, NEW k \in 1..n + 1, j < k, down'[s][j].by = down'[s][k].by
          PROVE  /\ down'[s][k].kind \notin {"body", "nobody"}
                 /\ down'[s][j].kind # "cancel"
                 /\ down'[s][j].kind \in {"end", "nobody"} => down'[s][k].kind = "cancel"
      <4>1. j \in 1..n BY <2>1, <3>1
      <4>2. CASE k = n + 1 BY <1>7, <2>1, <2>5, <3>1, <4>1, <4>2
      <4>3. CASE k # n + 1
        <5>1. k \in 1..n BY <2>1, <3>1, <4>3
        <5> QED BY <1>2, <2>1, <3>1, <4>1, <5>1 DEF IInv, Order, n
      <4> QED BY <4>2, <4>3
    <3>2. \A w \in Conns : \A j, k \in 1..Len(down'[w]) :
             j < k /\ down'[w][j].by = down'[w][k].by =>
                 /\ down'[w][k].kind \notin {"body", "nobody"}
                 /\ down'[w][j].kind # "cancel"
                 /\ down'[w][j].kind \in {"end", "nobody"} => down'[w][k].kind = "cancel"
      BY <2>1, <2>2, <3>1 DEF IInv, Order
    <3> QED BY <2>4, <3>2 DEF Order
  <2>7. \A q \in Requests, w \in Conns : \A k \in 0..Len(down[w]) :
           Starts(w, q, k) => Now(w, q, k)
    BY <2>1, <2>2, <2>3 DEF Starts, n
  <2>8. Opened'
    <3>1. ASSUME NEW w \in Conns, NEW k \in 1..Len(down'[w]), down'[w][k].kind \in {"chunk", "end"}
          PROVE  \/ Now(w, down'[w][k].by, k - 1)
                 \/ pendingC[down'[w][k].id].req = down'[w][k].by
      <4>1. CASE k \in 1..Len(down[w])
        <5>1. down'[w][k] = down[w][k] BY <2>1, <2>2, <4>1 DEF n
        <5>2. down[w][k].by \in Requests /\ k - 1 \in 0..Len(down[w])
          BY <1>5, <2>3, <4>1 DEF Message
        <5> QED BY <2>7, <3>1, <4>1, <5>1, <5>2 DEF IInv, Opened
      <4>2. CASE w = s /\ k = n + 1
        <5>1. down'[w][k] = f /\ pc[r] = "upload" BY <1>7, <2>1, <3>1, <4>2
        <5>2. Starts(s, r, n) \/ pendingC[id[r]].req = r
          BY <1>7, <5>1 DEF IInv, Opened, n
        <5>3. Starts(s, r, n) => Now(s, r, n) BY <2>1 DEF Starts
        <5>4. k - 1 = n BY <2>1, <4>2
        <5> QED BY <1>7, <4>2, <5>1, <5>2, <5>3, <5>4
      <4> QED BY <2>1, <2>2, <3>1, <4>1, <4>2 DEF n
    <3>2. ASSUME NEW q \in Requests, pc'[q] = "upload", srv[session[q]] = "open",
                 cli[session[q]] # "closed"
          PROVE  Now(session[q], q, Len(down'[session[q]])) \/ pendingC[id[q]].req = q
      <4>0. session[q] \in Conns
        <5>1. pc[q] \in Drawn BY <1>1, <3>2
        <5> QED BY <5>1, Placed
      <4>1. CASE q = r /\ pc[r] = "start"
        <5>1. f.kind = "body" BY <1>7, <3>2, <4>1
        <5> QED BY <1>1, <1>7, <2>1, <4>1, <5>1 DEF Starts
      <4>2. CASE pc[q] = "upload"
        <5>1. Starts(session[q], q, Len(down[session[q]])) \/ pendingC[id[q]].req = q
          BY <3>2, <4>2 DEF IInv, Opened
        <5>2. Starts(session[q], q, Len(down[session[q]]))
                 => Now(session[q], q, Len(down'[session[q]]))
          <6>1. \A w \in Conns : /\ w # s => down'[w] = down[w]
                                 /\ w = s => Len(down[w]) = n /\ Len(down'[w]) = n + 1
            BY <2>1, <2>2 DEF n
          <6>2. \A w \in Conns : \A k \in 1..Len(down[w]) :
                   k \in 1..Len(down'[w]) /\ down'[w][k] = down[w][k]
            BY <2>1, <2>3, <6>1
          <6> HIDE DEF s
          <6> QED BY <4>0, <6>2 DEF Starts
        <5> QED BY <5>1, <5>2
      <4> QED BY <1>1, <1>7, <3>2, <4>1, <4>2
    <3> QED BY <1>1, <3>1, <3>2 DEF Opened, Starts
  <2> QED BY <2>6, <2>8
<1> QED BY <1>3, <1>6, <1>7

LEMMA RegisterPendingStep ==
  ASSUME IInv, Types', NEW r \in Requests, RegisterPending(r)
  PROVE  Core'
<1> USE DEF Drawn, Begun, InFlight
<1>0. Types BY DEF IInv
<1>1. /\ pc[r] = "register" /\ pc'[r] = "start"
      /\ \A q \in Requests : q # r => pc'[q] = pc[q]
      /\ UNCHANGED <<session, id, heard, online, srv, down, up, conn, cli, pendingC, active, fwd,
                     cancelled>>
  BY <1>0 DEF RegisterPending, Goto, Types, linkVars, mapVars, forwardVars
<1>2. /\ session[r] \in Conns /\ id[r] \in Ids
      /\ pendingS'[session[r]][id[r]] = r
      /\ \A s \in Conns, i \in Ids : \/ pendingS'[s][i] = pendingS[s][i]
                                     \/ s = session[r] /\ i = id[r]
  <2>1. session[r] \in Conns /\ id[r] \in Ids BY <1>0, <1>1, Placed DEF Types
  <2>2. pendingS \in [Conns -> [Ids -> Requests \cup {NoReq}]] BY <1>0 DEF Types
  <2>3. pendingS' = [pendingS EXCEPT ![session[r]][id[r]] = r]
    BY DEF RegisterPending, SetPending
  <2> QED BY <2>1, <2>2, <2>3
<1>3. Links' BY <1>1 DEF IInv, Links
<1>4. Sources' BY <1>1, Owners DEF IInv, Sources
<1>5. Mailboxes'
  <2>1. ASSUME NEW s \in Conns, NEW i \in Ids, pendingS'[s][i] # NoReq
        PROVE  LET q == pendingS'[s][i] IN pc'[q] \in InFlight /\ session[q] = s /\ id[q] = i
    <3>1. CASE s = session[r] /\ i = id[r] BY <1>1, <1>2, <3>1
    <3>2. CASE pendingS'[s][i] = pendingS[s][i]
      BY <1>1, <2>1, <3>2, Owners DEF IInv, Mailboxes
    <3> QED BY <1>2, <3>1, <3>2
  <2> QED BY <1>1, <2>1 DEF Mailboxes
<1>6. \A q \in Requests : Trace(q)' = Trace(q) BY <1>1 DEF Trace
<1>7. Alone' /\ Apart' BY <1>1, <1>6, KeptApart
<1>8. Order' BY <1>1, Owners DEF IInv, Order
<1>9. Opened' BY <1>1 DEF IInv, Opened, Starts
<1>10. UniqueInFlight'
  <2>1. ASSUME NEW q \in Requests, pc'[q] \in InFlight, srv[session[q]] = "open"
        PROVE  pendingS'[session[q]][id[q]] = q
    <3>1. CASE q = r BY <1>2, <3>1
    <3>2. CASE q # r
      <4>1. pc[q] \in InFlight BY <1>1, <2>1, <3>2
      <4>2. pendingS[session[q]][id[q]] = q BY <2>1, <4>1 DEF IInv, UniqueInFlight
      <4>3. ~(session[q] = session[r] /\ id[q] = id[r])
        BY <1>1, <2>1, <3>2, <4>1 DEF IInv, Alone, Same
      <4>4. session[q] \in Conns /\ id[q] \in Ids BY <1>0, <4>1, Placed DEF Types
      <4> QED BY <1>2, <4>2, <4>3, <4>4
    <3> QED BY <3>1, <3>2
  <2> QED BY <1>1, <2>1 DEF UniqueInFlight
<1>11. WiresWithinSession' BY <1>1 DEF IInv, WiresWithinSession
<1>12. CancelKnown' BY <1>1 DEF IInv, CancelKnown
<1> QED BY <1>3, <1>4, <1>5, <1>7, <1>8, <1>9, <1>10, <1>11, <1>12 DEF Core

LEMMA SendingStep ==
  ASSUME IInv, Types', NEW r \in Requests, Sending(r)
  PROVE  Core'
<1> USE DEF Drawn, Begun, InFlight
<1>0. Types BY DEF IInv
<1>1. /\ pc[r] \in InFlight /\ pc'[r] \in Begun
      /\ \A q \in Requests : q # r => pc'[q] = pc[q]
      /\ UNCHANGED <<session, id, heard, online, srv, up, conn, cli, pendingC, active, fwd,
                     cancelled>>
  BY SendStep DEF linkVars, mapVars, forwardVars
<1>2. session[r] \in Conns /\ id[r] \in Ids BY <1>0, <1>1, Placed DEF Types
(* What the step adds to a connection, if anything, is a frame of r at its end. *)
<1>3. \A s \in Conns :
        \/ down'[s] = down[s]
        \/ /\ s = session[r] /\ srv[s] = "open" /\ cli[s] # "closed"
           /\ \E f \in Message : /\ f.by = r /\ f.id = id[r]
                                 /\ down'[s] = Append(down[s], f)
  BY <1>0, SendingAdds, DownAdds
<1>4. \A s \in Conns : \A f \in Range(down'[s]) :
        \/ f \in Range(down[s])
        \/ s = session[r] /\ srv[s] = "open" /\ cli[s] # "closed" /\ f.by = r /\ f.id = id[r]
  <2>1. \A s \in Conns : \A f \in Message :
           Range(Append(down[s], f)) = Range(down[s]) \cup {f}
    BY <1>0, WireFacts DEF Types
  <2> QED BY <1>3, <2>1
<1>5. Links'
  <2>1. \A s \in Conns : cli[s] \in {"none", "closed"} => down'[s] = down[s]
    BY <1>3 DEF IInv, Links
  <2> QED BY <1>1, <2>1 DEF IInv, Links
<1>6. Sources'
  <2>1. \A s \in Conns : \A f \in Range(down'[s]) :
           pc'[f.by] \in Begun /\ session[f.by] = s /\ id[f.by] = f.id
    BY <1>1, <1>4, Owners DEF IInv, Sources
  <2> QED BY <1>1, <2>1, Owners DEF IInv, Sources
<1>7. \/ pendingS' = pendingS /\ pc'[r] \in InFlight
      \/ /\ pc'[r] = "done" /\ pendingS'[session[r]][id[r]] = NoReq
         /\ \A s \in Conns, i \in Ids : \/ pendingS'[s][i] = pendingS[s][i]
                                        \/ s = session[r] /\ i = id[r]
  <2>1. pendingS \in [Conns -> [Ids -> Requests \cup {NoReq}]] BY <1>0 DEF Types
  <2>2. \/ pendingS' = pendingS /\ pc'[r] \in InFlight
        \/ pc'[r] = "done" /\ pendingS' = [pendingS EXCEPT ![session[r]][id[r]] = NoReq]
    BY SendStep
  <2> QED BY <1>2, <2>1, <2>2
<1>8. Mailboxes'
  <2>1. ASSUME NEW s \in Conns, NEW i \in Ids, pendingS'[s][i] # NoReq
        PROVE  LET q == pendingS'[s][i] IN pc'[q] \in InFlight /\ session[q] = s /\ id[q] = i
    <3>1. pendingS'[s][i] = pendingS[s][i] BY <1>7, <2>1
    <3>2. pendingS[s][i] = r => pc'[r] \in InFlight
      BY <1>7, <2>1, <3>1 DEF IInv, Mailboxes
    <3> QED BY <1>1, <2>1, <3>1, <3>2, Owners DEF IInv, Mailboxes
  <2> QED BY <1>1, <2>1 DEF Mailboxes
<1>9. \A q \in Requests : q # r /\ pc[q] \in Drawn => (Trace(q)' => Trace(q))
  <2>1. ASSUME NEW q \in Requests, q # r, pc[q] \in Drawn PROVE Trace(q)' => Trace(q)
    <3>1. session[q] \in Conns BY <2>1, Placed
    <3>2. Sent(q, down'[session[q]]) => Sent(q, down[session[q]])
      BY <1>4, <2>1, <3>1 DEF Sent
    <3> QED BY <1>1, <3>2 DEF Trace
  <2> QED BY <2>1
<1>10. Trace(r)' => Trace(r) \/ srv[session[r]] = "open"
  <2>1. Sent(r, down'[session[r]]) => Sent(r, down[session[r]]) \/ srv[session[r]] = "open"
    BY <1>2, <1>4 DEF Sent
  <2> QED BY <1>1, <2>1 DEF Trace
<1>11. Alone'
  <2>1. ASSUME NEW p \in Requests, NEW q \in Requests, q # p, Same(q, p)', pc'[p] # "done",
               srv'[session'[p]] = "open"
        PROVE  pc'[q] = "done" /\ ~Trace(q)'
    <3>1. Same(q, p) /\ pc[p] # "done" /\ srv[session[p]] = "open" BY <1>1, <2>1 DEF Same
    <3>2. pc[q] = "done" /\ ~Trace(q) BY <2>1, <3>1 DEF IInv, Alone
    <3> QED BY <1>1, <1>9, <3>2
  <2> QED BY <2>1 DEF Alone
<1>12. Apart'
  <2>1. ASSUME NEW q \in Requests, q # r, Same(q, r)' PROVE ~(Trace(q)' /\ Trace(r)')
    <3>1. Same(q, r) /\ pc[r] # "done" BY <1>1, <2>1 DEF Same
    <3>2. CASE srv[session[r]] = "open"
      BY <1>9, <2>1, <3>1, <3>2 DEF IInv, Alone, Same
    <3>3. CASE Trace(r) BY <1>9, <2>1, <3>1, <3>3 DEF IInv, Apart, Same
    <3> QED BY <1>10, <3>2, <3>3
  <2>2. ASSUME NEW q \in Requests, NEW p \in Requests, q # p, q # r, p # r, Same(q, p)'
        PROVE  ~(Trace(q)' /\ Trace(p)')
    <3>1. Same(q, p) BY <1>1, <2>2 DEF Same
    <3> QED BY <1>9, <2>2, <3>1 DEF IInv, Apart, Same
  <2>3. \A q, p \in Requests : Same(q, p)' => Same(p, q)' BY DEF Same
  <2> QED BY <2>1, <2>2, <2>3 DEF Apart
<1>13. UniqueInFlight'
  <2>1. ASSUME NEW q \in Requests, pc'[q] \in InFlight, srv[session[q]] = "open"
        PROVE  pendingS'[session[q]][id[q]] = q
    <3>1. pc[q] \in InFlight BY <1>1, <2>1
    <3>2. pendingS[session[q]][id[q]] = q BY <2>1, <3>1 DEF IInv, UniqueInFlight
    <3>3. session[q] \in Conns /\ id[q] \in Ids BY <1>0, <3>1, Placed DEF Types
    <3>4. CASE q = r BY <1>7, <2>1, <3>2, <3>4
    <3>5. CASE q # r
      <4>1. ~(session[q] = session[r] /\ id[q] = id[r])
        BY <1>1, <2>1, <3>1, <3>5 DEF IInv, Alone, Same
      <4> QED BY <1>7, <3>2, <3>3, <4>1
    <3> QED BY <3>4, <3>5
  <2> QED BY <1>1, <2>1 DEF UniqueInFlight
<1>14. WiresWithinSession' BY <1>1 DEF IInv, WiresWithinSession
<1>15. CancelKnown' BY <1>1 DEF IInv, CancelKnown
<1>16. Order' /\ Opened' BY SendingOrder
<1> QED BY <1>5, <1>6, <1>8, <1>11, <1>12, <1>13, <1>14, <1>15, <1>16 DEF Core

LEMMA ForwardingStep ==
  ASSUME IInv, Types', NEW r \in Requests, TakeSlot(r) \/ RegisterCancel(r) \/ Leave(r)
  PROVE  Core'
<1>0. Types BY DEF IInv
<1>1. /\ fwd[r] \in {"waiting", "slot", "leaving"} /\ fwd'[r] \in FwdStates
      /\ \A q \in Requests : q # r => fwd'[q] = fwd[q]
      /\ UNCHANGED <<handlerVars, serverVars, down, up, conn, cli, pendingC, cancelled>>
  BY <1>0 DEF TakeSlot, RegisterCancel, Leave, GotoF, Types, FwdStates, Holding, linkVars, mapVars
<1>2. UNCHANGED <<pc, session, id, heard, online, srv, pendingS>>
  BY <1>1 DEF handlerVars, serverVars
<1>3. Links' BY <1>1, <1>2 DEF IInv, Links
<1>4. Sources' BY <1>1, <1>2, Owners DEF IInv, Sources
<1>5. Mailboxes' BY <1>2 DEF IInv, Mailboxes
<1>6. \A q \in Requests : Trace(q)' => Trace(q) BY <1>1, <1>2 DEF Trace
<1>7. Alone' /\ Apart' BY <1>2, <1>6, KeptApart
<1>8. Order' BY <1>1, <1>2 DEF IInv, Order
<1>9. Opened' BY <1>1, <1>2 DEF IInv, Opened, Starts
<1>10. UniqueInFlight' BY <1>2 DEF IInv, UniqueInFlight
<1>11. WiresWithinSession' BY <1>2 DEF IInv, WiresWithinSession
<1>12. CancelKnown'
  <2>1. ASSUME NEW q \in Requests, fwd'[q] \in {"asking", "streaming"}, ~cancelled[q],
               \A p \in Requests : pc[p] \in Drawn /\ id[p] = id[q] => session[p] = session[q]
        PROVE  active'[id[q]] = q
    <3>1. id[q] \in Ids /\ id[r] \in Ids /\ active \in [Ids -> Requests \cup {NoReq}]
      BY <1>0 DEF Types
    <3>2. CASE q = r
      <4>1. active' = [active EXCEPT ![id[r]] = r]
        BY <1>0, <2>1, <3>2 DEF TakeSlot, RegisterCancel, Leave, GotoF, Types
      <4> QED BY <3>1, <3>2, <4>1
    <3>3. CASE q # r
      <4>1. active[id[q]] = q BY <1>1, <2>1, <3>3 DEF IInv, CancelKnown
      <4>2. pc[q] \in Drawn /\ pc[r] \in Drawn /\ Trace(q) /\ Trace(r)
        BY <1>1, <2>1, <3>3 DEF IInv, Sources, Drawn, Trace
      <4>3. id[q] # id[r] BY <2>1, <3>3, <4>2 DEF IInv, Apart, Same
      <4>4. \/ UNCHANGED active
            \/ \E x \in Requests \cup {NoReq} : active' = [active EXCEPT ![id[r]] = x]
        BY DEF TakeSlot, RegisterCancel, Leave, mapVars
      <4> QED BY <3>1, <4>1, <4>3, <4>4
    <3> QED BY <3>2, <3>3
  <2> QED BY <1>1, <1>2, <2>1 DEF CancelKnown
<1> QED BY <1>3, <1>4, <1>5, <1>7, <1>8, <1>9, <1>10, <1>11, <1>12 DEF Core

LEMMA AnsweringStep ==
  ASSUME IInv, Types', NEW r \in Requests, Answering(r)
  PROVE  Core'
<1> USE DEF Drawn, Begun, InFlight
<1>0. Types BY DEF IInv
<1>1. /\ fwd[r] \in {"asking", "streaming", "failed"}
      /\ fwd'[r] \in {"streaming", "failed", "leaving"}
      /\ fwd'[r] = "streaming" => fwd[r] \in {"asking", "streaming"}
      /\ \A q \in Requests : q # r => fwd'[q] = fwd[q]
      /\ UNCHANGED <<pc, session, id, heard, online, srv, pendingS, down, conn, pendingC, active,
                     cancelled>>
  BY AnswerStep DEF handlerVars, serverVars, mapVars
<1>2. UNCHANGED cli \/ (cli[conn] = "open" /\ cli' = [cli EXCEPT ![conn] = "broken"])
  BY AnswerStep
<1>3. \A s \in Conns : /\ cli'[s] = "closed" <=> cli[s] = "closed"
                       /\ cli'[s] = "none" <=> cli[s] = "none"
  BY <1>0, <1>2 DEF Types
<1>4. pc[r] \in Begun /\ Trace(r) /\ session[r] \in 1..conn /\ conn \in Nat
  <2>1. pc[r] \in Begun /\ Trace(r) BY <1>1 DEF IInv, Sources, Trace
  <2> QED BY <1>0, <2>1, Placed, ForwardAssumption DEF Types
<1>5. \A s \in Conns :
        \/ up'[s] = up[s]
        \/ /\ s = conn /\ srv[s] = "open"
           /\ \E f \in Message : f.by = r /\ f.id = id[r] /\ up'[s] = Append(up[s], f)
  BY <1>0, AnswerStep, UpAdds
<1>6. \A s \in Conns : \A f \in Range(up'[s]) :
        \/ f \in Range(up[s])
        \/ s = conn /\ srv[s] = "open" /\ f.by = r /\ f.id = id[r]
  <2>1. \A s \in Conns : \A f \in Message :
           Range(Append(up[s], f)) = Range(up[s]) \cup {f}
    BY <1>0, WireFacts DEF Types
  <2>2. ASSUME NEW s \in Conns, up'[s] # up[s], NEW g \in Range(up'[s])
        PROVE  \/ g \in Range(up[s])
               \/ s = conn /\ srv[s] = "open" /\ g.by = r /\ g.id = id[r]
    <3>1. PICK f \in Message : f.by = r /\ f.id = id[r] /\ up'[s] = Append(up[s], f)
      BY <1>5, <2>2
    <3>2. g \in Range(up[s]) \/ g = f BY <2>1, <2>2, <3>1
    <3> QED BY <1>5, <2>2, <3>1, <3>2
  <2> QED BY <2>2
<1>7. Links' BY <1>1, <1>3, <1>5 DEF IInv, Links
<1>8. Sources'
  <2>1. \A s \in Conns : \A f \in Range(up'[s]) :
           pc[f.by] \in Begun /\ session[f.by] <= s /\ id[f.by] = f.id
    BY <1>4, <1>6 DEF IInv, Sources
  <2>2. \A q \in Requests : fwd'[q] # "none" => pc[q] \in Begun
    BY <1>1, <1>4 DEF IInv, Sources
  <2> QED BY <1>1, <2>1, <2>2 DEF IInv, Sources
<1>9. Mailboxes' BY <1>1 DEF IInv, Mailboxes
<1>10. \A q \in Requests : pc[q] \in Drawn => (Trace(q)' => Trace(q))
  <2>1. ASSUME NEW q \in Requests, q # r, pc[q] \in Drawn PROVE Trace(q)' => Trace(q)
    <3>1. session[q] \in Conns BY <2>1, Placed
    <3>2. Sent(q, up'[session[q]]) => Sent(q, up[session[q]])
      BY <1>6, <2>1, <3>1 DEF Sent
    <3> QED BY <1>1, <2>1, <3>2 DEF Trace
  <2> QED BY <1>4, <2>1
<1>11. Alone' /\ Apart' BY <1>1, <1>10, KeptApart
<1>12. Order' BY <1>1 DEF IInv, Order
<1>13. Opened'
  <2>1. \A q \in Requests : pc[q] = "upload" => session[q] \in Conns BY Placed
  <2> QED BY <1>1, <1>3, <2>1 DEF IInv, Opened, Starts
<1>14. UniqueInFlight' BY <1>1 DEF IInv, UniqueInFlight
<1>15. WiresWithinSession' BY <1>1 DEF IInv, WiresWithinSession
<1>16. CancelKnown' BY <1>1 DEF IInv, CancelKnown
<1> QED BY <1>7, <1>8, <1>9, <1>11, <1>12, <1>13, <1>14, <1>15, <1>16 DEF Core

(* The frame goes to the handler whose mailbox has its ID: of one session, its own. *)
LEMMA ServerReadsStep ==
  ASSUME IInv, Types', NEW s \in Conns, ServerReads(s)
  PROVE  Core'
<1> USE DEF Drawn, Begun, InFlight
<1> DEFINE f == Head(up[s])
           r == pendingS[s][f.id]
<1>0. Types BY DEF IInv
<1>1. /\ srv[s] = "open" /\ f \in Range(up[s])
      /\ UNCHANGED <<session, id, online, srv, down, conn, cli, pendingC, active, fwd, cancelled>>
  BY ReadStep DEF linkVars, mapVars, forwardVars
<1>2. \A w \in Conns : Range(up'[w]) \subseteq Range(up[w])
  <2>1. up' = [up EXCEPT ![s] = Tail(@)] /\ Range(Tail(up[s])) \subseteq Range(up[s])
    BY ReadStep
  <2> QED BY <1>0, <2>1 DEF Types
<1>3. f \in Message /\ f.by \in Requests /\ f.id \in Ids /\ pc[f.by] \in Begun
      /\ session[f.by] <= s /\ id[f.by] = f.id
  BY <1>1, Owners DEF IInv, Sources
<1>4. \/ UNCHANGED <<pc, heard, pendingS>>
      \/ /\ r \in Requests /\ session[r] = s /\ id[r] = f.id
         /\ pc[r] \in {"wait", "stream"}
         /\ heard' = [heard EXCEPT ![r] = Append(@, f)]
         /\ \A q \in Requests : q # r => pc'[q] = pc[q]
         /\ \/ pc'[r] = "stream" /\ UNCHANGED pendingS
            \/ pc'[r] = "done" /\ pendingS' = [pendingS EXCEPT ![s][f.id] = NoReq]
  BY ReadStep
<1> HIDE DEF f, r
<1>5. /\ \A q \in Requests : pc'[q] = pc[q]
                             \/ (q = r /\ pc[q] \in {"wait", "stream"} /\ pc'[q] \in {"stream", "done"})
      /\ \A q \in Requests : pc[q] \in Begun <=> pc'[q] \in Begun
      /\ \A q \in Requests : pc[q] \in Drawn <=> pc'[q] \in Drawn
      /\ \A q \in Requests : pc'[q] = "upload" => pc[q] = "upload"
  BY <1>4
<1>6. Links'
  <2>1. \A w \in Conns : up[w] = <<>> => up'[w] = <<>>
    <3>1. \A w \in Conns : w # s => up'[w] = up[w] BY <1>0, ReadStep DEF Types
    <3> QED BY <1>1, <3>1, NothingSent
  <2>2. \A q \in Requests : pc'[q] # "idle" => pc[q] # "idle" BY <1>5
  <2> QED BY <1>1, <2>1, <2>2 DEF IInv, Links
<1>7. \A q \in Requests : heard'[q] = heard[q] \/ (q = r /\ heard'[q] = Append(heard[q], f))
  BY <1>0, <1>4 DEF Types
<1>8. \A q \in Requests : \A g \in Range(heard'[q]) :
         \/ g \in Range(heard[q])
         \/ q = r /\ g = f /\ r \in Requests /\ session[r] = s /\ id[r] = f.id /\ pc[r] \in {"wait", "stream"}
  <2>1. \A q \in Requests : Range(Append(heard[q], f)) = Range(heard[q]) \cup {f}
    BY <1>0, <1>3, WireFacts DEF Types
  <2>2. CASE UNCHANGED <<pc, heard, pendingS>> BY <2>2
  <2>3. CASE ~UNCHANGED <<pc, heard, pendingS>>
    <3>1. r \in Requests /\ session[r] = s /\ id[r] = f.id /\ pc[r] \in {"wait", "stream"}
      BY <1>4, <2>3
    <3>2. \A q \in Requests : heard'[q] = heard[q]
                              \/ (q = r /\ Range(heard'[q]) = Range(heard[q]) \cup {f})
      BY <1>7, <2>1
    <3> QED BY <3>1, <3>2
  <2> QED BY <2>2, <2>3
<1>9. Sources'
  <2>1. \A w \in Conns : /\ \A g \in Range(down'[w]) :
                              pc'[g.by] \in Begun /\ session[g.by] = w /\ id[g.by] = g.id
                         /\ \A g \in Range(up'[w]) :
                              pc'[g.by] \in Begun /\ session[g.by] <= w /\ id[g.by] = g.id
    BY <1>1, <1>2, <1>5, Owners DEF IInv, Sources
  <2>2. \A i \in Ids : pendingC'[i].req # NoReq =>
           pc'[pendingC[i].req] \in Begun /\ id[pendingC[i].req] = i
    BY <1>1, <1>5, Owners DEF IInv, Sources
  <2>3. \A q \in Requests : /\ fwd'[q] # "none" => pc'[q] \in Begun
                            /\ heard'[q] # <<>> => pc'[q] \in Begun
    BY <1>1, <1>4, <1>5, <1>7 DEF IInv, Sources
  <2>4. \A q \in Requests : \A g \in Range(heard'[q]) : pc'[g.by] \in Begun
    BY <1>3, <1>5, <1>8, Owners
  <2> QED BY <1>1, <2>1, <2>2, <2>3, <2>4 DEF Sources
<1>10. \/ UNCHANGED pendingS /\ (\A q \in Requests : pc[q] \in InFlight => pc'[q] \in InFlight)
       \/ /\ r \in Requests /\ session[r] = s /\ id[r] = f.id /\ pc'[r] = "done"
          /\ \A w \in Conns, i \in Ids : \/ pendingS'[w][i] = pendingS[w][i] /\ pendingS[w][i] # r
                                         \/ w = s /\ i = f.id /\ pendingS'[w][i] = NoReq
  <2>1. CASE UNCHANGED <<pc, heard, pendingS>> BY <2>1
  <2>2. CASE UNCHANGED pendingS /\ r \in Requests /\ pc'[r] = "stream" BY <1>5, <2>2
  <2>3. CASE /\ r \in Requests /\ session[r] = s /\ id[r] = f.id /\ pc'[r] = "done"
             /\ pendingS' = [pendingS EXCEPT ![s][f.id] = NoReq]
    <3>1. pendingS \in [Conns -> [Ids -> Requests \cup {NoReq}]] BY <1>0 DEF Types
    <3>2. \A w \in Conns, i \in Ids : \/ pendingS'[w][i] = pendingS[w][i] /\ ~(w = s /\ i = f.id)
                                      \/ w = s /\ i = f.id /\ pendingS'[w][i] = NoReq
      BY <1>3, <2>3, <3>1
    <3>3. \A w \in Conns, i \in Ids : pendingS[w][i] = r => w = s /\ i = f.id
      BY <2>3 DEF IInv, Mailboxes, Requests, NoReq
    <3> QED BY <2>3, <3>2, <3>3
  <2> QED BY <1>4, <2>1, <2>2, <2>3
<1>11. Mailboxes'
  <2>1. ASSUME NEW w \in Conns, NEW i \in Ids, pendingS'[w][i] # NoReq
        PROVE  LET q == pendingS'[w][i] IN pc'[q] \in InFlight /\ session[q] = w /\ id[q] = i
    <3>1. pendingS'[w][i] = pendingS[w][i] BY <1>10, <2>1
    <3>2. pendingS[w][i] \in Requests /\ pc[pendingS[w][i]] \in InFlight BY <2>1, <3>1, Owners
    <3>3. pc'[pendingS[w][i]] \in InFlight BY <1>5, <1>10, <2>1, <3>1, <3>2
    <3> QED BY <2>1, <3>1, <3>2, <3>3 DEF IInv, Mailboxes
  <2> QED BY <1>1, <2>1 DEF Mailboxes
<1>12. \A q \in Requests : pc[q] \in Drawn => (Trace(q)' => Trace(q))
  <2>1. \A q \in Requests : pc[q] \in Drawn => session[q] \in Conns BY Placed
  <2> QED BY <1>1, <1>2, <2>1 DEF Trace, Sent
<1>13. Alone' /\ Apart'
  <2>1. \A q \in Requests : pc[q] = "done" => pc'[q] = "done" BY <1>5
  <2> QED BY <1>1, <1>5, <1>12, <2>1, KeptApart
<1>14. Order'
  <2>1. \A w \in Conns : \A g \in Range(down[w]) :
           /\ pc'[g.by] # "start"
           /\ pc'[g.by] = "upload" => g.kind \in {"body", "chunk"}
           /\ pc'[g.by] \in {"wait", "stream"} => g.kind # "cancel"
    BY <1>5, Owners DEF IInv, Order
  <2> QED BY <1>1, <2>1 DEF IInv, Order
<1>15. Opened' BY <1>1, <1>5 DEF IInv, Opened, Starts
<1>16. UniqueInFlight'
  <2>1. ASSUME NEW q \in Requests, pc'[q] \in InFlight, srv[session[q]] = "open"
        PROVE  pendingS'[session[q]][id[q]] = q
    <3>1. pc[q] \in InFlight BY <1>5, <2>1
    <3>2. pendingS[session[q]][id[q]] = q BY <2>1, <3>1 DEF IInv, UniqueInFlight
    <3>3. session[q] \in Conns /\ id[q] \in Ids BY <1>0, <3>1, Placed DEF Types
    <3>4. CASE UNCHANGED pendingS BY <3>2, <3>4
    <3>5. CASE pc'[r] = "done" /\ r \in Requests /\ session[r] = s /\ id[r] = f.id
      <4>1. q # r BY <2>1, <3>5
      <4>2. ~(session[q] = s /\ id[q] = f.id) BY <3>2, <4>1 DEF r
      <4> QED BY <1>10, <3>2, <3>3, <4>2
    <3> QED BY <1>10, <3>4, <3>5
  <2> QED BY <1>1, <2>1 DEF UniqueInFlight
<1>17. WiresWithinSession'
  <2>1. ASSUME r \in Requests, session[r] = s, id[r] = f.id, pc[r] \in {"wait", "stream"}
        PROVE  f.by = r \/ session[f.by] < s
    <3>1. CASE session[f.by] = s /\ f.by # r
      <4>1. ~Trace(f.by) BY <1>1, <1>3, <2>1, <3>1 DEF IInv, Alone, Same
      <4>2. Trace(f.by) BY <1>1, <3>1 DEF Trace, Sent
      <4> QED BY <4>1, <4>2
    <3>2. session[f.by] \in 0..MaxConn /\ s \in Nat BY <1>0, <1>3 DEF Types, Conns
    <3> QED BY <1>3, <3>1, <3>2, ForwardAssumption
  <2> QED BY <1>1, <1>8, <2>1 DEF IInv, WiresWithinSession
<1>18. CancelKnown' BY <1>1, <1>5 DEF IInv, CancelKnown
<1> QED BY <1>6, <1>9, <1>11, <1>13, <1>14, <1>15, <1>16, <1>17, <1>18 DEF Core

LEMMA ServerClosesStep ==
  ASSUME IInv, Types', NEW s \in Conns, ServerCloses(s)
  PROVE  Core'
<1> USE DEF Drawn, Begun, InFlight
<1>0. Types BY DEF IInv
<1>1. /\ srv[s] = "open"
      /\ UNCHANGED <<pc, session, id, heard, down, conn, cli, pendingC, active, fwd, cancelled>>
      /\ \A w \in Conns : /\ w # s => srv'[w] = srv[w] /\ up'[w] = up[w] /\ pendingS'[w] = pendingS[w]
                          /\ w = s => srv'[w] = "closed" /\ up'[w] = <<>>
                                      /\ \A i \in Ids : pendingS'[w][i] = NoReq
      /\ online' \in {0, online} /\ (online = s => online' = 0)
  BY <1>0 DEF ServerCloses, Types, handlerVars, linkVars, mapVars, forwardVars
<1>2. Links'
  <2>1. online' # 0 => srv'[online'] = "open"
    <3>1. online' # 0 => online' = online /\ online # s /\ online \in Conns
      BY <1>0, <1>1, ForwardAssumption DEF Types, Conns
    <3> QED BY <1>1, <3>1 DEF IInv, Links
  <2>2. \A w \in Conns : /\ srv'[w] = "none" <=> srv[w] = "none"
                         /\ srv'[w] # "open" => up'[w] = <<>>
    BY <1>1 DEF IInv, Links
  <2> QED BY <1>1, <2>1, <2>2 DEF IInv, Links
<1>3. \A w \in Conns : Range(up'[w]) \subseteq Range(up[w]) BY <1>1, NothingSent
<1>4. Sources' BY <1>1, <1>3 DEF IInv, Sources
<1>5. Mailboxes' BY <1>1 DEF IInv, Mailboxes
<1>6. \A q \in Requests : pc[q] \in Drawn => session[q] \in Conns BY Placed
<1>7. \A q \in Requests : pc[q] \in Drawn => (Trace(q)' => Trace(q))
  BY <1>1, <1>3, <1>6 DEF Trace, Sent
<1>8. \A q \in Requests : pc[q] \in Drawn /\ srv'[session[q]] = "open" =>
         srv[session[q]] = "open" /\ session[q] # s
  BY <1>1, <1>6
<1>9. Alone' /\ Apart' BY <1>1, <1>7, <1>8, KeptApart
<1>10. Order' BY <1>1 DEF IInv, Order
<1>11. Opened' BY <1>1, <1>8 DEF IInv, Opened, Starts
<1>12. UniqueInFlight' BY <1>1, <1>6, <1>8 DEF IInv, UniqueInFlight
<1>13. WiresWithinSession' BY <1>1 DEF IInv, WiresWithinSession
<1>14. CancelKnown' BY <1>1 DEF IInv, CancelKnown
<1> QED BY <1>2, <1>4, <1>5, <1>9, <1>10, <1>11, <1>12, <1>13, <1>14 DEF Core

LEMMA ClientClosesStep ==
  ASSUME IInv, Types', ClientCloses
  PROVE  Core'
<1> USE DEF Drawn, Begun, InFlight
<1>0. Types BY DEF IInv
<1>1. /\ conn \in Conns
      /\ UNCHANGED <<pc, session, id, heard, online, srv, pendingS, up, conn, pendingC, active, fwd,
                     cancelled>>
      /\ \A s \in Conns : /\ s # conn => cli'[s] = cli[s] /\ down'[s] = down[s]
                          /\ s = conn => cli'[s] = "closed" /\ down'[s] = <<>>
  BY <1>0, ForwardAssumption
     DEF ClientCloses, Conns, Types, handlerVars, serverVars, mapVars, forwardVars
<1>2. Links'
  <2>1. ~(conn < conn) /\ ~(conn > conn) BY <1>0, ForwardAssumption DEF Types
  <2>2. \A s \in Conns : /\ cli'[s] = "none" <=> cli[s] = "none"
                         /\ s < conn => cli'[s] = "closed"
                         /\ cli'[s] \in {"none", "closed"} => down'[s] = <<>>
    BY <1>1, <2>1 DEF IInv, Links
  <2> QED BY <1>1, <2>2 DEF IInv, Links
<1>3. \A s \in Conns : Range(down'[s]) \subseteq Range(down[s]) BY <1>1, NothingSent
<1>4. Sources' BY <1>1, <1>3 DEF IInv, Sources
<1>5. Mailboxes' BY <1>1 DEF IInv, Mailboxes
<1>6. \A q \in Requests : pc[q] \in Drawn => session[q] \in Conns BY Placed
<1>7. \A q \in Requests : pc[q] \in Drawn => (Trace(q)' => Trace(q))
  BY <1>1, <1>3, <1>6 DEF Trace, Sent
<1>8. Alone' /\ Apart' BY <1>1, <1>7, KeptApart
<1>9. \A s \in Conns : down'[s] = down[s] \/ Len(down'[s]) = 0 BY <1>1
<1>10. Order' BY <1>1, <1>3, <1>9 DEF IInv, Order
<1>11. Opened'
  <2>1. \A q \in Requests : pc[q] = "upload" /\ cli'[session[q]] # "closed" =>
           cli[session[q]] # "closed" /\ down'[session[q]] = down[session[q]]
    BY <1>1, <1>6
  <2> QED BY <1>1, <1>9, <2>1 DEF IInv, Opened, Starts
<1>12. UniqueInFlight' BY <1>1 DEF IInv, UniqueInFlight
<1>13. WiresWithinSession' BY <1>1 DEF IInv, WiresWithinSession
<1>14. CancelKnown' BY <1>1 DEF IInv, CancelKnown
<1> QED BY <1>2, <1>4, <1>5, <1>8, <1>10, <1>11, <1>12, <1>13, <1>14 DEF Core

(* No request is of the session that begins. *)
LEMMA RedialStep ==
  ASSUME IInv, Types', Redial
  PROVE  Core'
<1> USE DEF Drawn, Begun, InFlight
<1>0. Types BY DEF IInv
<1>1. /\ conn \in 0..MaxConn /\ conn' = conn + 1 /\ conn + 1 \in Conns /\ online' = conn + 1
      /\ conn \in Conns => cli[conn] = "closed"
      /\ UNCHANGED <<pc, session, id, heard, pendingS, down, up, pendingC, active, fwd, cancelled>>
      /\ \A s \in Conns : /\ s # conn + 1 => cli'[s] = cli[s] /\ srv'[s] = srv[s]
                          /\ s = conn + 1 => cli'[s] = "open" /\ srv'[s] = "open"
  BY <1>0, ForwardAssumption DEF Redial, Conns, Types, handlerVars, mapVars, forwardVars
<1>2. Links'
  <2>1. \A s \in Conns : /\ s < conn' <=> s < conn \/ s = conn
                         /\ s > conn' <=> s > conn /\ s # conn + 1
                         /\ ~(s > conn /\ s < conn + 1)
    BY <1>1 DEF Conns
  <2>2. \A s \in Conns : /\ s < conn' => cli'[s] = "closed"
                         /\ s > conn' <=> cli'[s] = "none"
                         /\ s > conn' <=> srv'[s] = "none"
    <3>1. \A s \in Conns : s < conn' => s # conn + 1 BY <1>1 DEF Conns
    <3> QED BY <1>1, <2>1, <3>1 DEF IInv, Links
  <2>3. \A s \in Conns : /\ srv'[s] # "open" => up'[s] = <<>>
                         /\ cli'[s] \in {"none", "closed"} => down'[s] = <<>>
    BY <1>1 DEF IInv, Links
  <2>4. \A q \in Requests : pc'[q] # "idle" => session'[q] \in 1..conn'
    BY <1>1 DEF IInv, Links
  <2>5. srv'[online'] = "open" BY <1>1
  <2> QED BY <2>2, <2>3, <2>4, <2>5 DEF Links
<1>3. Sources' BY <1>1 DEF IInv, Sources
<1>4. Mailboxes' BY <1>1 DEF IInv, Mailboxes
<1>5. \A q \in Requests : pc[q] \in Drawn => session[q] \in Conns /\ session[q] # conn + 1
  BY <1>1, Placed
<1>6. \A q \in Requests : Trace(q)' => Trace(q) BY <1>1 DEF Trace
<1>7. Alone' /\ Apart'
  <2>1. \A q \in Requests : pc[q] \in Drawn /\ srv'[session[q]] = "open" => srv[session[q]] = "open"
    BY <1>1, <1>5
  <2> QED BY <1>1, <1>6, <2>1, KeptApart
<1>8. Order' BY <1>1 DEF IInv, Order
<1>9. Opened' BY <1>1, <1>5 DEF IInv, Opened, Starts
<1>10. UniqueInFlight' BY <1>1, <1>5 DEF IInv, UniqueInFlight
<1>11. WiresWithinSession' BY <1>1 DEF IInv, WiresWithinSession
<1>12. CancelKnown' BY <1>1 DEF IInv, CancelKnown
<1> QED BY <1>2, <1>3, <1>4, <1>7, <1>8, <1>9, <1>10, <1>11, <1>12 DEF Core

(***************************************************************************)
(* Another request of the session that has the ID of a frame has left no   *)
(* frame; so what the frame does to the entry of its ID suits its request. *)
(***************************************************************************)
LEMMA ClientReadsStep ==
  ASSUME IInv, Types', ClientReads
  PROVE  Core'
<1> USE DEF Drawn, Begun, InFlight
<1> DEFINE w == down[conn]
           h == Head(w)
<1>0. Types BY DEF IInv
<1>1. /\ conn \in Conns /\ h \in Message /\ h \in Range(w) /\ w # <<>> /\ h = w[1]
      /\ UNCHANGED <<pc, session, id, heard, online, srv, pendingS, up, conn, cli>>
      /\ \A i \in Ids : i # h.id => pendingC'[i] = pendingC[i]
  BY ClientReadStep DEF handlerVars, serverVars, linkVars
<1>2. \/ h.kind = "body" /\ pendingC'[h.id].req = h.by
      \/ h.kind = "chunk" /\ pendingC'[h.id].req = pendingC[h.id].req
      \/ h.kind \in {"nobody", "end", "cancel"} /\ pendingC'[h.id].req = NoReq
  BY ClientReadStep
<1>3. UNCHANGED fwd \/ fwd' = [fwd EXCEPT ![h.by] = "waiting"]
  BY ClientReadStep
<1>4. \/ UNCHANGED <<active, cancelled>>
      \/ /\ UNCHANGED fwd
         /\ active' = [active EXCEPT ![h.id] = NoReq]
         /\ cancelled' = [r \in Requests |-> cancelled[r] \/ active[h.id] = r]
  BY ClientReadStep
<1>5. /\ \A s \in Conns : s # conn => down'[s] = down[s]
      /\ down'[conn] = Tail(w)
  BY <1>0, ClientReadStep DEF Types
<1>6. /\ Len(w) \in Nat /\ Len(w) >= 1 /\ Len(Tail(w)) = Len(w) - 1
      /\ Range(Tail(w)) \subseteq Range(w)
      /\ \A k \in 1..Len(w) - 1 : Tail(w)[k] = w[k + 1]
      /\ \A k \in 1..Len(w) : w[k] \in Range(w)
  <2>1. w \in Seq(Message) BY <1>0, <1>1 DEF Types
  <2> QED BY <1>1, <2>1, WireFacts
<1>7. /\ h.by \in Requests /\ h.id \in Ids /\ pc[h.by] \in Begun
      /\ session[h.by] = conn /\ id[h.by] = h.id
  BY <1>1, Owners DEF IInv, Sources
<1>8. \A s \in Conns : Range(down'[s]) \subseteq Range(down[s]) BY <1>5, <1>6
<1>9. Trace(h.by) BY <1>1, <1>7 DEF Trace, Sent
<1> HIDE DEF h
<1>10. Links'
  <2>1. \A s \in Conns : down[s] = <<>> => down'[s] = <<>> BY <1>1, <1>5
  <2> QED BY <1>1, <2>1 DEF IInv, Links
<1>11. Sources'
  <2>1. \A i \in Ids : pendingC'[i].req # NoReq =>
           pc[pendingC'[i].req] \in Begun /\ id[pendingC'[i].req] = i
    BY <1>1, <1>2, <1>7 DEF IInv, Sources
  <2>2. \A q \in Requests : fwd'[q] # "none" => pc[q] \in Begun
    <3>1. \A q \in Requests : fwd'[q] = fwd[q] \/ q = h.by BY <1>0, <1>3 DEF Types
    <3> QED BY <1>7, <3>1 DEF IInv, Sources
  <2> QED BY <1>1, <1>8, <2>1, <2>2 DEF IInv, Sources
<1>12. Mailboxes' BY <1>1 DEF IInv, Mailboxes
<1>13. \A q \in Requests : pc[q] \in Drawn => (Trace(q)' => Trace(q))
  <2>1. \A q \in Requests : fwd'[q] = fwd[q] \/ q = h.by BY <1>0, <1>3 DEF Types
  <2>2. \A q \in Requests : pc[q] \in Drawn => session[q] \in Conns BY Placed
  <2> QED BY <1>1, <1>8, <1>9, <2>1, <2>2 DEF Trace, Sent
<1>14. Alone' /\ Apart' BY <1>1, <1>13, KeptApart
<1>15. \A q \in Requests : pc[q] \in Drawn /\ session[q] = conn /\ id[q] = h.id /\ Trace(q) => q = h.by
  BY <1>7, <1>9 DEF IInv, Apart, Same
<1>16. Order'
  <2>1. ASSUME NEW j \in 1..Len(w) - 1, NEW k \in 1..Len(w) - 1, j < k, Tail(w)[j].by = Tail(w)[k].by
        PROVE  /\ Tail(w)[k].kind \notin {"body", "nobody"}
               /\ Tail(w)[j].kind # "cancel"
               /\ Tail(w)[j].kind \in {"end", "nobody"} => Tail(w)[k].kind = "cancel"
    <3>1. j + 1 \in 1..Len(w) /\ k + 1 \in 1..Len(w) /\ j + 1 < k + 1
      <4> HIDE DEF w
      <4> QED BY <1>6, <2>1
    <3> QED BY <1>1, <1>6, <2>1, <3>1 DEF IInv, Order
  <2>2. \A s \in Conns : \A j, k \in 1..Len(down'[s]) :
           j < k /\ down'[s][j].by = down'[s][k].by =>
               /\ down'[s][k].kind \notin {"body", "nobody"}
               /\ down'[s][j].kind # "cancel"
               /\ down'[s][j].kind \in {"end", "nobody"} => down'[s][k].kind = "cancel"
    <3>1. ASSUME NEW s \in Conns, NEW j \in 1..Len(down'[s]), NEW k \in 1..Len(down'[s]),
                 j < k, down'[s][j].by = down'[s][k].by
          PROVE  /\ down'[s][k].kind \notin {"body", "nobody"}
                 /\ down'[s][j].kind # "cancel"
                 /\ down'[s][j].kind \in {"end", "nobody"} => down'[s][k].kind = "cancel"
      <4>1. CASE s # conn BY <1>5, <3>1, <4>1 DEF IInv, Order
      <4>2. CASE s = conn
        <5> HIDE DEF w
        <5>1. down'[s] = Tail(w) /\ Len(Tail(w)) = Len(w) - 1 BY <1>5, <1>6, <4>2
        <5> QED BY <2>1, <3>1, <5>1
      <4> QED BY <4>1, <4>2
    <3> QED BY <3>1
  <2> QED BY <1>1, <1>8, <2>2 DEF IInv, Order
<1> DEFINE Now(s, q, k) == \E j \in 1..k : down'[s][j].by = q /\ down'[s][j].kind = "body"
(* A body frame that is read leaves its entry. *)
<1>17. \A q \in Requests, k \in 1..Len(w) :
          Starts(conn, q, k) => Now(conn, q, k - 1) \/ (pendingC'[h.id].req = q /\ h.by = q)
  <2>1. ASSUME NEW q \in Requests, NEW k \in 1..Len(w), NEW j \in 1..k,
               w[j].by = q, w[j].kind = "body"
        PROVE  Now(conn, q, k - 1) \/ (pendingC'[h.id].req = q /\ h.by = q)
    <3>1. CASE j = 1 BY <1>1, <1>2, <2>1, <3>1
    <3>2. CASE j # 1
      <4>1. j - 1 \in 1..k - 1 /\ j - 1 \in 1..Len(w) - 1 /\ (j - 1) + 1 = j BY <1>6, <2>1, <3>2
      <4>2. down'[conn][j - 1] = w[j] BY <1>5, <1>6, <4>1
      <4> QED BY <2>1, <4>1, <4>2
    <3> QED BY <3>1, <3>2
  <2> QED BY <2>1 DEF Starts
<1>18. ASSUME NEW s \in Conns, NEW k \in 1..Len(down'[s]), down'[s][k].kind \in {"chunk", "end"}
       PROVE  Now(s, down'[s][k].by, k - 1) \/ pendingC'[down'[s][k].id].req = down'[s][k].by
  <2>1. CASE s = conn
    <3> DEFINE g == w[k + 1]
    <3>1. k + 1 \in 1..Len(w) /\ k + 1 > 1 /\ (k + 1) - 1 = k /\ down'[s][k] = g
      <4> HIDE DEF w
      <4>1. down'[s] = Tail(w) /\ k \in 1..Len(w) - 1 BY <1>5, <1>6, <1>18, <2>1
      <4> QED BY <1>6, <4>1
    <3>2. g \in Range(w) /\ g.kind \in {"chunk", "end"} BY <1>6, <1>18, <3>1
    <3>3. /\ g.by \in Requests /\ g.id \in Ids /\ pc[g.by] \in Begun
          /\ session[g.by] = conn /\ id[g.by] = g.id /\ Trace(g.by)
      BY <1>1, <3>2, Owners DEF IInv, Sources, Trace, Sent
    <3>4. Starts(conn, g.by, k) \/ pendingC[g.id].req = g.by
      BY <1>1, <3>1, <3>2 DEF IInv, Opened
    <3>5. g.id = h.id => g.by = h.by BY <1>15, <3>3
    <3>6. g.by = h.by => h.kind \in {"body", "chunk"}
      <4>1. 1 \in 1..Len(w) BY <1>6
      <4>2. g.by = h.by => h.kind # "cancel" /\ (h.kind \in {"end", "nobody"} => g.kind = "cancel")
        BY <1>1, <3>1, <4>1 DEF IInv, Order
      <4> QED BY <1>2, <3>2, <4>2
    <3> HIDE DEF w, g
    <3>7. CASE pendingC[g.id].req = g.by
      BY <1>1, <1>2, <2>1, <3>1, <3>3, <3>5, <3>6, <3>7
    <3>8. CASE Starts(conn, g.by, k)
      <4>1. k \in 1..Len(w) BY <1>6, <3>1
      <4>2. Now(conn, g.by, k - 1) \/ (pendingC'[h.id].req = g.by /\ h.by = g.by)
        BY <1>17, <3>3, <3>8, <4>1
      <4> QED BY <1>7, <2>1, <3>1, <3>3, <4>2
    <3> QED BY <3>4, <3>7, <3>8
  <2>2. CASE s # conn
    <3>1. down'[s] = down[s] /\ down[s] # <<>> BY <1>5, <1>18, <2>2
    <3>2. cli[s] = "closed" \/ cli[s] = "none"
      <4>1. s < conn \/ s > conn BY <1>1, <2>2 DEF Conns
      <4> QED BY <4>1 DEF IInv, Links
    <3> QED BY <3>1, <3>2 DEF IInv, Links
  <2> QED BY <2>1, <2>2
<1>19. ASSUME NEW q \in Requests, pc[q] = "upload", srv[session[q]] = "open", cli[session[q]] # "closed"
       PROVE  Now(session[q], q, Len(down'[session[q]])) \/ pendingC'[id[q]].req = q
  <2>1. session[q] = conn
    <3>1. session[q] \in Conns /\ session[q] \in 1..conn BY <1>19, Placed
    <3>2. session[q] < conn => cli[session[q]] = "closed" BY <3>1 DEF IInv, Links
    <3> QED BY <1>1, <1>19, <3>1, <3>2 DEF Conns
  <2>2. Starts(conn, q, Len(w)) \/ pendingC[id[q]].req = q
    BY <1>19, <2>1 DEF IInv, Opened
  <2>3. id[q] = h.id => q = h.by BY <1>7, <1>9, <1>19, <2>1 DEF IInv, Alone, Same
  <2>4. q = h.by => h.kind \in {"body", "chunk"} BY <1>1, <1>19 DEF IInv, Order
  <2>5. id[q] \in Ids BY <1>0 DEF Types
  <2>6. Len(down'[conn]) = Len(w) - 1 /\ Len(w) \in 1..Len(w) BY <1>5, <1>6
  <2> HIDE DEF w
  <2>7. CASE pendingC[id[q]].req = q BY <1>1, <1>2, <2>3, <2>4, <2>5, <2>7
  <2>8. CASE Starts(conn, q, Len(w)) BY <1>7, <1>17, <2>1, <2>6, <2>8
  <2> QED BY <2>2, <2>7, <2>8
<1>20. Opened' BY <1>1, <1>18, <1>19 DEF Opened, Starts
<1>21. UniqueInFlight' BY <1>1 DEF IInv, UniqueInFlight
<1>22. WiresWithinSession' BY <1>1 DEF IInv, WiresWithinSession
<1>23. CancelKnown'
  <2>1. ASSUME NEW q \in Requests, fwd'[q] \in {"asking", "streaming"}, ~cancelled'[q],
               \A p \in Requests : pc[p] \in Drawn /\ id[p] = id[q] => session[p] = session[q]
        PROVE  active'[id[q]] = q
    <3>1. fwd[q] = fwd'[q] BY <1>0, <1>3, <2>1 DEF Types
    <3>2. ~cancelled[q] /\ (active' # active => active[h.id] # q)
      BY <1>0, <1>4, <2>1 DEF Types
    <3>3. active[id[q]] = q BY <2>1, <3>1, <3>2 DEF IInv, CancelKnown
    <3>4. CASE UNCHANGED active BY <3>3, <3>4
    <3>5. CASE active' = [active EXCEPT ![h.id] = NoReq] /\ active' # active
      <4>1. id[q] # h.id BY <3>2, <3>3, <3>5
      <4> QED BY <1>0, <3>3, <3>5, <4>1 DEF Types
    <3> QED BY <1>4, <3>4, <3>5
  <2> QED BY <1>1, <2>1 DEF CancelKnown
<1> QED BY <1>10, <1>11, <1>12, <1>14, <1>16, <1>20, <1>21, <1>22, <1>23 DEF Core

-----------------------------------------------------------------------------
LEMMA InitIInv == Init => IInv
<1> SUFFICES ASSUME Init PROVE IInv
  OBVIOUS
<1> USE NothingSent DEF Init
<1>1. Types
  <2>1. /\ heard \in [Requests -> Seq(Message)]
        /\ down \in [Conns -> Seq(Message)] /\ up \in [Conns -> Seq(Message)]
    OBVIOUS
  <2>2. 0 \in Ids /\ 0 \in 0..MaxConn /\ 0 \in 0..MaxBody /\ 0 \in 0..MaxChunks
    BY ForwardAssumption DEF Ids
  <2>3. pendingS \in [Conns -> [Ids -> Requests \cup {NoReq}]] OBVIOUS
  <2> QED BY <2>1, <2>2, <2>3 DEF Types, PCs, FwdStates, NoEntry
<1>2. Links BY ForwardAssumption DEF Links, Conns
<1>3. Sources BY DEF Sources, NoEntry
<1>4. Mailboxes BY DEF Mailboxes
<1>5. Alone /\ Apart BY DEF Alone, Apart, Same, Drawn, Begun, InFlight
<1>6. Order
  <2>1. \A s \in Conns : Len(down[s]) = 0 OBVIOUS
  <2> QED BY <2>1 DEF Order
<1>7. Opened
  <2>1. \A s \in Conns : Len(down[s]) = 0 OBVIOUS
  <2> QED BY <2>1 DEF Opened
<1>8. UniqueInFlight /\ WiresWithinSession /\ CancelKnown
  BY DEF UniqueInFlight, WiresWithinSession, CancelKnown
<1> QED BY <1>1, <1>2, <1>3, <1>4, <1>5, <1>6, <1>7, <1>8 DEF IInv

LEMMA StepIInv == IInv /\ [Next]_vars => IInv'
<1> SUFFICES ASSUME IInv, [Next]_vars PROVE IInv'
  OBVIOUS
<1>1. Types' BY TypeStep
<1>2. ASSUME NEW r \in Requests, Handler(r) PROVE Core'
  BY <1>1, <1>2, ArriveStep, NextReqIDStep, RegisterPendingStep, SendingStep DEF Handler, Sending
<1>3. ASSUME NEW r \in Requests, Forward(r) PROVE Core'
  BY <1>1, <1>3, ForwardingStep, AnsweringStep DEF Forward, Answering
<1>4. ASSUME NEW s \in Conns, ServerReads(s) \/ ServerCloses(s) PROVE Core'
  BY <1>1, <1>4, ServerReadsStep, ServerClosesStep
<1>5. ASSUME ClientCloses \/ Redial \/ ClientReads PROVE Core'
  BY <1>1, <1>5, ClientClosesStep, RedialStep, ClientReadsStep
<1>6. ASSUME UNCHANGED vars PROVE Core'
  <2>1. UNCHANGED <<pc, session, id, heard, online, srv, pendingS, down, up, conn, cli, pendingC,
                    active, fwd, cancelled>>
    BY <1>6 DEF vars, handlerVars, serverVars, linkVars, mapVars, forwardVars
  <2>2. \A q \in Requests : Trace(q)' = Trace(q) BY <2>1 DEF Trace
  <2>3. Alone' /\ Apart' BY <2>1, <2>2 DEF IInv, Alone, Apart, Same
  <2>4. Links' /\ Sources' /\ Mailboxes' BY <2>1 DEF IInv, Links, Sources, Mailboxes
  <2>5. Order' /\ Opened' BY <2>1 DEF IInv, Order, Opened, Starts
  <2>6. UniqueInFlight' /\ WiresWithinSession' /\ CancelKnown'
    BY <2>1 DEF IInv, UniqueInFlight, WiresWithinSession, CancelKnown
  <2> QED BY <2>3, <2>4, <2>5, <2>6 DEF Core
<1>7. Core' BY <1>2, <1>3, <1>4, <1>5, <1>6 DEF Next
<1> QED BY <1>1, <1>7 DEF IInv, Core

LEMMA Invariance == Spec => []IInv
BY InitIInv, StepIInv, PTL DEF Spec

(***************************************************************************)
(* However many requests there are and wherever the counter has come round *)
(* to: while its session lives, what is registered for the ID of a handler *)
(* is its own mailbox, although NextReqID and RegisterPending are two lock *)
(* sections and another handler runs between them (tunnel.go).             *)
(***************************************************************************)
THEOREM IdsApart == Spec => []UniqueInFlight
<1>1. IInv => UniqueInFlight BY DEF IInv
<1> QED BY <1>1, Invariance, PTL

(***************************************************************************)
(* A handler hears no other request of its own session: routeResponse goes *)
(* by the ID alone, and a late frame of a request that is over finds no    *)
(* later mailbox with that ID.                                             *)
(***************************************************************************)
THEOREM WiresApart == Spec => []WiresWithinSession
<1>1. IInv => WiresWithinSession BY DEF IInv
<1> QED BY <1>1, Invariance, PTL

(***************************************************************************)
(* Within a session a forward that is asking or streaming is found by      *)
(* handleCancel under its ID: the deferred removal of another forward      *)
(* never takes its cancel function away (forward, handleCancel).           *)
(***************************************************************************)
THEOREM CancelReaches == Spec => []Cancellable
<1>1. IInv => Cancellable
  <2>1. ASSUME IInv, NEW r \in Requests, fwd[r] \in {"asking", "streaming"}, ~cancelled[r],
               \A q \in Requests : id[q] = id[r] => session[q] \in {0, session[r]}
        PROVE  active[id[r]] = r
    <3>1. ASSUME NEW q \in Requests, pc[q] \in Drawn, id[q] = id[r]
          PROVE  session[q] = session[r]
      <4>1. session[q] \in Conns BY <2>1, <3>1, Placed
      <4>2. session[q] # 0 BY <4>1 DEF Conns
      <4> QED BY <2>1, <3>1, <4>2
    <3> QED BY <2>1, <3>1 DEF IInv, CancelKnown
  <2> QED BY <2>1 DEF Cancellable
<1> QED BY <1>1, Invariance, PTL
=============================================================================
