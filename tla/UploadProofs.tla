----------------------------- MODULE UploadProofs ------------------------------
(***************************************************************************)
(* The target is asked with the whole body of a request: theorems about    *)
(* Forward for any numbers of requests, request IDs, connections and       *)
(* chunks.                                                                 *)
(*                                                                         *)
(* The body is in two places while it is uploaded, the connection and the  *)
(* pending map, and the map goes by the ID alone.  What is proved is that  *)
(* ahead of every frame of a request there is, on the wire or in its own   *)
(* entry, all of the body that comes before it (Whole).                    *)
(***************************************************************************)
EXTENDS ForwardProofs

(* The body of request r, as far as its first n chunks. *)
Body(r, n) == [m \in 0..n-1 |-> r]

(* An entry of the pending map has the first chunks of its request and no others. *)
Entries ==
    /\ pendingC \in [Ids -> [req : Requests \cup {NoReq}, chunks : Bodies]]
    /\ \A i \in Ids : LET p == pendingC[i] IN
          p = NoEntry \/ (p.req \in Requests /\ \E n \in 0..uploaded[p.req] : p.chunks = Body(p.req, n))

(* The body is sent after the start, and before the forward begins. *)
Uploads ==
    /\ asked \in [Requests -> Bodies]
    /\ \A r \in Requests :
          /\ pc[r] \in {"idle", "draw", "register", "start"} => uploaded[r] = 0
          /\ fwd[r] # "none" => pc[r] \notin {"start", "upload"}
          /\ fwd[r] = "none" => asked[r] = <<>>
    /\ \A s \in Conns : \A f \in Range(down[s]) :
          /\ f.kind \in {"body", "nobody", "chunk", "end", "cancel"}
          /\ f.kind = "chunk" => f.seq < uploaded[f.by]
          /\ f.kind = "nobody" => uploaded[f.by] = 0
          /\ fwd[f.by] # "none" => f.kind = "cancel"

(* Chunk m of request r is among the first n frames; it is in its entry. *)
OnWire(s, r, m, n) ==
    \E j \in 1..n : down[s][j].by = r /\ down[s][j].kind = "chunk" /\ down[s][j].seq = m
Stored(r, m) == pendingC[id[r]].req = r /\ m \in DOMAIN pendingC[id[r]].chunks

(* The first l chunks of r come before frame n + 1; an entry counts once its start is read. *)
Ahead(s, r, n, l) ==
    \A m \in 0..l-1 : OnWire(s, r, m, n) \/ (~Starts(s, r, n) /\ Stored(r, m))

Whole ==
    /\ \A s \in Conns : \A k \in 1..Len(down[s]) : LET f == down[s][k] IN
          /\ f.kind = "chunk" => Ahead(s, f.by, k - 1, f.seq)
          /\ f.kind = "end" => Ahead(s, f.by, k - 1, uploaded[f.by])
    /\ \A r \in Requests : LET s == session[r] IN
          pc[r] = "upload" /\ srv[s] = "open" /\ cli[s] # "closed"
              => Ahead(s, r, Len(down[s]), uploaded[r])

Capacity == \A s \in Conns : Len(down[s]) <= WireCap /\ Len(up[s]) <= WireCap

UInv == Entries /\ Uploads /\ Whole /\ Capacity /\ BodyWhole

-----------------------------------------------------------------------------
(* Nothing is sent: the empty body. *)
LEMMA NoBody == ASSUME NEW r PROVE Body(r, 0) = <<>>
<1>1. 0..0-1 = {} OBVIOUS
<1>2. \A f \in [{} -> {r}] : f = <<>> OBVIOUS
<1>3. Body(r, 0) \in [{} -> {r}] BY <1>1 DEF Body
<1> QED BY <1>2, <1>3

(* A chunk that is put where one was, or where the next one goes, gives a body again. *)
LEMMA NextChunk ==
  ASSUME NEW r, NEW n \in Nat, NEW m \in Nat, m <= n
  PROVE  Put(Body(r, n), m, r) = Body(r, IF m = n THEN n + 1 ELSE n)
<1> DEFINE l == IF m = n THEN n + 1 ELSE n
<1>1. 0..n-1 \cup {m} = 0..l-1 OBVIOUS
<1> HIDE DEF l
<1>2. Put(Body(r, n), m, r) = [k \in 0..l-1 |-> r] BY <1>1 DEF Put, Body
<1> QED BY <1>2 DEF l, Body

LEMMA BodyTyped ==
  ASSUME NEW r \in Requests, NEW n \in 0..MaxBody
  PROVE  Body(r, n) \in Bodies
BY DEF Body, Bodies

-----------------------------------------------------------------------------
(* Frames are under way to the client on its current connection only. *)
LEMMA OnlyCurrent ==
  ASSUME IInv, NEW s \in Conns, s # conn
  PROVE  down[s] = <<>> /\ Len(down[s]) = 0
<1>1. conn \in 0..MaxConn BY DEF IInv, Types
<1>2. s < conn \/ s > conn BY <1>1, ForwardAssumption DEF Conns
<1>3. cli[s] \in {"none", "closed"} BY <1>2 DEF IInv, Links
<1> QED BY <1>3 DEF IInv, Links

(* The frames of a connection are messages of requests that have begun. *)
LEMMA Frames ==
  ASSUME IInv, NEW s \in Conns, NEW k \in 1..Len(down[s])
  PROVE  /\ Len(down[s]) \in Nat /\ down[s][k] \in Range(down[s]) /\ down[s][k] \in Message
         /\ down[s][k].by \in Requests /\ down[s][k].id \in Ids /\ down[s][k].seq \in Nat
         /\ pc[down[s][k].by] \in Begun /\ session[down[s][k].by] = s
         /\ id[down[s][k].by] = down[s][k].id /\ Trace(down[s][k].by)
<1>1. down[s] \in Seq(Message) BY DEF IInv, Types
<1>2. Len(down[s]) \in Nat /\ down[s][k] \in Range(down[s]) BY <1>1, WireFacts
<1>3. down[s][k] \in Message BY <1>1
<1>4. down[s][k].seq \in Nat BY <1>3, ForwardAssumption DEF Message
<1> QED BY <1>2, <1>3, <1>4, Owners DEF IInv, Sources, Trace, Sent

(* A step after which every frame and every body is where it was. *)
LEMMA BodiesKept ==
  ASSUME IInv, UInv, UNCHANGED <<uploaded, asked, down, pendingC>>,
         \A q \in Requests : pc[q] \in Begun => session'[q] = session[q] /\ id'[q] = id[q],
         \A q \in Requests : fwd'[q] = "none" <=> fwd[q] = "none",
         \A q \in Requests : pc'[q] \in {"idle", "draw", "register", "start"} =>
                                pc[q] \in {"idle", "draw", "register", "start"},
         \A q \in Requests : pc[q] \in Begun /\ pc[q] \notin {"start", "upload"}
                                => pc'[q] \notin {"start", "upload"},
         \A q \in Requests : pc'[q] = "upload" /\ srv'[session'[q]] = "open" /\ cli'[session'[q]] # "closed"
                                => pc[q] = "upload" /\ srv[session[q]] = "open" /\ cli[session[q]] # "closed",
         \A s \in Conns : Len(up'[s]) <= WireCap
  PROVE  UInv'
<1>1. Entries' BY DEF UInv, Entries
<1>2. Uploads'
  <2>1. \A q \in Requests : fwd'[q] # "none" => pc'[q] \notin {"start", "upload"}
    BY DEF UInv, Uploads, IInv, Sources
  <2>2. \A s \in Conns : \A f \in Range(down[s]) : f.by \in Requests BY Owners
  <2> QED BY <2>1, <2>2 DEF UInv, Uploads
<1>3. \A q \in Requests, s \in Conns : \A n, l :
         pc[q] \in Begun /\ Ahead(s, q, n, l) => Ahead(s, q, n, l)'
  BY DEF Ahead, OnWire, Starts, Stored
<1>4. Whole'
  <2>1. ASSUME NEW s \in Conns, NEW k \in 1..Len(down[s])
        PROVE  LET f == down[s][k] IN
               /\ f.kind = "chunk" => Ahead(s, f.by, k - 1, f.seq)
               /\ f.kind = "end" => Ahead(s, f.by, k - 1, uploaded[f.by])
               /\ f.by \in Requests /\ pc[f.by] \in Begun
    BY <2>1, Frames DEF UInv, Whole
  <2>2. \A q \in Requests : pc[q] = "upload" /\ srv[session[q]] = "open" /\ cli[session[q]] # "closed"
           => Ahead(session[q], q, Len(down[session[q]]), uploaded[q]) /\ session[q] \in Conns
    BY Placed DEF UInv, Whole, Drawn, Begun, InFlight
  <2>3. \A q \in Requests : pc[q] = "upload" => pc[q] \in Begun BY DEF Begun, InFlight
  <2>4. \A s \in Conns : \A k \in 1..Len(down[s]) :
           /\ down[s][k].kind = "chunk" => Ahead(s, down[s][k].by, k - 1, down[s][k].seq)'
           /\ down[s][k].kind = "end" => Ahead(s, down[s][k].by, k - 1, uploaded[down[s][k].by])'
    BY <1>3, <2>1
  <2>5. \A q \in Requests : LET s == session'[q] IN
           pc'[q] = "upload" /\ srv'[s] = "open" /\ cli'[s] # "closed"
              => Ahead(session[q], q, Len(down[session[q]]), uploaded[q])'
    BY <1>3, <2>2, <2>3
  <2> QED BY <2>4, <2>5 DEF Whole
<1>5. Capacity' BY DEF UInv, Capacity
<1>6. BodyWhole' BY DEF UInv, BodyWhole
<1> QED BY <1>1, <1>2, <1>4, <1>5, <1>6 DEF UInv

(* What the handler of a request does to its body when it sends a frame, or cannot. *)
BodySent(r, f) ==
    \/ /\ f.kind = "chunk" /\ f.seq = uploaded[r]
       /\ pc[r] = "upload" /\ pc'[r] = "upload" /\ uploaded' = [uploaded EXCEPT ![r] = @ + 1]
    \/ /\ f.kind = "body" /\ pc[r] = "start" /\ pc'[r] = "upload" /\ UNCHANGED uploaded
    \/ /\ f.kind = "nobody" /\ pc[r] = "start" /\ pc'[r] = "wait" /\ UNCHANGED uploaded
    \/ /\ f.kind = "end" /\ pc[r] = "upload" /\ pc'[r] = "wait" /\ UNCHANGED uploaded
    \/ /\ f.kind = "cancel" /\ pc'[r] = "done" /\ UNCHANGED uploaded

LEMMA SendBody ==
  ASSUME IInv, NEW r \in Requests, Sending(r)
  PROVE  \/ /\ UNCHANGED down
            /\ \/ UNCHANGED uploaded
               \/ pc[r] = "upload" /\ uploaded' = [uploaded EXCEPT ![r] = @ + 1]
            /\ pc'[r] = "upload" => cli[session[r]] = "closed"
         \/ \E f \in Message :
               /\ f.by = r /\ f.id = id[r] /\ BodySent(r, f)
               /\ srv[session[r]] = "open" /\ cli[session[r]] # "closed"
               /\ Len(down[session[r]]) < WireCap
               /\ down' = [down EXCEPT ![session[r]] = Append(@, f)]
<1> DEFINE Lost == cli[session[r]] = "closed" /\ UNCHANGED down
           Queued(f) == /\ srv[session[r]] = "open" /\ cli[session[r]] # "closed"
                        /\ Len(down[session[r]]) < WireCap
                        /\ down' = [down EXCEPT ![session[r]] = Append(@, f)]
<1>0. Types BY DEF IInv
<1>1. \A f : ToClient(session[r], f) => Lost \/ Queued(f) BY DEF ToClient
<1>2. \A k \in Kinds, n \in 0..MaxBody + MaxChunks :
         /\ Frame(r, k, n) \in Message /\ Frame(r, k, n).by = r /\ Frame(r, k, n).seq = n
         /\ Frame(r, k, n).id = id[r] /\ Frame(r, k, n).kind = k
  <2>1. \A k, n : Frame(r, k, n).seq = n BY DEF Frame
  <2> QED BY <1>0, <2>1, FrameTyped
<1>3. 0 \in 0..MaxBody + MaxChunks BY ForwardAssumption
<1>4. Kinds = {"body", "nobody", "start", "chunk", "end", "fail", "cancel"} BY DEF Kinds
<1> HIDE DEF Lost, Queued
<1>5. CASE SendStart(r)
  <2>1. PICK hasBody \in BOOLEAN :
           /\ ToClient(session[r], Frame(r, IF hasBody THEN "body" ELSE "nobody", 0))
           /\ Goto(r, IF hasBody THEN "upload" ELSE "wait")
    BY <1>5 DEF SendStart
  <2>2. pc[r] = "start" /\ UNCHANGED uploaded
        /\ pc'[r] = IF hasBody THEN "upload" ELSE "wait"
    BY <1>0, <1>5, <2>1 DEF SendStart, Goto, Types
  <2> DEFINE f == Frame(r, IF hasBody THEN "body" ELSE "nobody", 0)
  <2>3. f \in Message /\ f.by = r /\ f.id = id[r] /\ f.kind = IF hasBody THEN "body" ELSE "nobody"
    BY <1>2, <1>3, <1>4
  <2>4. Lost \/ Queued(f) BY <1>1, <2>1
  <2> HIDE DEF f
  <2>5. BodySent(r, f) BY <2>2, <2>3 DEF BodySent
  <2> QED BY <2>2, <2>3, <2>4, <2>5 DEF Lost, Queued
<1>6. CASE UploadChunk(r)
  <2> DEFINE f == Frame(r, "chunk", uploaded[r])
  <2>1. /\ pc[r] = "upload" /\ UNCHANGED pc /\ uploaded' = [uploaded EXCEPT ![r] = @ + 1]
        /\ ToClient(session[r], f)
    BY <1>6 DEF UploadChunk
  <2>2. uploaded[r] \in 0..MaxBody + MaxChunks
    BY <1>0, <1>6, ForwardAssumption DEF UploadChunk, Types
  <2>3. f \in Message /\ f.by = r /\ f.id = id[r] /\ f.kind = "chunk" /\ f.seq = uploaded[r]
    BY <1>2, <1>4, <2>2
  <2>4. Lost \/ Queued(f) BY <1>1, <2>1
  <2> HIDE DEF f
  <2>5. BodySent(r, f) BY <2>1, <2>3 DEF BodySent
  <2> QED BY <2>1, <2>3, <2>4, <2>5 DEF Lost, Queued
<1>7. CASE UploadEnds(r)
  <2> DEFINE f == Frame(r, "end", 0)
  <2>1. /\ pc[r] = "upload" /\ pc'[r] = "wait" /\ UNCHANGED uploaded /\ ToClient(session[r], f)
    BY <1>0, <1>7 DEF UploadEnds, Goto, Types
  <2>2. f \in Message /\ f.by = r /\ f.id = id[r] /\ f.kind = "end" BY <1>2, <1>3, <1>4
  <2>3. Lost \/ Queued(f) BY <1>1, <2>1
  <2> HIDE DEF f
  <2>4. BodySent(r, f) BY <2>1, <2>2 DEF BodySent
  <2> QED BY <2>1, <2>2, <2>3, <2>4 DEF Lost, Queued
<1>8. CASE GivesUp(r)
  <2> DEFINE f == Frame(r, "cancel", 0)
  <2>1. /\ pc'[r] = "done" /\ UNCHANGED uploaded /\ (ToClient(session[r], f) \/ UNCHANGED down)
    BY <1>0, <1>8 DEF GivesUp, Finish, Goto, Types
  <2>2. f \in Message /\ f.by = r /\ f.id = id[r] /\ f.kind = "cancel" BY <1>2, <1>3, <1>4
  <2>3. UNCHANGED down \/ Queued(f) BY <1>1, <2>1 DEF Lost
  <2> HIDE DEF f
  <2>4. BodySent(r, f) BY <2>1, <2>2 DEF BodySent
  <2> QED BY <2>1, <2>2, <2>3, <2>4 DEF Queued
<1> QED BY <1>5, <1>6, <1>7, <1>8 DEF Sending

LEMMA SendingBodies ==
  ASSUME IInv, UInv, NEW r \in Requests, Sending(r)
  PROVE  UInv'
<1> USE DEF Begun, InFlight
<1> DEFINE s == session[r]
<1>0. Types /\ uploaded[r] \in Nat BY ForwardAssumption DEF IInv, Types
<1>1. /\ pc[r] \in InFlight /\ pc'[r] \in Begun
      /\ \A q \in Requests : q # r => pc'[q] = pc[q]
      /\ UNCHANGED <<session, id, srv, cli, up, pendingC, fwd, asked>>
  BY SendStep DEF linkVars, mapVars, forwardVars
<1>2. s \in Conns /\ down \in [Conns -> Seq(Message)] /\ uploaded \in [Requests -> 0..MaxBody]
  BY <1>0, <1>1, Placed DEF Types, Drawn
(* While r uploads, neither its end nor an announcement without a body is under way. *)
<1>3. \A w \in Conns, k \in Nat : k \in 1..Len(down[w]) /\ pc[r] = "upload" /\ down[w][k].by = r
         => down[w][k].kind \in {"body", "chunk"}
  BY Frames DEF IInv, Order
<1>4. \A q \in Requests : q # r => uploaded'[q] = uploaded[q]
  BY <1>2, SendBody DEF BodySent
<1>5. /\ uploaded'[r] = uploaded[r] \/ (pc[r] = "upload" /\ uploaded'[r] = uploaded[r] + 1)
  BY <1>2, SendBody DEF BodySent
<1>6. Entries'
  <2>1. \A q \in Requests : \A n \in 0..uploaded[q] : n \in 0..uploaded'[q]
    BY <1>0, <1>2, <1>4, <1>5
  <2> QED BY <1>1, <2>1 DEF UInv, Entries
<1>7. BodyWhole'
  <2>1. \A q \in Requests : fwd[q] # "none" => uploaded'[q] = uploaded[q]
    BY <1>4, <1>5 DEF UInv, Uploads
  <2> QED BY <1>1, <2>1 DEF UInv, BodyWhole
<1>8. /\ asked' \in [Requests -> Bodies]
      /\ \A q \in Requests :
            /\ pc'[q] \in {"idle", "draw", "register", "start"} => uploaded'[q] = 0
            /\ fwd'[q] # "none" => pc'[q] \notin {"start", "upload"}
            /\ fwd'[q] = "none" => asked'[q] = <<>>
  <2>1. pc'[r] # "start" /\ (pc'[r] = "upload" => pc[r] \in {"start", "upload"})
    BY SendStep
  <2> QED BY <1>1, <1>4, <2>1 DEF UInv, Uploads
<1>9. ASSUME NEW w \in Conns, NEW f \in Range(down[w])
      PROVE  /\ f.kind \in {"body", "nobody", "chunk", "end", "cancel"}
             /\ f.kind = "chunk" => f.seq < uploaded'[f.by]
             /\ f.kind = "nobody" => uploaded'[f.by] = 0
             /\ fwd[f.by] # "none" => f.kind = "cancel"
  <2>1. f.by \in Requests /\ f \in Message /\ f.seq \in Nat /\ uploaded[f.by] \in Nat
    BY <1>2, Owners, ForwardAssumption DEF Message
  <2>2. f.by = r /\ pc[r] = "upload" => f.kind \in {"body", "chunk"}
    BY DEF IInv, Order
  <2>3. f.kind = "chunk" => f.seq < uploaded[f.by] BY DEF UInv, Uploads
  <2> QED BY <1>0, <1>4, <1>5, <2>1, <2>2, <2>3 DEF UInv, Uploads
<1>10. CASE /\ UNCHANGED down
            /\ pc'[r] = "upload" => cli[s] = "closed"
  <2>1. Uploads' BY <1>1, <1>8, <1>9, <1>10 DEF Uploads
  <2>2. Capacity' BY <1>1, <1>10 DEF UInv, Capacity
  <2>3. ASSUME NEW w \in Conns, NEW k \in 1..Len(down[w])
        PROVE  LET f == down[w][k] IN
               /\ f.kind = "chunk" => Ahead(w, f.by, k - 1, f.seq)
               /\ f.kind = "end" => Ahead(w, f.by, k - 1, uploaded'[f.by])
    <3>1. down[w][k].by \in Requests BY Frames
    <3>2. down[w][k].kind = "end" => uploaded'[down[w][k].by] = uploaded[down[w][k].by]
      BY <1>3, <1>4, <1>5, <3>1, Frames
    <3>3. /\ down[w][k].kind = "chunk" => Ahead(w, down[w][k].by, k - 1, down[w][k].seq)
          /\ down[w][k].kind = "end" => Ahead(w, down[w][k].by, k - 1, uploaded[down[w][k].by])
      BY DEF UInv, Whole
    <3> QED BY <3>1, <3>2, <3>3
  <2>4. \A q \in Requests :
           pc'[q] = "upload" /\ srv'[session'[q]] = "open" /\ cli'[session'[q]] # "closed"
              => Ahead(session[q], q, Len(down[session[q]]), uploaded'[q])
    BY <1>1, <1>4, <1>10 DEF UInv, Whole
  <2>8. Whole'
    BY <1>1, <1>10, <2>3, <2>4 DEF Whole, Ahead, OnWire, Starts, Stored
  <2> QED BY <1>6, <1>7, <2>1, <2>2, <2>8 DEF UInv
<1>11. ASSUME NEW f \in Message, f.by = r, f.id = id[r], BodySent(r, f),
              srv[s] = "open", cli[s] # "closed", Len(down[s]) < WireCap,
              down' = [down EXCEPT ![s] = Append(@, f)]
       PROVE  UInv'
  <2> DEFINE n == Len(down[s])
  <2>1. /\ n \in Nat /\ Len(down'[s]) = n + 1 /\ down'[s][n + 1] = f
        /\ \A k \in 1..n : down'[s][k] = down[s][k]
        /\ Range(down'[s]) = Range(down[s]) \cup {f}
    BY <1>2, <1>11, WireFacts
  <2>2. \A w \in Conns : w # s => down'[w] = down[w] BY <1>2, <1>11
  <2>3. \A w \in Conns : Len(down[w]) \in Nat BY <1>2
  <2>4. n < WireCap BY <1>11
  <2> HIDE DEF n
  <2>5. Uploads'
    <3>1. /\ f.kind \in {"body", "nobody", "chunk", "end", "cancel"}
          /\ f.kind = "chunk" => f.seq < uploaded'[r]
          /\ f.kind = "nobody" => uploaded'[r] = 0
          /\ fwd[r] # "none" => f.kind = "cancel"
      BY <1>0, <1>2, <1>11 DEF BodySent, UInv, Uploads
    <3>2. \A w \in Conns : \A g \in Range(down'[w]) : g \in Range(down[w]) \/ (w = s /\ g = f)
      BY <2>1, <2>2
    <3> QED BY <1>1, <1>8, <1>9, <1>11, <3>1, <3>2 DEF Uploads
  <2>6. Capacity'
    <3>1. Len(down'[s]) <= WireCap BY <2>1, <2>4, ForwardAssumption
    <3> QED BY <1>1, <2>2, <3>1 DEF UInv, Capacity
  <2> DEFINE Began(w, q, k) == \E j \in 1..k : down'[w][j].by = q /\ down'[w][j].kind = "body"
             Wired(w, q, m, k) == \E j \in 1..k : /\ down'[w][j].by = q
                                                  /\ down'[w][j].kind = "chunk"
                                                  /\ down'[w][j].seq = m
             Now(w, q, k, l) ==
                \A m \in 0..l-1 : Wired(w, q, m, k) \/ (~Began(w, q, k) /\ Stored(q, m))
(* What is ahead of a frame stays ahead of it. *)
  <2>7. \A w \in Conns, q \in Requests : \A k \in 0..Len(down[w]) : \A l :
           Ahead(w, q, k, l) => Now(w, q, k, l)
    <3>1. \A w \in Conns : \A k \in 0..Len(down[w]) : \A j \in 1..k : down'[w][j] = down[w][j]
      BY <2>1, <2>2, <2>3 DEF n
    <3>2. \A w \in Conns, q \in Requests : \A k \in 0..Len(down[w]) :
             /\ Began(w, q, k) <=> Starts(w, q, k)
             /\ \A m : Wired(w, q, m, k) <=> OnWire(w, q, m, k)
      BY <3>1 DEF Starts, OnWire
    <3> HIDE DEF Began, Wired
    <3> QED BY <3>2 DEF Ahead
  <2>8. \A w \in Conns : \A k \in 1..Len(down'[w]) :
           k \in 1..Len(down[w]) \/ (w = s /\ k = n + 1)
    BY <2>1, <2>2 DEF n
  <2>9. ASSUME NEW w \in Conns, NEW k \in 1..Len(down[w])
        PROVE  LET g == down'[w][k] IN
               /\ g.kind = "chunk" => Now(w, g.by, k - 1, g.seq)
               /\ g.kind = "end" => Now(w, g.by, k - 1, uploaded'[g.by])
    <3> DEFINE g == down[w][k]
    <3>1. g.by \in Requests /\ k - 1 \in 0..Len(down[w]) /\ k \in Nat BY <2>3, Frames
    <3>2. g.kind = "end" => uploaded'[g.by] = uploaded[g.by]
      BY <1>3, <1>4, <1>5, <3>1
    <3>3. /\ g.kind = "chunk" => Ahead(w, g.by, k - 1, g.seq)
          /\ g.kind = "end" => Ahead(w, g.by, k - 1, uploaded[g.by])
      BY DEF UInv, Whole
    <3>4. down'[w][k] = g BY <2>1, <2>2 DEF n
    <3> HIDE DEF g, Now
    <3> QED BY <2>7, <3>1, <3>2, <3>3, <3>4
  <2>10. pc[r] = "upload" => Ahead(s, r, n, uploaded[r]) BY <1>11 DEF UInv, Whole, n
  <2>11. pc[r] = "upload" => Now(s, r, n, uploaded[r])
    <3> HIDE DEF Now
    <3>1. n \in 0..Len(down[s]) BY <2>1 DEF n
    <3> QED BY <1>2, <2>7, <2>10, <3>1
  <2>12. /\ f.kind = "chunk" => Now(s, r, n, f.seq)
         /\ f.kind = "end" => Now(s, r, n, uploaded'[r])
    <3> HIDE DEF Now
    <3> QED BY <1>11, <2>11 DEF BodySent
  <2>13. ASSUME NEW q \in Requests, pc'[q] = "upload", srv[session[q]] = "open",
                cli[session[q]] # "closed"
         PROVE  Now(session[q], q, Len(down'[session[q]]), uploaded'[q])
    <3>1. CASE q # r /\ session[q] # s
      <4>1. Ahead(session[q], q, Len(down[session[q]]), uploaded[q]) /\ session[q] \in Conns
        BY <1>1, <2>13, <3>1, Placed DEF UInv, Whole, Drawn
      <4>2. down'[session[q]] = down[session[q]] /\ uploaded'[q] = uploaded[q]
        BY <1>4, <2>2, <3>1, <4>1
      <4>3. Len(down[session[q]]) \in 0..Len(down[session[q]]) BY <2>3, <4>1
      <4> HIDE DEF Now
      <4> QED BY <2>7, <4>1, <4>2, <4>3
    <3>2. CASE q # r /\ session[q] = s
      <4>1. Ahead(s, q, n, uploaded[q]) /\ uploaded'[q] = uploaded[q]
        BY <1>1, <1>4, <2>13, <3>2 DEF UInv, Whole, n
      <4>2. Now(s, q, n, uploaded[q])
        <5> HIDE DEF Now
        <5>1. n \in 0..Len(down[s]) BY <2>1 DEF n
        <5> QED BY <1>2, <2>7, <4>1, <5>1
      <4>3. Began(s, q, n + 1) => Began(s, q, n) BY <1>11, <2>1, <3>2
      <4>4. \A m : Wired(s, q, m, n) => Wired(s, q, m, n + 1) BY <2>1
      <4> HIDE DEF Began, Wired
      <4> QED BY <2>1, <3>2, <4>1, <4>2, <4>3, <4>4
    <3>3. CASE q = r /\ f.kind = "body"
      <4>1. uploaded'[r] = 0 BY <1>11, <3>3 DEF BodySent, UInv, Uploads
      <4> QED BY <3>3, <4>1
    <3>4. CASE q = r /\ f.kind = "chunk"
      <4>1. pc[r] = "upload" /\ f.seq = uploaded[r] /\ uploaded'[r] = uploaded[r] + 1
        BY <1>2, <1>11, <3>4 DEF BodySent
      <4>2. Now(s, r, n, uploaded[r]) BY <2>11, <4>1
      <4>3. Began(s, r, n + 1) => Began(s, r, n) BY <2>1, <3>4
      <4>4. \A m : Wired(s, r, m, n) => Wired(s, r, m, n + 1) BY <2>1
      <4>5. Wired(s, r, uploaded[r], n + 1) BY <1>11, <2>1, <3>4, <4>1
      <4> HIDE DEF Began, Wired
      <4>6. \A m \in 0..uploaded'[r]-1 : m \in 0..uploaded[r]-1 \/ m = uploaded[r]
        BY <1>0, <4>1
      <4> QED BY <2>1, <3>4, <4>2, <4>3, <4>4, <4>5, <4>6
    <3> QED BY <1>11, <2>13, <3>1, <3>2, <3>3, <3>4 DEF BodySent
  <2>14. Whole'
    <3>1. ASSUME NEW w \in Conns, NEW k \in 1..Len(down'[w])
          PROVE  LET g == down'[w][k] IN
                 /\ g.kind = "chunk" => Now(w, g.by, k - 1, g.seq)
                 /\ g.kind = "end" => Now(w, g.by, k - 1, uploaded'[g.by])
      <4> HIDE DEF Now
      <4>1. CASE k \in 1..Len(down[w]) BY <2>9, <4>1
      <4>2. CASE w = s /\ k = n + 1
        <5>1. k - 1 = n /\ down'[w][k] = f BY <2>1, <4>2
        <5> QED BY <1>11, <2>12, <4>2, <5>1
      <4> QED BY <2>8, <4>1, <4>2
    <3> QED BY <1>1, <2>13, <3>1 DEF Whole, Ahead, OnWire, Starts, Stored
  <2> QED BY <1>6, <1>7, <2>5, <2>6, <2>14 DEF UInv
<1> QED BY <1>10, <1>11, SendBody

(* What the client's reader does to the body of the request whose frame it reads. *)
ReadEffect(h) ==
    \/ /\ h.kind = "body" /\ UNCHANGED <<fwd, asked>>
       /\ pendingC' = [pendingC EXCEPT ![h.id] = [req |-> h.by, chunks |-> <<>>]]
    \/ /\ h.kind = "chunk" /\ UNCHANGED <<fwd, asked>> /\ pendingC[h.id].req = h.by
       /\ pendingC' = [pendingC EXCEPT ![h.id] =
                          [req |-> h.by, chunks |-> Put(pendingC[h.id].chunks, h.seq, h.by)]]
    \/ /\ h.kind = "end" /\ pendingC[h.id].req = h.by
       /\ Dispatch(h.by, h.id, pendingC[h.id].chunks)
    \/ h.kind = "nobody" /\ Dispatch(h.by, h.id, <<>>)
    \/ /\ h.kind = "cancel" /\ UNCHANGED <<fwd, asked>>
       /\ pendingC' = [pendingC EXCEPT ![h.id] = NoEntry]

LEMMA ReadBody ==
  ASSUME IInv, UInv, ClientReads
  PROVE  LET w == down[conn]  h == w[1] IN
         /\ conn \in Conns /\ Len(w) \in Nat /\ 1 \in 1..Len(w)
         /\ Len(down'[conn]) = Len(w) - 1
         /\ \A k \in 1..Len(w) - 1 : down'[conn][k] = w[k + 1]
         /\ \A f \in Range(down'[conn]) : \E k \in 1..Len(w) - 1 : f = w[k + 1]
         /\ \A s \in Conns : s # conn => down'[s] = down[s]
         /\ UNCHANGED <<handlerVars, serverVars, up, linkVars, produced>>
         /\ ReadEffect(h)
<1> DEFINE w == down[conn]
           h == w[1]
<1>0. Types BY DEF IInv
<1>1. /\ conn \in Conns /\ w # <<>> /\ Head(w) = h
      /\ down' = [down EXCEPT ![conn] = Tail(@)]
      /\ UNCHANGED <<handlerVars, serverVars, up, linkVars, produced>>
  BY ClientReadStep
<1>2. w \in Seq(Message) /\ down \in [Conns -> Seq(Message)] BY <1>0, <1>1 DEF Types
<1>3. /\ Len(w) \in Nat /\ 1 \in 1..Len(w) /\ Len(down'[conn]) = Len(w) - 1
      /\ \A k \in 1..Len(w) - 1 : down'[conn][k] = w[k + 1]
      /\ \A f \in Range(down'[conn]) : \E k \in 1..Len(w) - 1 : f = w[k + 1]
      /\ \A s \in Conns : s # conn => down'[s] = down[s]
  <2>1. down'[conn] = Tail(w) BY <1>1, <1>2
  <2>2. Tail(w) \in Seq(Message) BY <1>1, <1>2, WireFacts
  <2>3. \A f \in Range(Tail(w)) : \E k \in 1..Len(Tail(w)) : Tail(w)[k] = f
    BY <2>2, WireFacts
  <2> QED BY <1>1, <1>2, <2>1, <2>3, WireFacts
<1>4. h.id \in Ids /\ h.by \in Requests /\ h.by # NoReq /\ h.seq \in Nat
  BY <1>1, <1>3, Frames DEF Requests, NoReq
<1>5. pendingC[h.id].req \in Requests \cup {NoReq}
      /\ pendingC[h.id] = [req |-> pendingC[h.id].req, chunks |-> pendingC[h.id].chunks]
      /\ pendingC \in [Ids -> [req : Requests \cup {NoReq}, chunks : Bodies]]
  BY <1>4 DEF UInv, Entries
<1>6. h.kind \in {"chunk", "end"} => pendingC[h.id].req = h.by
  <2>1. h.kind \in {"chunk", "end"} =>
          Starts(conn, h.by, 1 - 1) \/ pendingC[h.id].req = h.by
    BY <1>1, <1>3 DEF IInv, Opened
  <2> QED BY <2>1 DEF Starts
<1>7. \/ handleRequestStart(h) \/ handleRequestChunk(h) \/ handleRequestEnd(h)
      \/ handleCancel(h)
  BY <1>1 DEF ClientReads
<1>8. ReadEffect(h)
  <2> HIDE DEF h
  <2>1. CASE handleRequestStart(h)
    BY <1>4, <1>5, <2>1 DEF handleRequestStart, ReadEffect
  <2>2. CASE handleRequestChunk(h)
    <3> DEFINE p == pendingC[h.id]
               c == Put(p.chunks, h.seq, h.by)
    <3>1. h.kind = "chunk" /\ UNCHANGED <<fwd, asked>> /\ p.req = h.by
      BY <1>6, <2>2 DEF handleRequestChunk
    <3>2. pendingC' = [pendingC EXCEPT ![h.id] = [p EXCEPT !.chunks = c]]
      BY <1>4, <1>6, <2>2 DEF handleRequestChunk
    <3> HIDE DEF p, c
    <3>3. [p EXCEPT !.chunks = c] = [req |-> h.by, chunks |-> c] BY <1>5, <3>1 DEF p
    <3> QED BY <3>1, <3>2, <3>3 DEF ReadEffect, p, c
  <2>3. CASE handleRequestEnd(h)
    BY <1>4, <1>5, <1>6, <2>3 DEF handleRequestEnd, ReadEffect
  <2>4. CASE handleCancel(h) BY <1>4, <1>5, <2>4 DEF handleCancel, ReadEffect
  <2> QED BY <1>7, <2>1, <2>2, <2>3, <2>4
<1> QED BY <1>1, <1>3, <1>8

(* What is in the entry of the request when a chunk of it, or its end, is read. *)
LEMMA BodySoFar ==
  ASSUME IInv, UInv, NEW s \in Conns, Len(down[s]) >= 1, NEW h, h = down[s][1],
         h.kind \in {"chunk", "end"}, pendingC[h.id].req = h.by
  PROVE  \E n \in 0..uploaded[h.by] :
            /\ pendingC[h.id].chunks = Body(h.by, n)
            /\ h.kind = "chunk" => h.seq <= n
            /\ h.kind = "end" => n = uploaded[h.by]
<1>1. 1 \in 1..Len(down[s]) /\ Len(down[s]) \in Nat
  <2>1. down[s] \in Seq(Message) BY DEF IInv, Types
  <2> QED BY <2>1
<1>2. /\ h.by \in Requests /\ h.by # NoReq /\ h.id \in Ids /\ id[h.by] = h.id /\ h.seq \in Nat
      /\ h \in Range(down[s])
  BY <1>1, Frames DEF Requests, NoReq
<1>3. uploaded[h.by] \in Nat BY <1>2, ForwardAssumption DEF IInv, Types
<1>4. PICK n \in 0..uploaded[h.by] : pendingC[h.id].chunks = Body(h.by, n)
  BY <1>2 DEF UInv, Entries, NoEntry
<1>5. DOMAIN Body(h.by, n) = 0..n-1 BY DEF Body
<1>6. ASSUME NEW l \in Nat, Ahead(s, h.by, 1 - 1, l)
      PROVE  l <= n
  <2>1. \A m : ~OnWire(s, h.by, m, 1 - 1) BY DEF OnWire
  <2>2. \A m \in 0..l-1 : m \in 0..n-1 BY <1>2, <1>4, <1>5, <1>6, <2>1 DEF Ahead, Stored
  <2> QED BY <1>3, <2>2
<1>7. h.kind = "chunk" => h.seq <= n BY <1>1, <1>2, <1>6 DEF UInv, Whole
<1>8. h.kind = "end" => n = uploaded[h.by] BY <1>1, <1>3, <1>6 DEF UInv, Whole
<1> QED BY <1>4, <1>7, <1>8

LEMMA ReadingBodies ==
  ASSUME IInv, UInv, ClientReads
  PROVE  UInv'
<1> DEFINE w == down[conn]
           n == Len(w)
           h == w[1]
           b == h.by
           v == down'[conn]
<1>1. /\ conn \in Conns /\ n \in Nat /\ 1 \in 1..n /\ Len(v) = n - 1
      /\ \A k \in 1..n - 1 : v[k] = w[k + 1]
      /\ \A f \in Range(v) : \E k \in 1..n - 1 : f = w[k + 1]
      /\ \A s \in Conns : s # conn => down'[s] = down[s]
      /\ UNCHANGED <<pc, session, id, uploaded, srv, cli, up, conn>>
      /\ ReadEffect(h)
  BY ReadBody DEF handlerVars, serverVars, linkVars
<1>2. /\ b \in Requests /\ b # NoReq /\ h.id \in Ids /\ id[b] = h.id /\ session[b] = conn
      /\ h.seq \in Nat /\ h \in Range(w) /\ pc[b] \in Begun /\ Trace(b)
  BY <1>1, Frames DEF Requests, NoReq
<1>3. h.kind \in {"body", "nobody", "chunk", "end", "cancel"} /\ uploaded[b] \in 0..MaxBody
  BY <1>1, <1>2 DEF UInv, Uploads, IInv, Types
(* Whose frames can follow this one. *)
<1>4. ASSUME NEW k \in 1..n - 1, w[k + 1].by = b
      PROVE  /\ w[k + 1].kind \notin {"body", "nobody"} /\ h.kind # "cancel"
             /\ h.kind \in {"end", "nobody"} => w[k + 1].kind = "cancel"
  <2>1. 1 \in 1..n /\ k + 1 \in 1..n /\ 1 < k + 1 BY <1>1
  <2> QED BY <1>1, <1>4, <2>1 DEF IInv, Order
<1>5. h.kind \in {"end", "nobody"} => pc[b] \notin {"start", "upload"}
  BY <1>1, <1>2 DEF IInv, Order
<1>6. \A k \in 1..n - 1 : /\ k + 1 \in 1..n /\ w[k + 1] \in Range(w)
                          /\ w[k + 1].by \in Requests /\ w[k + 1].id \in Ids
                          /\ pc[w[k + 1].by] \in Begun /\ session[w[k + 1].by] = conn
                          /\ id[w[k + 1].by] = w[k + 1].id /\ Trace(w[k + 1].by)
  BY <1>1, Frames
<1>7. /\ pendingC \in [Ids -> [req : Requests \cup {NoReq}, chunks : Bodies]]
      /\ asked \in [Requests -> Bodies] /\ fwd \in [Requests -> FwdStates]
      /\ <<>> \in Bodies /\ NoEntry \in [req : Requests \cup {NoReq}, chunks : Bodies]
  <2>1. <<>> \in Bodies
    <3>1. 0 \in 0..MaxBody BY ForwardAssumption
    <3> QED BY <1>2, <3>1, BodyTyped, NoBody
  <2> QED BY <2>1 DEF UInv, Entries, Uploads, IInv, Types, NoEntry
<1>8. h.kind \in {"chunk", "end"} =>
         /\ pendingC[h.id].req = b
         /\ \E l \in 0..uploaded[b] : /\ pendingC[h.id].chunks = Body(b, l)
                                      /\ h.kind = "chunk" => h.seq <= l
                                      /\ h.kind = "end" => l = uploaded[b]
  <2>1. h.kind \in {"chunk", "end"} => pendingC[h.id].req = b BY <1>1 DEF ReadEffect
  <2> QED BY <1>1, <2>1, BodySoFar
<1> HIDE DEF v, b, h, n, w
<1>9. Entries'
  <2>1. CASE h.kind = "body"
    <3>1. pendingC' = [pendingC EXCEPT ![h.id] = [req |-> b, chunks |-> <<>>]]
      BY <1>1, <2>1 DEF ReadEffect, b
    <3>2. 0 \in 0..uploaded[b] /\ Body(b, 0) = <<>> BY <1>3, NoBody
    <3> QED BY <1>1, <1>2, <1>7, <3>1, <3>2 DEF UInv, Entries
  <2>2. CASE h.kind = "chunk"
    <3>1. PICK l \in 0..uploaded[b] : pendingC[h.id].chunks = Body(b, l) /\ h.seq <= l
      BY <1>8, <2>2
    <3> DEFINE c == Put(pendingC[h.id].chunks, h.seq, b)
               m == IF h.seq = l THEN l + 1 ELSE l
    <3>2. pendingC' = [pendingC EXCEPT ![h.id] = [req |-> b, chunks |-> c]]
      BY <1>1, <2>2 DEF ReadEffect, b
    <3>3. h.seq < uploaded[b] BY <1>1, <1>2, <2>2 DEF UInv, Uploads, b, w
    <3>4. l \in Nat /\ m \in 0..uploaded[b] BY <1>2, <1>3, <3>1, <3>3
    <3>5. c = Body(b, m) BY <1>2, <3>1, <3>4, NextChunk
    <3>6. m \in 0..MaxBody BY <1>3, <3>4, ForwardAssumption
    <3> HIDE DEF c, m
    <3>7. c \in Bodies BY <1>2, <3>5, <3>6, BodyTyped
    <3> QED BY <1>1, <1>2, <1>7, <3>2, <3>4, <3>5, <3>7 DEF UInv, Entries
  <2>3. CASE h.kind \in {"end", "nobody", "cancel"}
    <3>1. pendingC' = [pendingC EXCEPT ![h.id] = NoEntry]
      BY <1>1, <2>3 DEF ReadEffect, Dispatch
    <3> QED BY <1>1, <1>2, <1>7, <3>1 DEF UInv, Entries
  <2> QED BY <1>3, <2>1, <2>2, <2>3
(* What the forward that begins, if one does, is to ask with. *)
<1>10. \/ UNCHANGED <<fwd, asked>>
       \/ /\ h.kind \in {"end", "nobody"} /\ fwd' = [fwd EXCEPT ![b] = "waiting"]
          /\ asked' = [asked EXCEPT ![b] = Body(b, uploaded[b])]
  <2>1. CASE h.kind = "end" BY <1>1, <1>8, <2>1 DEF ReadEffect, Dispatch, b
  <2>2. CASE h.kind = "nobody"
    <3>1. uploaded[b] = 0 BY <1>1, <1>2, <2>2 DEF UInv, Uploads, b, w
    <3> QED BY <1>1, <2>2, <3>1, NoBody DEF ReadEffect, Dispatch, b
  <2> QED BY <1>1, <2>1, <2>2 DEF ReadEffect
<1>11. BodyWhole'
  <2>1. ASSUME NEW q \in Requests, fwd'[q] # "none"
        PROVE  asked'[q] = Body(q, uploaded[q])
    <3>1. fwd[q] # "none" => asked[q] = Body(q, uploaded[q]) BY DEF UInv, BodyWhole, Body
    <3> QED BY <1>7, <1>10, <2>1, <3>1
  <2> QED BY <1>1, <2>1 DEF BodyWhole, Body
<1>12. Uploads'
  <2>1. asked' \in [Requests -> Bodies] BY <1>2, <1>3, <1>7, <1>10, BodyTyped
  <2>2. \A q \in Requests : q # b => fwd'[q] = fwd[q] /\ asked'[q] = asked[q]
    BY <1>7, <1>10
  <2>3. fwd'[b] # "none" => h.kind \in {"end", "nobody"} \/ fwd[b] # "none"
    BY <1>10
  <2>4. fwd'[b] = "none" => fwd[b] = "none" /\ asked'[b] = asked[b]
    BY <1>2, <1>7, <1>10
  <2>5. ASSUME NEW f \in Range(v)
        PROVE  /\ f.kind \in {"body", "nobody", "chunk", "end", "cancel"}
               /\ f.kind = "chunk" => f.seq < uploaded[f.by]
               /\ f.kind = "nobody" => uploaded[f.by] = 0
               /\ fwd'[f.by] # "none" => f.kind = "cancel"
    <3>1. PICK k \in 1..n - 1 : f = w[k + 1] BY <1>1
    <3>2. f \in Range(w) /\ f.by \in Requests BY <1>6, <3>1
    <3>3. f.by = b /\ h.kind \in {"end", "nobody"} => f.kind = "cancel" BY <1>4, <3>1
    <3> QED BY <1>1, <2>2, <2>3, <3>2, <3>3 DEF UInv, Uploads, w
  <2>6. ASSUME NEW s \in Conns, s # conn, NEW f \in Range(down'[s]) PROVE FALSE
    BY <1>1, <2>6, OnlyCurrent, NothingSent
  <2>7. \A q \in Requests : /\ pc'[q] \in {"idle", "draw", "register", "start"} => uploaded'[q] = 0
                            /\ fwd'[q] # "none" => pc'[q] \notin {"start", "upload"}
                            /\ fwd'[q] = "none" => asked'[q] = <<>>
    BY <1>1, <1>2, <1>5, <2>2, <2>3, <2>4 DEF UInv, Uploads
  <2> QED BY <1>1, <2>1, <2>5, <2>6, <2>7 DEF Uploads, v
<1>13. Capacity'
  <2>1. Len(v) <= WireCap BY <1>1, ForwardAssumption DEF UInv, Capacity, n, w
  <2> QED BY <1>1, <2>1 DEF UInv, Capacity, v
<1> DEFINE Began(q, k) == \E j \in 1..k : v[j].by = q /\ v[j].kind = "body"
           Wired(q, m, k) == \E j \in 1..k : v[j].by = q /\ v[j].kind = "chunk" /\ v[j].seq = m
           Kept(q, m) == pendingC'[id[q]].req = q /\ m \in DOMAIN pendingC'[id[q]].chunks
           Now(q, k, l) == \A m \in 0..l-1 : Wired(q, m, k) \/ (~Began(q, k) /\ Kept(q, m))
(* What was ahead of a frame of another request, or of an open body, still is. *)
<1>14. ASSUME NEW q \in Requests, NEW k \in 1..n, NEW l, Ahead(conn, q, k, l), id[q] \in Ids,
              id[q] = h.id => q = b, q = b => h.kind \in {"body", "chunk"}
       PROVE  Now(q, k - 1, l)
  <2> SUFFICES ASSUME NEW m \in 0..l-1, ~Wired(q, m, k - 1)
               PROVE  ~Began(q, k - 1) /\ Kept(q, m)
    OBVIOUS
  <2>1. \A j \in 1..k : j = 1 \/ (j - 1 \in 1..k - 1 /\ v[j - 1] = w[j])
    BY <1>1
  <2>2. \A j \in 1..k - 1 : j \in 1..n - 1 /\ j + 1 \in 1..k /\ v[j] = w[j + 1]
    BY <1>1
  <2>3. CASE OnWire(conn, q, m, k)
    <3>1. PICK j \in 1..k : w[j].by = q /\ w[j].kind = "chunk" /\ w[j].seq = m
      BY <2>3 DEF OnWire, w
    <3>2. j = 1 BY <2>1, <3>1
    <3>3. q = b /\ h.kind = "chunk" /\ h.seq = m BY <3>1, <3>2 DEF h, b
    <3>4. ~Began(q, k - 1) BY <1>4, <2>2, <3>3
    <3>5. pendingC'[h.id].req = b /\ h.seq \in DOMAIN pendingC'[h.id].chunks
      BY <1>1, <1>2, <1>7, <3>3 DEF ReadEffect, Put, b
    <3> QED BY <1>2, <3>3, <3>4, <3>5
  <2>4. CASE ~Starts(conn, q, k) /\ Stored(q, m)
    <3>1. \A j \in 1..k : ~(w[j].by = q /\ w[j].kind = "body") BY <2>4 DEF Starts, w
    <3>2. ~Began(q, k - 1) BY <2>2, <3>1
    <3>3. CASE id[q] = h.id
      <4>1. q = b /\ h.kind = "chunk"
        <5>1. q = b /\ 1 \in 1..k BY <1>14, <3>3
        <5> QED BY <1>14, <3>1, <5>1 DEF h, b
      <4>2. m \in DOMAIN pendingC[h.id].chunks BY <2>4, <3>3 DEF Stored
      <4>3. pendingC'[h.id].req = b /\ m \in DOMAIN pendingC'[h.id].chunks
        BY <1>1, <1>2, <1>7, <4>1, <4>2 DEF ReadEffect, Put, b
      <4> QED BY <3>2, <3>3, <4>1, <4>3
    <3>4. CASE id[q] # h.id
      <4>1. pendingC'[id[q]] = pendingC[id[q]]
        BY <1>1, <1>7, <1>14, <3>4 DEF ReadEffect, Dispatch
      <4> QED BY <2>4, <3>2, <4>1 DEF Stored
    <3> QED BY <3>3, <3>4
  <2> QED BY <1>14, <2>3, <2>4 DEF Ahead
<1>15. ASSUME NEW k \in 1..Len(v)
       PROVE  /\ v[k].kind = "chunk" => Now(v[k].by, k - 1, v[k].seq)
              /\ v[k].kind = "end" => Now(v[k].by, k - 1, uploaded[v[k].by])
  <2> DEFINE f == w[k + 1]
  <2>1. k \in 1..n /\ k \in 1..n - 1 /\ k + 1 \in 1..n /\ v[k] = f /\ (k + 1) - 1 = k BY <1>1
  <2>2. /\ f.kind = "chunk" => Ahead(conn, f.by, k, f.seq)
        /\ f.kind = "end" => Ahead(conn, f.by, k, uploaded[f.by])
    BY <1>1, <2>1 DEF UInv, Whole, n, w
  <2>3. id[f.by] = h.id => f.by = b
    BY <1>2, <1>6, <2>1 DEF IInv, Apart, Same, Drawn
  <2>4. f.by = b /\ f.kind \in {"chunk", "end"} => h.kind \in {"body", "chunk"}
    BY <1>3, <1>4, <2>1
  <2>5. f.by \in Requests /\ id[f.by] \in Ids BY <1>6, <2>1
  <2> HIDE DEF f, Now
  <2> QED BY <1>14, <2>1, <2>2, <2>3, <2>4, <2>5
<1>16. ASSUME NEW q \in Requests, pc[q] = "upload", srv[session[q]] = "open", cli[session[q]] # "closed"
       PROVE  session[q] = conn /\ Now(q, n - 1, uploaded[q])
  <2>1. pc[q] \in Drawn /\ pc[q] # "done" BY <1>16 DEF Drawn, Begun, InFlight
  <2>2. session[q] = conn
    <3>1. session[q] \in Conns /\ session[q] \in 1..conn BY <2>1, Placed
    <3>2. ~(session[q] < conn) BY <1>16, <3>1 DEF IInv, Links
    <3> QED BY <1>1, <3>1, <3>2 DEF Conns
  <2>3. Ahead(conn, q, n, uploaded[q]) /\ n \in 1..n BY <1>1, <1>16, <2>2 DEF UInv, Whole, n, w
  <2>4. id[q] = h.id => q = b
    BY <1>2, <1>16, <2>1, <2>2 DEF IInv, Alone, Same, Drawn
  <2>5. q = b => h.kind \in {"body", "chunk"} BY <1>1, <1>2, <1>16 DEF IInv, Order, w, b
  <2>6. id[q] \in Ids BY DEF IInv, Types
  <2> HIDE DEF Now
  <2> QED BY <1>14, <2>2, <2>3, <2>4, <2>5, <2>6
<1>17. Whole'
  <2>1. ASSUME NEW s \in Conns, s # conn PROVE Len(down'[s]) = 0
    BY <1>1, <2>1, OnlyCurrent
  <2>2. ASSUME NEW s \in Conns, NEW k \in 1..Len(down'[s]) PROVE s = conn
    BY <2>1, <2>2
  <2>3. \A q \in Requests : LET s == session'[q] IN
           pc'[q] = "upload" /\ srv'[s] = "open" /\ cli'[s] # "closed"
              => s = conn /\ Now(q, Len(v), uploaded'[q])
    <3> HIDE DEF Now
    <3> QED BY <1>1, <1>16
  <2>4. \A s \in Conns : \A k \in 1..Len(down'[s]) : LET f == down'[s][k] IN
           /\ f.kind = "chunk" => s = conn /\ Now(f.by, k - 1, f.seq)
           /\ f.kind = "end" => s = conn /\ Now(f.by, k - 1, uploaded'[f.by])
    <3> HIDE DEF Now
    <3> QED BY <1>1, <1>15, <2>2 DEF v
  <2> DEFINE At(s, q, k, l) ==
        \A m \in 0..l-1 :
           \/ \E j \in 1..k : /\ down'[s][j].by = q /\ down'[s][j].kind = "chunk"
                              /\ down'[s][j].seq = m
           \/ /\ ~\E j \in 1..k : down'[s][j].by = q /\ down'[s][j].kind = "body"
              /\ pendingC'[id'[q]].req = q /\ m \in DOMAIN pendingC'[id'[q]].chunks
  <2>5. \A s, q, k, l : s = conn /\ Now(q, k, l) => At(s, q, k, l) BY <1>1 DEF v
  <2>6. \A q \in Requests : LET s == session'[q] IN
           pc'[q] = "upload" /\ srv'[s] = "open" /\ cli'[s] # "closed"
              => At(s, q, Len(down'[s]), uploaded'[q])
    <3> HIDE DEF Now, At
    <3> QED BY <2>3, <2>5 DEF v
  <2>7. \A s \in Conns : \A k \in 1..Len(down'[s]) : LET f == down'[s][k] IN
           /\ f.kind = "chunk" => At(s, f.by, k - 1, f.seq)
           /\ f.kind = "end" => At(s, f.by, k - 1, uploaded'[f.by])
    <3> HIDE DEF Now, At
    <3> QED BY <2>4, <2>5
  <2> QED BY <2>6, <2>7 DEF Whole, Ahead, OnWire, Starts, Stored
<1> QED BY <1>9, <1>11, <1>12, <1>13, <1>17 DEF UInv

(* What a forward sends finds room on its connection, or is not sent. *)
LEMMA AnswerRoom ==
  ASSUME IInv, Capacity, NEW r \in Requests, Answering(r)
  PROVE  \A s \in Conns : Len(up'[s]) <= WireCap
<1>1. \E f : Written(f) \/ Refused
  BY DEF Answering, AnswerStarts, AnswerFails, StreamChunk, StreamEnds, StreamFails
<1>2. UNCHANGED up \/ Len(up[conn]) < WireCap BY <1>1 DEF Written, Refused
<1>3. SentUp(r) BY AnswerStep
<1>4. CASE UNCHANGED up BY <1>4 DEF Capacity
<1>5. ASSUME NEW f \in Message, up' = [up EXCEPT ![conn] = Append(@, f)], Len(up[conn]) < WireCap
      PROVE  \A s \in Conns : Len(up'[s]) <= WireCap
  <2>1. up \in [Conns -> Seq(Message)] BY DEF IInv, Types
  <2>2. ASSUME NEW s \in Conns PROVE Len(up'[s]) <= WireCap
    <3>1. CASE s = conn
      <4>1. up'[s] = Append(up[s], f) /\ Len(up[s]) < WireCap BY <1>5, <2>1, <3>1
      <4>2. Len(up'[s]) = Len(up[s]) + 1 /\ Len(up[s]) \in Nat BY <2>1, <4>1, WireFacts
      <4> QED BY <4>1, <4>2, ForwardAssumption
    <3>2. CASE s # conn BY <1>5, <2>1, <3>2 DEF Capacity
    <3> QED BY <3>1, <3>2
  <2> QED BY <2>2
<1> QED BY <1>2, <1>3, <1>4, <1>5 DEF SentUp

LEMMA HandlingBodies ==
  ASSUME IInv, UInv, NEW r \in Requests, Handler(r)
  PROVE  UInv'
<1> USE DEF Begun, InFlight, Goto, linkVars, serverVars, mapVars, forwardVars
<1>0. pc \in [Requests -> PCs] /\ session \in [Requests -> 0..MaxConn] /\ id \in [Requests -> Ids]
  BY DEF IInv, Types
<1>1. CASE Arrive(r)
  <2>1. /\ pc[r] = "idle" /\ pc' = [pc EXCEPT ![r] = "draw"]
        /\ UNCHANGED <<id, uploaded, asked, down, pendingC, fwd, srv, cli, up>>
        /\ session' = [session EXCEPT ![r] = online]
    BY <1>1 DEF Arrive
  <2>2. \A q \in Requests : q # r => pc'[q] = pc[q] /\ session'[q] = session[q] BY <1>0, <2>1
  <2>3. pc'[r] = "draw" BY <1>0, <2>1
  <2> QED BY <2>1, <2>2, <2>3, BodiesKept DEF UInv, Capacity
<1>2. CASE NextReqID(r)
  <2>1. /\ pc[r] = "draw" /\ pc' = [pc EXCEPT ![r] = "register"]
        /\ UNCHANGED <<session, uploaded, asked, down, pendingC, fwd, srv, cli, up>>
        /\ \E i \in Ids : id' = [id EXCEPT ![r] = i]
    BY <1>2 DEF NextReqID
  <2>2. \A q \in Requests : q # r => pc'[q] = pc[q] /\ id'[q] = id[q] BY <1>0, <2>1
  <2>3. pc'[r] = "register" BY <1>0, <2>1
  <2> QED BY <2>1, <2>2, <2>3, BodiesKept DEF UInv, Capacity
<1>3. CASE RegisterPending(r)
  <2>1. /\ pc[r] = "register" /\ pc' = [pc EXCEPT ![r] = "start"]
        /\ UNCHANGED <<session, id, uploaded, asked, down, pendingC, fwd, srv, cli, up>>
    BY <1>3 DEF RegisterPending
  <2>2. \A q \in Requests : q # r => pc'[q] = pc[q] BY <1>0, <2>1
  <2>3. pc'[r] = "start" BY <1>0, <2>1
  <2> QED BY <2>1, <2>2, <2>3, BodiesKept DEF UInv, Capacity
<1>4. CASE Sending(r) BY <1>4, SendingBodies
<1> QED BY <1>1, <1>2, <1>3, <1>4 DEF Handler, Sending

LEMMA ForwardingBodies ==
  ASSUME IInv, UInv, NEW r \in Requests, Forward(r)
  PROVE  UInv'
<1> USE DEF linkVars, serverVars, handlerVars, mapVars
<1>0. fwd \in [Requests -> FwdStates] /\ cli \in [Conns -> {"none", "open", "broken", "closed"}]
  BY DEF IInv, Types
<1>1. CASE TakeSlot(r) \/ RegisterCancel(r) \/ Leave(r)
  <2>1. /\ UNCHANGED <<pc, session, id, uploaded, asked, down, pendingC, srv, cli, up>>
        /\ fwd[r] # "none"
        /\ \E l \in {"slot", "asking", "finished"} : fwd' = [fwd EXCEPT ![r] = l]
    BY <1>1 DEF TakeSlot, RegisterCancel, Leave, GotoF
  <2>2. \A q \in Requests : fwd'[q] = "none" <=> fwd[q] = "none" BY <1>0, <2>1
  <2> QED BY <2>1, <2>2, BodiesKept DEF UInv, Capacity
<1>2. CASE Answering(r)
  <2>1. /\ UNCHANGED <<pc, session, id, uploaded, asked, down, pendingC, srv>>
        /\ \A q \in Requests : fwd'[q] = "none" <=> fwd[q] = "none"
        /\ UNCHANGED cli \/ (cli[conn] = "open" /\ cli' = [cli EXCEPT ![conn] = "broken"])
    BY <1>2, AnswerStep
  <2>2. \A q \in Requests : pc[q] = "upload" => session[q] \in Conns
    BY Placed DEF Drawn, Begun, InFlight
  <2>3. \A q \in Requests :
           pc'[q] = "upload" /\ srv'[session'[q]] = "open" /\ cli'[session'[q]] # "closed"
              => pc[q] = "upload" /\ srv[session[q]] = "open" /\ cli[session[q]] # "closed"
    BY <1>0, <2>1, <2>2
  <2>4. \A s \in Conns : Len(up'[s]) <= WireCap BY <1>2, AnswerRoom DEF UInv
  <2> QED BY <2>1, <2>3, <2>4, BodiesKept
<1> QED BY <1>1, <1>2 DEF Forward, Answering

LEMMA ServingBodies ==
  ASSUME IInv, UInv, NEW s \in Conns, ServerReads(s) \/ ServerCloses(s)
  PROVE  UInv'
<1> USE DEF linkVars, serverVars, handlerVars, mapVars, forwardVars
<1>0. up \in [Conns -> Seq(Message)] /\ srv \in [Conns -> {"none", "open", "closed"}]
  BY DEF IInv, Types
<1>1. CASE ServerReads(s)
  <2>1. /\ UNCHANGED <<session, id, uploaded, asked, down, pendingC, fwd, srv, cli>>
        /\ up' = [up EXCEPT ![s] = Tail(@)] /\ up[s] # <<>>
        /\ \A q \in Requests : \/ pc'[q] = pc[q]
                               \/ pc[q] \in {"wait", "stream"} /\ pc'[q] \in {"stream", "done"}
    <3>1. up[s] # <<>> BY <1>1 DEF ServerReads
    <3> QED BY <1>1, <3>1, ReadStep
  <2>2. \A w \in Conns : Len(up'[w]) <= WireCap
    <3>1. Len(Tail(up[s])) = Len(up[s]) - 1 /\ Len(up[s]) \in Nat BY <1>0, <2>1, WireFacts
    <3>2. Len(up'[s]) <= WireCap
      <4>1. up'[s] = Tail(up[s]) /\ Len(up[s]) <= WireCap /\ WireCap \in Nat
        BY <1>0, <2>1, ForwardAssumption DEF UInv, Capacity
      <4> QED BY <3>1, <4>1
    <3>3. \A w \in Conns : w # s => up'[w] = up[w] BY <1>0, <2>1
    <3> QED BY <3>2, <3>3 DEF UInv, Capacity
  <2> QED BY <2>1, <2>2, BodiesKept
<1>2. CASE ServerCloses(s)
  <2>1. /\ UNCHANGED <<pc, session, id, uploaded, asked, down, pendingC, fwd, cli>>
        /\ up' = [up EXCEPT ![s] = <<>>] /\ srv' = [srv EXCEPT ![s] = "closed"]
    BY <1>2 DEF ServerCloses
  <2>2. \A w \in Conns : Len(up'[w]) <= WireCap
    <3>1. \A w \in Conns : up'[w] = <<>> \/ up'[w] = up[w] BY <1>0, <2>1
    <3>2. Len(<<>>) = 0 /\ WireCap \in Nat BY ForwardAssumption
    <3> QED BY <3>1, <3>2 DEF UInv, Capacity
  <2>3. \A q \in Requests : pc[q] = "upload" => session[q] \in Conns
    BY Placed DEF Drawn, Begun, InFlight
  <2>4. \A w \in Conns : srv'[w] = "open" => srv[w] = "open" BY <1>0, <2>1
  <2> QED BY <2>1, <2>2, <2>3, <2>4, BodiesKept
<1> QED BY <1>1, <1>2

LEMMA LinkingBodies ==
  ASSUME IInv, UInv, ClientCloses \/ Redial
  PROVE  UInv'
<1> USE DEF linkVars, serverVars, handlerVars, mapVars, forwardVars
<1>0. /\ down \in [Conns -> Seq(Message)] /\ srv \in [Conns -> {"none", "open", "closed"}]
      /\ cli \in [Conns -> {"none", "open", "broken", "closed"}] /\ conn \in 0..MaxConn
  BY DEF IInv, Types
<1>1. \A q \in Requests : pc[q] = "upload" => session[q] \in Conns /\ session[q] \in 1..conn
  BY Placed DEF Drawn, Begun, InFlight
<1>2. CASE ClientCloses
  <2>1. /\ UNCHANGED <<pc, session, id, uploaded, asked, pendingC, fwd, srv, up>> /\ conn \in Conns
        /\ down' = [down EXCEPT ![conn] = <<>>] /\ cli' = [cli EXCEPT ![conn] = "closed"]
    BY <1>2, ForwardAssumption DEF ClientCloses, Conns
  <2>2. \A s \in Conns : down'[s] = IF s = conn THEN <<>> ELSE down[s] BY <1>0, <2>1
(* Nothing is under way any more. *)
  <2>3. \A s \in Conns : down'[s] = <<>> BY <2>1, <2>2, OnlyCurrent
  <2>4. Entries' /\ BodyWhole' BY <2>1 DEF UInv, Entries, BodyWhole
  <2>5. Capacity' BY <2>1, <2>3, ForwardAssumption DEF UInv, Capacity
  <2>6. Uploads' BY <2>1, <2>3, NothingSent DEF UInv, Uploads
  <2>7. \A q \in Requests :
           ~(pc'[q] = "upload" /\ srv'[session'[q]] = "open" /\ cli'[session'[q]] # "closed")
    <3>1. ASSUME NEW q \in Requests, pc[q] = "upload" PROVE cli'[session[q]] = "closed"
      <4>1. session[q] \in Conns /\ (session[q] = conn \/ session[q] < conn)
        BY <1>0, <1>1, <3>1, ForwardAssumption
      <4> QED BY <1>0, <2>1, <4>1 DEF IInv, Links
    <3> QED BY <2>1, <3>1
  <2>8. Whole' BY <2>3, <2>7 DEF Whole
  <2> QED BY <2>4, <2>5, <2>6, <2>8 DEF UInv
<1>3. CASE Redial
  <2>1. /\ UNCHANGED <<pc, session, id, uploaded, asked, down, pendingC, fwd, up>>
        /\ cli' = [cli EXCEPT ![conn + 1] = "open"] /\ srv' = [srv EXCEPT ![conn + 1] = "open"]
    BY <1>3 DEF Redial
  <2>2. \A s \in 1..conn : s \in Conns => cli'[s] = cli[s] /\ srv'[s] = srv[s]
    BY <1>0, <2>1, ForwardAssumption
  <2> QED BY <1>1, <2>1, <2>2, BodiesKept DEF UInv, Capacity
<1> QED BY <1>2, <1>3

LEMMA InitUInv == Init => UInv
<1> SUFFICES ASSUME Init PROVE UInv
  OBVIOUS
<1> USE ForwardAssumption
<1>1. <<>> \in Bodies
  <2>1. CASE Requests = {}
    <3>1. 0..0-1 = {} /\ 0 \in 0..MaxBody OBVIOUS
    <3>2. <<>> \in [{} -> Requests] OBVIOUS
    <3> QED BY <3>1, <3>2 DEF Bodies
  <2>2. ASSUME NEW r \in Requests PROVE <<>> \in Bodies
    <3>1. 0 \in 0..MaxBody OBVIOUS
    <3> QED BY <3>1, BodyTyped, NoBody
  <2> QED BY <2>1, <2>2
<1>2. Entries BY <1>1 DEF Init, Entries, NoEntry
<1>3. Uploads BY <1>1, NothingSent DEF Init, Uploads
<1>4. Whole BY DEF Init, Whole
<1>5. Capacity BY DEF Init, Capacity
<1>6. BodyWhole BY DEF Init, BodyWhole
<1> QED BY <1>2, <1>3, <1>4, <1>5, <1>6 DEF UInv

LEMMA StepUInv == IInv /\ UInv /\ [Next]_vars => UInv'
<1> SUFFICES ASSUME IInv, UInv, [Next]_vars PROVE UInv'
  OBVIOUS
<1>1. CASE UNCHANGED vars
  BY <1>1, BodiesKept DEF vars, handlerVars, serverVars, linkVars, mapVars, forwardVars, UInv, Capacity
<1> QED BY <1>1, HandlingBodies, ForwardingBodies, ServingBodies, LinkingBodies, ReadingBodies
        DEF Next

LEMMA Bodily == Spec => [](IInv /\ UInv)
<1>1. Init => IInv /\ UInv BY InitIInv, InitUInv
<1>2. IInv /\ UInv /\ [Next]_vars => (IInv /\ UInv)' BY StepIInv, StepUInv
<1> QED BY <1>1, <1>2, PTL DEF Spec

(***************************************************************************)
(* The target is asked with the body of the request and nothing else, for  *)
(* however many requests, IDs and connections: a chunk goes into the entry *)
(* that the map has for its ID, and an entry that a lost connection left   *)
(* there is replaced before a chunk of another request can get into it     *)
(* (handleRequestStart, handleRequestChunk, handleRequestEnd, dispatch).   *)
(***************************************************************************)
THEOREM AskedWhole == Spec => []BodyWhole
<1>1. UInv => BodyWhole BY DEF UInv
<1> QED BY <1>1, Bodily, PTL

(***************************************************************************)
(* The variables keep their types; the queues of a connection never exceed *)
(* their capacity (Session.out, sendFrame), and what is assembled in the   *)
(* pending map never has a gap (handleRequestChunk).                       *)
(***************************************************************************)
THEOREM ForwardTyped == Spec => []TypeOK
<1>1. IInv /\ UInv => TypeOK
  BY DEF IInv, Types, UInv, Entries, Uploads, Capacity, TypeOK
<1> QED BY <1>1, Bodily, PTL
=============================================================================
