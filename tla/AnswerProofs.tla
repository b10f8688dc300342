----------------------------- MODULE AnswerProofs ------------------------------
(***************************************************************************)
(* An answer that ends without an error is complete: theorems about        *)
(* Forward for any numbers of requests, request IDs, connections and       *)
(* chunks.                                                                 *)
(*                                                                         *)
(* The frames of a forward have places 0, 1, 2, ...  On a connection that  *)
(* both ends still use, whatever comes before a frame and has not been     *)
(* heard by the handler is ahead of it (Flow), and so the next frame that  *)
(* a handler hears has the next place (NextPlace).                         *)
(***************************************************************************)
EXTENDS UploadProofs, SequenceTheorems

Answered == {"streaming", "failed", "leaving", "finished"}

(* What a forward sends: the head of the answer, its chunks and its end in places 0, 1, ... *)
Part(r, p)  == IF p = 0 THEN Frame(r, "start", 0) ELSE Frame(r, "chunk", p)
Place(f, d) == IF f.kind \in {"end", "fail"} THEN d[f.by] + 1 ELSE f.seq

(* A frame says what its forward has done. *)
Says(f) ==
    /\ fwd[f.by] \in Answered
    /\ f.kind \in {"start", "chunk", "end", "fail"}
    /\ IF f.kind = "chunk" THEN f.seq \in 1..produced[f.by] ELSE f.seq = 0
    /\ f.kind \in {"end", "fail"} => fwd[f.by] \in {"leaving", "finished"}

Answers ==
    /\ \A r \in Requests : fwd[r] \notin Answered => produced[r] = 0
    /\ \A s \in Conns : \A f \in Range(up[s]) : Says(f)
    /\ \A r \in Requests : \A f \in Range(heard[r]) : Says(f) /\ id[f.by] = f.id
    /\ \A s \in Conns : \A j, k \in 1..Len(up[s]) :
          j < k /\ up[s][j].by = up[s][k].by => Place(up[s][j], produced) < Place(up[s][k], produced)

(* A handler that has heard r only. *)
Own(h, r) == \A f \in Range(h) : f.by = r

Listens ==
    \A r \in Requests : pc[r] # "done" =>
        /\ (heard[r] # <<>>) <=> pc[r] = "stream"
        /\ \A f \in Range(heard[r]) : f.kind \in {"start", "chunk"}
        /\ Own(heard[r], r) => \A k \in 1..Len(heard[r]) : heard[r][k] = Part(r, k - 1)

(* The first k frames of w have all the places of r from a to n - 1. *)
Covers(w, d, r, a, k, n) ==
    \A p \in Nat : a <= p /\ p < n => \E j \in 1..k : w[j].by = r /\ Place(w[j], d) = p

(* Frame k of w comes when what is before it has been heard, or is ahead of it. *)
Follows(w, d, r, a, k) ==
    w[k].by = r /\ w[k].kind # "fail" =>
        a <= Place(w[k], d) /\ Covers(w, d, r, a, k - 1, Place(w[k], d))

Flow ==
    \A r \in Requests : LET s == session[r] IN
        Own(heard[r], r) /\ pc[r] \in InFlight /\ srv[s] = "open" =>
            /\ \A k \in 1..Len(up[s]) : Follows(up[s], produced, r, Len(heard[r]), k)
            /\ fwd[r] = "streaming" /\ conn = s /\ cli[s] = "open" =>
                  Covers(up[s], produced, r, Len(heard[r]), Len(up[s]), produced[r] + 1)

(* The whole answer of r, with n chunks and ID i. *)
Item(i, kind, n, r) == [id |-> i, kind |-> kind, seq |-> n, by |-> r]
Answer(i, r, n) ==
    <<Item(i, "start", 0, r)>> \o [k \in 1..n |-> Item(i, "chunk", k, r)] \o <<Item(i, "end", 0, r)>>

Complete ==
    \A r \in Requests :
        Own(heard[r], r) /\ heard[r] # <<>> /\ Last(heard[r]).kind = "end"
            => heard[r] = Answer(id[r], r, produced[r])

AInv == Answers /\ Listens /\ Flow /\ Complete

-----------------------------------------------------------------------------
(* What is heard and what is under way has its types, and begun requests only have any. *)
LEMMA Hearing ==
  ASSUME IInv
  PROVE  /\ produced \in [Requests -> Nat] /\ conn \in Nat
         /\ \A r \in Requests : /\ heard[r] \in Seq(Message) /\ Len(heard[r]) \in Nat
                                /\ heard[r] # <<>> => pc[r] \in Begun
         /\ \A s \in Conns : up[s] \in Seq(Message) /\ Len(up[s]) \in Nat
         /\ \A s \in Conns : \A k \in 1..Len(up[s]) :
               /\ up[s][k] \in Range(up[s]) /\ up[s][k] \in Message
               /\ up[s][k].by \in Requests /\ pc[up[s][k].by] \in Begun
<1>1. Types BY DEF IInv
<1>2. produced \in [Requests -> Nat] /\ conn \in Nat BY <1>1, ForwardAssumption DEF Types
<1>3. \A r \in Requests : heard[r] \in Seq(Message) BY <1>1 DEF Types
<1>4. \A s \in Conns : up[s] \in Seq(Message) BY <1>1 DEF Types
<1>5. \A s \in Conns : \A k \in 1..Len(up[s]) : up[s][k] \in Range(up[s])
  BY <1>4, WireFacts
<1> QED BY <1>2, <1>3, <1>4, <1>5, Owners DEF IInv, Sources

(* A step after which all that has been sent and heard is what it was, or its session is closed. *)
LEMMA AnswersKept ==
  ASSUME IInv, AInv, UNCHANGED <<heard, produced>>,
         \A w \in Conns : up'[w] = up[w] \/ (up'[w] = <<>> /\ srv'[w] # "open"),
         \A q \in Requests : /\ pc[q] \in Drawn => session'[q] = session[q]
                             /\ pc[q] \in Begun => id'[q] = id[q],
         \A q \in Requests : /\ fwd'[q] \in Answered <=> fwd[q] \in Answered
                             /\ fwd'[q] = "streaming" <=> fwd[q] = "streaming"
                             /\ fwd'[q] \in {"leaving", "finished"} <=> fwd[q] \in {"leaving", "finished"},
         \A q \in Requests : pc'[q] \in InFlight => pc[q] \in InFlight \cup {"register"},
         \A q \in Requests : pc'[q] # "done" =>
                                pc[q] # "done" /\ (pc'[q] = "stream" <=> pc[q] = "stream"),
         \A q \in Requests : pc[q] \in Begun /\ srv'[session[q]] = "open"
                                => srv[session[q]] = "open",
         \A q \in Requests : pc[q] \in Begun /\ conn' = session[q] /\ cli'[session[q]] = "open"
                                => conn = session[q] /\ cli[session[q]] = "open"
  PROVE  AInv'
<1>1. \A q \in Requests : heard[q] # <<>> => pc[q] \in Begun BY Hearing
<1>2. \A f : f.by \in Requests => (Says(f)' <=> Says(f)) BY DEF Says
<1>3. Answers'
  <2>1. \A s \in Conns : \A f \in Range(up'[s]) : f.by \in Requests /\ Says(f)
    BY Owners, NothingSent DEF AInv, Answers
  <2>2. \A r \in Requests : \A f \in Range(heard[r]) :
           f.by \in Requests /\ Says(f) /\ id'[f.by] = f.id
    BY Owners DEF AInv, Answers
  <2>3. \A s \in Conns : \A j, k \in 1..Len(up'[s]) :
          j < k /\ up'[s][j].by = up'[s][k].by
             => Place(up'[s][j], produced) < Place(up'[s][k], produced)
    BY DEF AInv, Answers
  <2> QED BY <1>2, <2>1, <2>2, <2>3 DEF AInv, Answers
<1>4. Listens'
  <2>1. ASSUME NEW q \in Requests, pc[q] # "done", Own(heard[q], q), NEW k \in 1..Len(heard[q])
        PROVE  heard[q][k] = Part(q, k - 1)'
    <3>1. heard[q] # <<>> BY <2>1
    <3>2. id'[q] = id[q] BY <1>1, <3>1
    <3>3. heard[q][k] = Part(q, k - 1) BY <2>1 DEF AInv, Listens
    <3> QED BY <3>2, <3>3 DEF Part, Frame
  <2>2. \A q \in Requests : pc'[q] # "done" =>
           /\ (heard[q] # <<>>) <=> pc'[q] = "stream"
           /\ \A f \in Range(heard[q]) : f.kind \in {"start", "chunk"}
    BY DEF AInv, Listens
  <2> QED BY <2>1, <2>2 DEF Listens
<1>5. Flow'
  <2> SUFFICES ASSUME NEW q \in Requests, Own(heard[q], q), pc'[q] \in InFlight,
                      srv'[session'[q]] = "open"
               PROVE  LET s == session'[q] IN
                      /\ \A k \in 1..Len(up'[s]) :
                            Follows(up'[s], produced, q, Len(heard[q]), k)
                      /\ fwd'[q] = "streaming" /\ conn' = s /\ cli'[s] = "open" =>
                            Covers(up'[s], produced, q, Len(heard[q]), Len(up'[s]), produced[q] + 1)
    BY DEF Flow
  <2>1. CASE pc[q] \in InFlight
    <3>1. session'[q] = session[q] /\ session[q] \in Conns /\ pc[q] \in Begun
      BY <2>1, Placed DEF Drawn, Begun
    <3>2. srv[session[q]] = "open" /\ up'[session[q]] = up[session[q]] BY <3>1
    <3> QED BY <2>1, <3>1, <3>2 DEF AInv, Flow
  <2>2. CASE pc[q] = "register"
    <3>1. pc[q] \notin Begun /\ pc[q] \in Drawn BY <2>2 DEF Drawn, Begun, InFlight
    <3>2. fwd[q] = "none" BY <3>1 DEF IInv, Sources
    <3>3. session'[q] \in Conns BY <3>1, Placed
    <3>4. \A s \in Conns : \A k \in 1..Len(up[s]) : up[s][k].by # q BY <3>1, Hearing
    <3>5. \A s \in Conns : \A k \in 1..Len(up'[s]) : up'[s][k].by # q
      <4>1. Len(<<>>) = 0 OBVIOUS
      <4> QED BY <3>4, <4>1
    <3> QED BY <3>2, <3>3, <3>5 DEF Follows
  <2> QED BY <2>1, <2>2
<1>6. Complete'
  <2>1. \A q \in Requests : heard[q] # <<>> => id'[q] = id[q] BY <1>1
  <2> QED BY <2>1 DEF AInv, Complete
<1> QED BY <1>3, <1>4, <1>5, <1>6 DEF AInv

LEMMA PlaceIs ==
  ASSUME NEW d \in [Requests -> Nat], NEW f \in Message
  PROVE  Place(f, d) \in Nat
<1>1. f.seq \in Nat /\ f.by \in Requests BY ForwardAssumption DEF Message
<1>2. d[f.by] + 1 \in Nat BY <1>1
<1> QED BY <1>1, <1>2 DEF Place

LEMMA Completes == Complete <=> CleanEndComplete
BY DEF Complete, CleanEndComplete, Own, Answer, Item, Frame

LEMMA Concat ==
  \A u, v \in Seq(Message) :
     /\ u \o v \in Seq(Message) /\ Len(u \o v) = Len(u) + Len(v)
     /\ \A k \in 1..Len(u) + Len(v) : (u \o v)[k] = IF k <= Len(u) THEN u[k] ELSE v[k - Len(u)]
BY ConcatProperties

(* An answer by its frames. *)
LEMMA AnswerIs ==
  ASSUME NEW r \in Requests, NEW i \in Ids, NEW n \in 0..MaxChunks, NEW h \in Seq(Message),
         NEW f, f = Item(i, "end", 0, r), Len(h) = n + 1, h[1] = Item(i, "start", 0, r),
         \A k \in 1..n : h[k + 1] = Item(i, "chunk", k, r)
  PROVE  Append(h, f) = Answer(i, r, n)
<1>1. n \in Nat /\ MaxChunks \in Nat BY ForwardAssumption
<1> DEFINE a == <<Item(i, "start", 0, r)>>
           b == [k \in 1..n |-> Item(i, "chunk", k, r)]
           c == <<Item(i, "end", 0, r)>>
<1>2. \A k \in Kinds, m \in 0..MaxBody + MaxChunks : Item(i, k, m, r) \in Message
  BY DEF Item, Message
<1>3. "start" \in Kinds /\ "chunk" \in Kinds /\ "end" \in Kinds BY DEF Kinds
<1>4. \A k \in 0..n : k \in 0..MaxBody + MaxChunks BY <1>1, ForwardAssumption
<1>5. \A k \in 1..n : Item(i, "chunk", k, r) \in Message
  <2>1. \A k \in 1..n : k \in 0..n BY <1>1
  <2> QED BY <1>2, <1>3, <1>4, <2>1
<1>6. Item(i, "start", 0, r) \in Message /\ Item(i, "end", 0, r) \in Message
  <2>1. 0 \in 0..n BY <1>1
  <2> QED BY <1>2, <1>3, <1>4, <2>1
<1> HIDE DEF Item
<1>7. a \in Seq(Message) /\ b \in Seq(Message) /\ c \in Seq(Message)
      /\ Len(a) = 1 /\ Len(b) = n /\ Len(c) = 1 /\ a[1] = Item(i, "start", 0, r)
      /\ c[1] = f /\ \A k \in 1..n : b[k] = Item(i, "chunk", k, r)
  BY <1>1, <1>5, <1>6
<1> HIDE DEF a, b, c
<1> DEFINE x == a \o b \o c
<1>8. /\ x \in Seq(Message) /\ Len(x) = n + 2 /\ x[1] = a[1] /\ x[n + 2] = c[1]
      /\ \A k \in 1..n : x[k + 1] = b[k]
  <2> DEFINE z == a \o b
  <2>1. /\ z \in Seq(Message) /\ Len(z) = Len(a) + Len(b)
        /\ \A k \in 1..Len(a) + Len(b) : z[k] = IF k <= Len(a) THEN a[k] ELSE b[k - Len(a)]
    BY <1>7, Concat
  <2> HIDE DEF z
  <2>2. Len(z) = n + 1 /\ z[1] = a[1] /\ \A k \in 1..n : z[k + 1] = b[k]
    BY <1>1, <1>7, <2>1
  <2>3. /\ z \o c \in Seq(Message) /\ Len(z \o c) = Len(z) + Len(c)
        /\ \A k \in 1..Len(z) + Len(c) : (z \o c)[k] = IF k <= Len(z) THEN z[k] ELSE c[k - Len(z)]
    BY <1>7, <2>1, Concat
  <2>4. Len(z \o c) = n + 2 BY <1>1, <1>7, <2>2, <2>3
  <2>5. \A k \in 1..n + 1 : (z \o c)[k] = z[k] BY <1>1, <1>7, <2>2, <2>3
  <2>6. (z \o c)[n + 2] = c[1]
    <3>1. n + 2 \in 1..Len(z) + Len(c) /\ ~(n + 2 <= Len(z)) /\ (n + 2) - Len(z) = 1
      BY <1>1, <1>7, <2>2
    <3> QED BY <2>3, <3>1
  <2>7. \A k \in 1..n : k + 1 \in 1..n + 1 BY <1>1
  <2>8. 1 \in 1..n + 1 BY <1>1
  <2>9. x = z \o c BY DEF z
  <2> HIDE DEF x
  <2> QED BY <2>2, <2>3, <2>4, <2>5, <2>6, <2>7, <2>8, <2>9
<1> DEFINE y == Append(h, f)
<1>9. f \in Message BY <1>6
<1>10. /\ y \in Seq(Message) /\ Len(y) = n + 2 /\ y[n + 2] = f
       /\ \A k \in 1..n + 1 : y[k] = h[k]
  BY <1>1, <1>9, WireFacts
<1> HIDE DEF x, y
<1>11. \A k \in 1..n + 2 : x[k] = y[k]
  <2> SUFFICES ASSUME NEW k \in 1..n + 2 PROVE x[k] = y[k]
    OBVIOUS
  <2>1. CASE k = 1 BY <1>1, <1>7, <1>8, <1>10, <2>1
  <2>2. CASE k = n + 2 BY <1>7, <1>8, <1>10, <2>2
  <2>3. CASE k - 1 \in 1..n
    <3>1. x[(k - 1) + 1] = b[k - 1] /\ h[(k - 1) + 1] = b[k - 1] BY <1>7, <1>8, <2>3
    <3>2. (k - 1) + 1 = k /\ k \in 1..n + 1 BY <1>1, <2>3
    <3> QED BY <1>10, <3>1, <3>2
  <2> QED BY <1>1, <2>1, <2>2, <2>3
<1>12. x = y BY <1>8, <1>10, <1>11
<1> QED BY <1>12 DEF x, y, a, b, c, Answer

(* What a forward does to its answer when it has a frame g to send. *)
Sends(r, g) ==
    /\ g \in Message /\ g.by = r /\ g.id = id[r]
    /\ \/ /\ g.kind = "start" /\ g.seq = 0 /\ UNCHANGED produced
          /\ fwd[r] = "asking" /\ fwd'[r] \in {"streaming", "failed"}
       \/ /\ g.kind = "chunk" /\ g.seq = produced[r] + 1
          /\ produced' = [produced EXCEPT ![r] = @ + 1]
          /\ fwd[r] = "streaming" /\ fwd'[r] = "streaming"
       \/ /\ g.kind = "end" /\ g.seq = 0 /\ UNCHANGED produced
          /\ fwd[r] = "streaming" /\ fwd'[r] = "leaving"
       \/ /\ g.kind = "fail" /\ g.seq = 0 /\ UNCHANGED produced
          /\ fwd[r] \in {"streaming", "failed"} /\ fwd'[r] = "leaving"

LEMMA AnswerSends ==
  ASSUME IInv, NEW r \in Requests, Answering(r)
  PROVE  /\ fwd[r] = "asking" \/ fwd[r] \in Answered \ {"leaving", "finished"}
         /\ fwd'[r] \in Answered /\ \A q \in Requests : q # r => fwd'[q] = fwd[q]
         /\ UNCHANGED <<handlerVars, serverVars, conn>>
         /\ \A q \in Requests : produced'[q] = produced[q] \/ (q = r /\ fwd[r] = "streaming"
                                                               /\ produced'[r] = produced[r] + 1)
         /\ UNCHANGED cli \/ cli' = [cli EXCEPT ![conn] = "broken"]
         /\ \/ /\ UNCHANGED up
               /\ fwd'[r] = "streaming" => cli[conn] = "open" /\ srv[conn] = "closed"
            \/ \E g \in Message :
                  /\ Sends(r, g) /\ srv[conn] = "open" /\ cli[conn] = "open" /\ UNCHANGED cli
                  /\ up' = [up EXCEPT ![conn] = Append(@, g)]
<1> DEFINE Gone == UNCHANGED up /\ cli[conn] = "open" /\ srv[conn] = "closed"
           Wrote(g) == /\ srv[conn] = "open" /\ cli[conn] = "open" /\ UNCHANGED cli
                       /\ up' = [up EXCEPT ![conn] = Append(@, g)]
           Goal == \/ /\ UNCHANGED up
                      /\ fwd'[r] = "streaming" => cli[conn] = "open" /\ srv[conn] = "closed"
                   \/ \E g \in Message : Sends(r, g) /\ Wrote(g)
<1>0. Types BY DEF IInv
<1>1. \A f : Written(f) => Gone \/ Wrote(f) BY DEF Written
<1>2. Refused => UNCHANGED up BY DEF Refused
<1>3. \A k \in Kinds, n \in 0..MaxBody + MaxChunks :
         /\ Frame(r, k, n) \in Message /\ Frame(r, k, n).by = r /\ Frame(r, k, n).seq = n
         /\ Frame(r, k, n).id = id[r] /\ Frame(r, k, n).kind = k
  <2>1. \A k, n : Frame(r, k, n).seq = n BY DEF Frame
  <2> QED BY <1>0, <2>1, FrameTyped
<1>4. 0 \in 0..MaxBody + MaxChunks /\ produced[r] \in 0..MaxChunks
  BY <1>0, ForwardAssumption DEF Types
<1>5. Kinds = {"body", "nobody", "start", "chunk", "end", "fail", "cancel"} BY DEF Kinds
<1>6. fwd \in [Requests -> FwdStates] /\ produced \in [Requests -> 0..MaxChunks]
  BY <1>0 DEF Types
<1>7. Goal /\ \A q \in Requests : produced'[q] = produced[q]
                                  \/ (q = r /\ fwd[r] = "streaming" /\ produced'[r] = produced[r] + 1)
  <2> HIDE DEF Gone, Wrote
  <2>1. CASE AnswerStarts(r)
    <3> DEFINE g == Frame(r, "start", 0)
    <3>1. /\ g \in Message /\ g.by = r /\ g.id = id[r] /\ g.kind = "start" /\ g.seq = 0
      BY <1>3, <1>4, <1>5
    <3>2. /\ fwd[r] = "asking" /\ UNCHANGED produced
          /\ \/ (Gone \/ Wrote(g)) /\ fwd'[r] = "streaming"
             \/ UNCHANGED up /\ fwd'[r] = "leaving"
      BY <1>1, <1>2, <1>6, <2>1 DEF AnswerStarts, GotoF
    <3> HIDE DEF g
    <3> QED BY <3>1, <3>2 DEF Sends, Gone
  <2>2. CASE AnswerFails(r)
    <3> DEFINE g == Frame(r, "start", 0)
    <3>1. /\ g \in Message /\ g.by = r /\ g.id = id[r] /\ g.kind = "start" /\ g.seq = 0
      BY <1>3, <1>4, <1>5
    <3>2. /\ fwd[r] = "asking" /\ UNCHANGED produced /\ fwd'[r] = "failed"
          /\ Gone \/ Wrote(g) \/ UNCHANGED up
      BY <1>1, <1>2, <1>6, <2>2 DEF AnswerFails, GotoF
    <3> HIDE DEF g
    <3> QED BY <3>1, <3>2 DEF Sends, Gone
  <2>3. CASE StreamChunk(r)
    <3> DEFINE g == Frame(r, "chunk", produced[r] + 1)
    <3>1. produced[r] + 1 \in 0..MaxBody + MaxChunks
      BY <1>4, <2>3, ForwardAssumption DEF StreamChunk
    <3>2. /\ g \in Message /\ g.by = r /\ g.id = id[r] /\ g.kind = "chunk" /\ g.seq = produced[r] + 1
      BY <1>3, <1>5, <3>1
    <3>3. /\ fwd[r] = "streaming" /\ produced' = [produced EXCEPT ![r] = @ + 1]
          /\ \/ (Gone \/ Wrote(g)) /\ UNCHANGED fwd
             \/ UNCHANGED up /\ fwd'[r] = "leaving"
      BY <1>1, <1>2, <1>6, <2>3 DEF StreamChunk, GotoF
    <3> HIDE DEF g
    <3>4. \A q \in Requests : produced'[q] = produced[q] \/ (q = r /\ produced'[r] = produced[r] + 1)
      BY <1>6, <3>3
    <3> QED BY <3>2, <3>3, <3>4 DEF Sends, Gone
  <2>4. CASE StreamEnds(r)
    <3> DEFINE g == Frame(r, "end", 0)
    <3>1. /\ g \in Message /\ g.by = r /\ g.id = id[r] /\ g.kind = "end" /\ g.seq = 0
      BY <1>3, <1>4, <1>5
    <3>2. /\ fwd[r] = "streaming" /\ UNCHANGED produced /\ fwd'[r] = "leaving"
          /\ Gone \/ Wrote(g) \/ UNCHANGED up
      BY <1>1, <1>2, <1>6, <2>4 DEF StreamEnds, GotoF
    <3> HIDE DEF g
    <3> QED BY <3>1, <3>2 DEF Sends, Gone
  <2>5. CASE StreamFails(r)
    <3> DEFINE g == Frame(r, "fail", 0)
    <3>1. /\ g \in Message /\ g.by = r /\ g.id = id[r] /\ g.kind = "fail" /\ g.seq = 0
      BY <1>3, <1>4, <1>5
    <3>2. /\ fwd[r] \in {"streaming", "failed"} /\ UNCHANGED produced /\ fwd'[r] = "leaving"
          /\ (Gone \/ Wrote(g) \/ UNCHANGED up)
      BY <1>1, <1>2, <1>6, <2>5 DEF StreamFails, GotoF
    <3> HIDE DEF g
    <3> QED BY <3>1, <3>2 DEF Sends, Gone
  <2> QED BY <2>1, <2>2, <2>3, <2>4, <2>5 DEF Answering
<1> QED BY <1>7, AnswerStep DEF Answered

(* A handler that has heard its own forward only has not heard more than that has sent. *)
LEMMA HeardSoFar ==
  ASSUME IInv, AInv, NEW r \in Requests, Own(heard[r], r), pc[r] # "done"
  PROVE  /\ Len(heard[r]) <= produced[r] + 1
         /\ fwd[r] \notin Answered => Len(heard[r]) = 0
<1> DEFINE a == Len(heard[r])
<1>1. a \in Nat /\ produced[r] \in Nat /\ heard[r] \in Seq(Message) BY Hearing
<1>2. ASSUME a # 0 PROVE a - 1 <= produced[r] /\ fwd[r] \in Answered
  <2>1. a \in 1..a BY <1>1, <1>2
  <2>2. heard[r][a] \in Range(heard[r]) BY <1>1, <2>1, WireFacts
  <2>3. heard[r][a] = Part(r, a - 1) BY <2>1 DEF AInv, Listens
  <2>4. Says(heard[r][a]) /\ heard[r][a].by = r BY <2>2 DEF AInv, Answers, Own
  <2> HIDE DEF a
  <2>5. a - 1 # 0 => Part(r, a - 1).kind = "chunk" /\ Part(r, a - 1).seq = a - 1
    BY DEF Part, Frame
  <2>6. a - 1 # 0 => a - 1 \in 1..produced[r] BY <2>3, <2>4, <2>5 DEF Says
  <2> QED BY <1>1, <2>4, <2>6 DEF Says
<1> QED BY <1>1, <1>2

LEMMA AnsweringAnswers ==
  ASSUME IInv, AInv, NEW r \in Requests, Answering(r)
  PROVE  AInv'
<1>1. /\ fwd[r] = "asking" \/ fwd[r] \in Answered \ {"leaving", "finished"}
      /\ fwd'[r] \in Answered /\ \A q \in Requests : q # r => fwd'[q] = fwd[q]
      /\ UNCHANGED <<pc, session, id, heard, srv, conn>>
      /\ \A q \in Requests : produced'[q] = produced[q] \/ (q = r /\ fwd[r] = "streaming"
                                                            /\ produced'[r] = produced[r] + 1)
      /\ UNCHANGED cli \/ cli' = [cli EXCEPT ![conn] = "broken"]
  BY AnswerSends DEF handlerVars, serverVars
<1>2. /\ produced \in [Requests -> Nat] /\ up \in [Conns -> Seq(Message)]
      /\ cli \in [Conns -> {"none", "open", "broken", "closed"}]
  BY Hearing DEF IInv, Types
<1>3. \A s \in Conns : /\ Len(up[s]) \in Nat /\ Len(up'[s]) \in Nat /\ Len(up[s]) <= Len(up'[s])
                       /\ \A j \in 1..Len(up[s]) : up'[s][j] = up[s][j]
  <2>1. SentUp(r) BY AnswerStep
  <2>2. CASE UNCHANGED up BY <1>2, <2>2
  <2>3. ASSUME NEW f \in Message, up' = [up EXCEPT ![conn] = Append(@, f)], NEW s \in Conns
        PROVE  /\ Len(up[s]) \in Nat /\ Len(up'[s]) \in Nat /\ Len(up[s]) <= Len(up'[s])
               /\ \A j \in 1..Len(up[s]) : up'[s][j] = up[s][j]
    <3>1. up'[s] = up[s] \/ up'[s] = Append(up[s], f) BY <1>2, <2>3
    <3> QED BY <1>2, <3>1, WireFacts
  <2> QED BY <2>1, <2>2, <2>3 DEF SentUp
(* The frames that are there keep their places. *)
<1>4. ASSUME NEW f \in Message, Says(f)
      PROVE  /\ Says(f)' /\ Place(f, produced') = Place(f, produced)
             /\ f.by = r => fwd[r] # "asking" /\ Place(f, produced) <= produced[r]
  <2>1. f.by \in Requests /\ produced[f.by] \in Nat BY <1>2 DEF Message
  <2>2. f.by = r => f.kind \notin {"end", "fail"} BY <1>1, <1>4 DEF Says, Answered
  <2>3. CASE f.by = r
    <3>1. Says(f)' BY <1>1, <1>4, <2>1, <2>2, <2>3 DEF Says
    <3> QED BY <1>1, <1>4, <2>1, <2>2, <2>3, <3>1 DEF Says, Place, Answered
  <2>4. CASE f.by # r
    <3>1. produced'[f.by] = produced[f.by] /\ fwd'[f.by] = fwd[f.by] BY <1>1, <2>1, <2>4
    <3>2. Says(f)' BY <1>4, <3>1 DEF Says
    <3> QED BY <2>4, <3>1, <3>2 DEF Place
  <2> QED BY <2>3, <2>4
<1>5. /\ \A s \in Conns : \A k \in 1..Len(up[s]) : up[s][k] \in Message /\ Says(up[s][k])
      /\ \A q \in Requests : \A f \in Range(heard[q]) : f \in Message /\ Says(f)
  <2>1. \A q \in Requests : Range(heard[q]) \subseteq Message BY Hearing, WireFacts
  <2> QED BY <2>1, Hearing DEF AInv, Answers
<1>6. ASSUME NEW s \in Conns, NEW q \in Requests, NEW k \in 0..Len(up[s]), NEW a, NEW n,
             Covers(up[s], produced, q, a, k, n)
      PROVE  Covers(up'[s], produced', q, a, k, n)
  <2>1. \A j \in 1..k : j \in 1..Len(up[s]) BY <1>3
  <2>2. \A j \in 1..k : up'[s][j] = up[s][j] /\ Place(up[s][j], produced') = Place(up[s][j], produced)
    BY <1>3, <1>4, <1>5, <2>1
  <2> QED BY <1>6, <2>2 DEF Covers
<1>7. ASSUME NEW s \in Conns, NEW q \in Requests, NEW k \in 1..Len(up[s]), NEW a,
             Follows(up[s], produced, q, a, k)
      PROVE  Follows(up'[s], produced', q, a, k)
  <2>1. k - 1 \in 0..Len(up[s]) BY <1>3
  <2>2. up'[s][k] = up[s][k] /\ Place(up[s][k], produced') = Place(up[s][k], produced)
    BY <1>3, <1>4, <1>5
  <2> QED BY <1>6, <1>7, <2>1, <2>2 DEF Follows
<1>8. Listens'
  <2>1. \A q \in Requests, k \in Nat : Part(q, k - 1)' = Part(q, k - 1)
    BY <1>1 DEF Part, Frame
  <2>2. \A q \in Requests, k \in Nat : pc[q] # "done" /\ Own(heard[q], q) /\ k \in 1..Len(heard[q])
           => heard[q][k] = Part(q, k - 1)'
    BY <2>1 DEF AInv, Listens
  <2>3. \A q \in Requests : \A k \in 1..Len(heard[q]) : k \in Nat BY Hearing
  <2> QED BY <1>1, <2>2, <2>3 DEF AInv, Listens
<1>9. Complete'
  <2>1. ASSUME NEW q \in Requests, heard[q] # <<>>, Last(heard[q]).kind = "end", Own(heard[q], q)
        PROVE  produced'[q] = produced[q]
    <3>1. Last(heard[q]) \in Range(heard[q])
      <4>1. heard[q] \in Seq(Message) /\ Len(heard[q]) \in 1..Len(heard[q])
        BY <2>1, Hearing
      <4> QED BY <4>1, WireFacts DEF Last
    <3>2. fwd[q] \in {"leaving", "finished"}
      BY <2>1, <3>1 DEF AInv, Answers, Says, Own
    <3> QED BY <1>1, <3>2
  <2> QED BY <1>1, <2>1 DEF AInv, Complete
<1>10. \A q \in Requests : fwd'[q] \notin Answered => produced'[q] = 0
  BY <1>1 DEF AInv, Answers
<1>11. \A q \in Requests : \A f \in Range(heard[q]) : Says(f)' /\ id[f.by] = f.id
  BY <1>4, <1>5 DEF AInv, Answers
(* What is expected next, unless this frame is lost. *)
<1>12. ASSUME NEW q \in Requests, Own(heard[q], q), pc[q] \in InFlight, srv[session[q]] = "open"
       PROVE  /\ session[q] \in Conns /\ pc[q] # "done"
              /\ \A k \in 1..Len(up[session[q]]) :
                    Follows(up'[session[q]], produced', q, Len(heard[q]), k)
              /\ fwd[q] = "streaming" /\ conn = session[q] /\ cli[session[q]] = "open" =>
                    Covers(up'[session[q]], produced', q, Len(heard[q]), Len(up[session[q]]),
                           produced[q] + 1)
  <2>1. session[q] \in Conns /\ pc[q] # "done" BY <1>12, Placed DEF Drawn, Begun, InFlight
  <2>2. Len(up[session[q]]) \in 0..Len(up[session[q]]) BY <1>3, <2>1
  <2> QED BY <1>6, <1>7, <1>12, <2>1, <2>2 DEF AInv, Flow
<1>13. \A s \in Conns : cli'[s] = "open" => cli[s] = "open" BY <1>1, <1>2
<1>14. CASE /\ UNCHANGED up
            /\ fwd'[r] = "streaming" => cli[conn] = "open" /\ srv[conn] = "closed"
  <2>1. Answers'
    <3>1. \A s \in Conns : \A f \in Range(up[s]) : Says(f)'
      BY <1>4, Owners DEF AInv, Answers
    <3>2. \A s \in Conns : \A j, k \in 1..Len(up[s]) :
             j < k /\ up[s][j].by = up[s][k].by
                => Place(up[s][j], produced') < Place(up[s][k], produced')
      BY <1>4, <1>5 DEF AInv, Answers
    <3> QED BY <1>1, <1>10, <1>11, <1>14, <3>1, <3>2 DEF Answers
  <2>2. Flow'
    <3>1. ASSUME NEW q \in Requests, Own(heard[q], q), pc[q] \in InFlight, srv[session[q]] = "open",
                 fwd'[q] = "streaming", conn = session[q], cli'[session[q]] = "open"
          PROVE  Covers(up'[session[q]], produced', q, Len(heard[q]), Len(up[session[q]]),
                        produced'[q] + 1)
      <4>1. q # r BY <1>14, <3>1
      <4>2. fwd[q] = "streaming" /\ produced'[q] = produced[q] BY <1>1, <3>1, <4>1
      <4> QED BY <1>12, <1>13, <3>1, <4>2
    <3> QED BY <1>1, <1>12, <1>14, <3>1 DEF Flow
  <2> QED BY <1>8, <1>9, <2>1, <2>2 DEF AInv
<1>15. ASSUME NEW g \in Message, Sends(r, g), srv[conn] = "open", cli[conn] = "open",
              up' = [up EXCEPT ![conn] = Append(@, g)]
       PROVE  AInv'
  <2>1. conn \in Conns
    <3>1. fwd[r] # "none" BY <1>1 DEF Answered
    <3>2. session[r] \in 1..conn BY <3>1, Placed DEF IInv, Sources, Drawn
    <3> QED BY <3>2, ForwardAssumption DEF IInv, Types, Conns
  <2> DEFINE n == Len(up[conn])
  <2>2. /\ n \in Nat /\ Len(up'[conn]) = n + 1 /\ up'[conn][n + 1] = g
        /\ Range(up'[conn]) = Range(up[conn]) \cup {g}
        /\ \A s \in Conns : s # conn => up'[s] = up[s]
    <3>1. up'[conn] = Append(up[conn], g) BY <1>2, <1>15, <2>1
    <3> QED BY <1>2, <1>15, <2>1, <3>1, WireFacts
  <2> HIDE DEF n
  <2>3. /\ g.by = r /\ Says(g)' /\ Place(g, produced') = IF g.kind = "start" THEN 0 ELSE produced[r] + 1
        /\ g.kind = "start" <=> fwd[r] = "asking"
    <3>1. produced[r] \in Nat /\ produced[r] + 1 \in 1..produced[r] + 1 BY <1>2
    <3>2. g.by = r /\ fwd'[r] \in Answered BY <1>1, <1>15 DEF Sends
    <3>3. CASE g.kind = "start" BY <1>2, <1>15, <3>1, <3>2, <3>3 DEF Sends, Says, Place
    <3>4. CASE g.kind = "chunk"
      <4>1. produced'[r] = produced[r] + 1 BY <1>2, <1>15, <3>4 DEF Sends
      <4> QED BY <1>15, <3>1, <3>2, <3>4, <4>1 DEF Sends, Says, Place
    <3>5. CASE g.kind \in {"end", "fail"}
      BY <1>2, <1>15, <3>1, <3>2, <3>5 DEF Sends, Says, Place
    <3> QED BY <1>15, <3>3, <3>4, <3>5 DEF Sends
  <2>4. \A k \in 1..n : up[conn][k].by = r =>
           Place(up[conn][k], produced) <= produced[r] /\ g.kind # "start"
    BY <1>4, <1>5, <2>1, <2>3 DEF n
  <2>5. \A s \in Conns : \A k \in 1..Len(up[s]) :
           up'[s][k] = up[s][k] /\ Place(up[s][k], produced') = Place(up[s][k], produced)
    BY <1>3, <1>4, <1>5
  <2>6. \A s \in Conns : \A k \in 1..Len(up'[s]) :
           k \in 1..Len(up[s]) \/ (s = conn /\ k = n + 1)
    BY <2>2 DEF n
  <2>7. Answers'
    <3>1. \A s \in Conns : \A f \in Range(up'[s]) : Says(f)'
      <4>1. \A s \in Conns : \A f \in Range(up[s]) : Says(f)'
        BY <1>4, Owners DEF AInv, Answers
      <4> QED BY <2>2, <2>3, <4>1
    <3>2. ASSUME NEW s \in Conns, NEW j \in 1..Len(up'[s]), NEW k \in 1..Len(up'[s]),
                 j < k, up'[s][j].by = up'[s][k].by
          PROVE  Place(up'[s][j], produced') < Place(up'[s][k], produced')
      <4>1. CASE k \in 1..Len(up[s])
        <5>1. j \in 1..Len(up[s]) BY <1>3, <3>2, <4>1
        <5>2. up[s][j].by = up[s][k].by BY <2>5, <3>2, <4>1, <5>1
        <5>3. Place(up[s][j], produced) < Place(up[s][k], produced)
          BY <3>2, <4>1, <5>1, <5>2 DEF AInv, Answers
        <5> QED BY <2>5, <4>1, <5>1, <5>3
      <4>2. CASE s = conn /\ k = n + 1
        <5>1. j \in 1..n BY <2>2, <3>2, <4>2
        <5>2. up[conn][j].by = r BY <2>2, <2>3, <2>5, <3>2, <4>2, <5>1 DEF n
        <5>3. Place(up'[s][j], produced') <= produced[r] /\ g.kind # "start"
          BY <2>1, <2>4, <2>5, <4>2, <5>1, <5>2 DEF n
        <5>4. Place(up'[s][k], produced') = produced[r] + 1 BY <2>2, <2>3, <4>2, <5>3
        <5>5. produced[r] \in Nat /\ Place(up'[s][j], produced') \in Nat
          <6>1. up[conn][j] \in Message /\ up'[s][j] = up[conn][j] /\ Says(up[conn][j])
            BY <1>5, <2>1, <2>5, <4>2, <5>1 DEF n
          <6>2. Place(up[conn][j], produced') = Place(up[conn][j], produced) BY <1>4, <6>1
          <6>3. Place(up[conn][j], produced) \in Nat
            BY <1>2, <6>1, PlaceIs
          <6> QED BY <1>2, <6>1, <6>2, <6>3
        <5> QED BY <5>3, <5>4, <5>5
      <4> QED BY <2>6, <4>1, <4>2
    <3> QED BY <1>1, <1>10, <1>11, <3>1, <3>2 DEF Answers
  <2>8. ASSUME NEW q \in Requests, Own(heard[q], q), pc[q] \in InFlight, srv[session[q]] = "open"
        PROVE  LET s == session[q] IN
               /\ \A k \in 1..Len(up'[s]) : Follows(up'[s], produced', q, Len(heard[q]), k)
               /\ fwd'[q] = "streaming" /\ conn = s /\ cli'[s] = "open" =>
                     Covers(up'[s], produced', q, Len(heard[q]), Len(up'[s]), produced'[q] + 1)
    <3> DEFINE s == session[q]
               a == Len(heard[q])
    <3>1. /\ s \in Conns /\ pc[q] # "done" /\ a \in Nat /\ a <= produced[q] + 1
          /\ fwd[q] \notin Answered => a = 0
          /\ produced[q] \in Nat /\ (fwd[q] \notin Answered => produced[q] = 0)
      BY <1>2, <1>12, <2>8, HeardSoFar, Hearing DEF AInv, Answers
    <3>2. \A k \in 1..Len(up[s]) : Follows(up'[s], produced', q, a, k) BY <1>12, <2>8
    <3>3. fwd[q] = "streaming" /\ conn = s => Covers(up'[s], produced', q, a, Len(up[s]), produced[q] + 1)
      BY <1>12, <1>15, <2>8
    <3>4. fwd[q] = "asking" => a = 0 /\ produced[q] = 0 BY <3>1 DEF Answered
    <3> HIDE DEF s, a
    <3>5. s = conn => Follows(up'[s], produced', q, a, n + 1)
      <4> SUFFICES ASSUME s = conn, q = r, g.kind # "fail"
                   PROVE  a <= Place(g, produced') /\ Covers(up'[s], produced', q, a, n, Place(g, produced'))
        BY <2>2, <2>3 DEF Follows
      <4>1. CASE g.kind = "start"
        <5>1. a = 0 /\ Place(g, produced') = 0 BY <2>3, <3>4, <4>1
        <5> QED BY <5>1 DEF Covers
      <4>2. CASE g.kind # "start"
        <5>1. Place(g, produced') = produced[q] + 1 /\ fwd[q] = "streaming"
          BY <1>15, <2>3, <4>2 DEF Sends
        <5> QED BY <3>1, <3>3, <5>1 DEF n
      <4> QED BY <4>1, <4>2
    <3>6. ASSUME fwd'[q] = "streaming", conn = s
          PROVE  Covers(up'[s], produced', q, a, Len(up'[s]), produced'[q] + 1)
      <4>1. Len(up'[s]) = n + 1 /\ n = Len(up[s]) BY <2>2, <3>6 DEF n
      <4>2. CASE q # r
        <5>1. fwd[q] = "streaming" /\ produced'[q] = produced[q] BY <1>1, <3>6, <4>2
        <5>2. \A j \in 1..n : j \in 1..n + 1 BY <2>2
        <5> QED BY <3>3, <3>6, <4>1, <5>1, <5>2 DEF Covers
      <4>3. CASE q = r /\ g.kind = "start"
        <5>1. a = 0 /\ produced'[q] = 0 BY <1>15, <2>3, <3>4, <4>3 DEF Sends
        <5>2. \A p \in Nat : p < 0 + 1 => p = 0 OBVIOUS
        <5>3. n + 1 \in 1..n + 1 /\ up'[s][n + 1].by = q /\ Place(up'[s][n + 1], produced') = 0
          BY <2>2, <2>3, <3>6, <4>3
        <5> QED BY <4>1, <5>1, <5>2, <5>3 DEF Covers
      <4>4. CASE q = r /\ g.kind = "chunk"
        <5>1. fwd[q] = "streaming" /\ produced'[q] = produced[q] + 1
          BY <1>2, <1>15, <4>4 DEF Sends
        <5>2. \A p \in Nat : p < (produced[q] + 1) + 1 => p < produced[q] + 1 \/ p = produced[q] + 1
          BY <3>1
        <5>3. /\ n + 1 \in 1..n + 1 /\ up'[s][n + 1].by = q
              /\ Place(up'[s][n + 1], produced') = produced[q] + 1
          BY <2>2, <2>3, <3>6, <4>4
        <5>4. \A j \in 1..n : j \in 1..n + 1 BY <2>2
        <5> QED BY <3>3, <3>6, <4>1, <5>1, <5>2, <5>3, <5>4 DEF Covers
      <4> QED BY <1>15, <3>6, <4>2, <4>3, <4>4 DEF Sends
    <3> QED BY <2>6, <3>1, <3>2, <3>5, <3>6 DEF s, a
  <2>9. Flow'
    <3> HIDE DEF n
    <3> QED BY <1>1, <2>8 DEF Flow
  <2> QED BY <1>8, <1>9, <2>7, <2>9 DEF AInv
<1> QED BY <1>14, <1>15, AnswerSends

(* The frame that a handler hears has the place after all that it has heard. *)
LEMMA NextPlace ==
  ASSUME IInv, AInv, NEW r \in Requests, Own(heard[r], r), pc[r] \in InFlight,
         srv[session[r]] = "open", up[session[r]] # <<>>, up[session[r]][1].by = r,
         up[session[r]][1].kind # "fail"
  PROVE  Place(up[session[r]][1], produced) = Len(heard[r])
<1> DEFINE w == up[session[r]]
           a == Len(heard[r])
           p == Place(w[1], produced)
<1>1. session[r] \in Conns /\ w \in Seq(Message) /\ a \in Nat
  BY Placed, Hearing DEF Drawn, Begun
<1>2. 1 \in 1..Len(w) BY <1>1
<1>3. a <= p /\ Covers(w, produced, r, a, 1 - 1, p) BY <1>2 DEF AInv, Flow, Follows
<1>4. p \in Nat
  <2>1. w[1] \in Message /\ produced \in [Requests -> Nat] BY <1>1, <1>2, Hearing
  <2> QED BY <2>1, PlaceIs
<1> HIDE DEF a, p, w
<1>5. ~(a < p) BY <1>1, <1>3, <1>4 DEF Covers
<1> QED BY <1>1, <1>3, <1>4, <1>5 DEF a, p, w

(* Which frames a handler hears, and what it does then. *)
LEMMA Delivery ==
  ASSUME IInv, NEW s \in Conns, ServerReads(s)
  PROVE  LET f == up[s][1]  r == pendingS[s][f.id] IN
         /\ srv[s] = "open" /\ Len(up'[s]) = Len(up[s]) - 1
         /\ \A k \in 1..Len(up[s]) - 1 : up'[s][k] = up[s][k + 1]
         /\ Range(up'[s]) \subseteq Range(up[s])
         /\ \A w \in Conns : w # s => up'[w] = up[w]
         /\ UNCHANGED <<session, id, srv, conn, cli, fwd, produced>>
         /\ up[s] # <<>> /\ f \in Message /\ f \in Range(up[s])
         /\ \/ r = NoReq /\ UNCHANGED <<pc, heard>>
            \/ /\ r \in Requests /\ session[r] = s /\ id[r] = f.id
               /\ heard' = [heard EXCEPT ![r] = Append(@, f)]
               /\ \A q \in Requests : q # r => pc'[q] = pc[q]
               /\ \/ pc[r] = "wait" /\ f.kind = "start" /\ pc'[r] = "stream"
                  \/ pc[r] = "stream" /\ f.kind = "chunk" /\ pc'[r] = "stream"
                  \/ pc[r] = "wait" /\ f.kind # "start" /\ pc'[r] = "done"
                  \/ pc[r] = "stream" /\ f.kind # "chunk" /\ pc'[r] = "done"
<1> DEFINE f == up[s][1]
           r == pendingS[s][f.id]
<1>1. /\ srv[s] = "open" /\ up[s] # <<>> /\ up' = [up EXCEPT ![s] = Tail(@)]
      /\ UNCHANGED <<session, id, srv, conn, cli, fwd, produced>>
  BY DEF ServerReads, linkVars, forwardVars
<1>2. up \in [Conns -> Seq(Message)] /\ up[s] \in Seq(Message) /\ pc \in [Requests -> PCs]
  BY DEF IInv, Types
<1>3. /\ Head(up[s]) = f /\ f \in Range(up[s]) /\ f \in Message
      /\ Len(up'[s]) = Len(up[s]) - 1
      /\ \A k \in 1..Len(up[s]) - 1 : up'[s][k] = up[s][k + 1]
      /\ Range(up'[s]) \subseteq Range(up[s])
  <2>1. up'[s] = Tail(up[s]) BY <1>1, <1>2
  <2> QED BY <1>1, <1>2, <2>1, WireFacts
<1>4. \A w \in Conns : w # s => up'[w] = up[w] BY <1>1, <1>2
<1>5. f.id \in Ids BY <1>3 DEF Message
<1>6. CASE r = NoReq
  <2>1. UNCHANGED <<pc, heard>> BY <1>3, <1>6 DEF ServerReads
  <2> QED BY <1>1, <1>3, <1>4, <1>6, <2>1
<1>7. CASE r # NoReq
  <2>1. r \in Requests /\ session[r] = s /\ id[r] = f.id
    BY <1>5, <1>7 DEF IInv, Types, Mailboxes
  <2>2. /\ heard' = [heard EXCEPT ![r] = Append(@, f)]
        /\ \/ pc[r] = "wait" /\ f.kind = "start" /\ Goto(r, "stream")
           \/ pc[r] = "stream" /\ f.kind = "chunk" /\ UNCHANGED pc
           \/ pc[r] = "wait" /\ f.kind # "start" /\ Goto(r, "done")
           \/ pc[r] = "stream" /\ f.kind # "chunk" /\ Goto(r, "done")
    BY <1>3, <1>7 DEF ServerReads, Finish
  <2> HIDE DEF f, r
  <2>3. /\ \A q \in Requests : q # r => pc'[q] = pc[q]
        /\ \/ pc[r] = "wait" /\ f.kind = "start" /\ pc'[r] = "stream"
           \/ pc[r] = "stream" /\ f.kind = "chunk" /\ pc'[r] = "stream"
           \/ pc[r] = "wait" /\ f.kind # "start" /\ pc'[r] = "done"
           \/ pc[r] = "stream" /\ f.kind # "chunk" /\ pc'[r] = "done"
    BY <1>2, <2>1, <2>2 DEF Goto
  <2> QED BY <1>1, <1>3, <1>4, <2>1, <2>2, <2>3 DEF f, r
<1> QED BY <1>6, <1>7

LEMMA ReadingAnswers ==
  ASSUME IInv, AInv, NEW s \in Conns, ServerReads(s)
  PROVE  AInv'
<1> DEFINE w == up[s]
           f == w[1]
           r == pendingS[s][f.id]
           Heard == /\ r \in Requests /\ session[r] = s /\ id[r] = f.id
                    /\ heard' = [heard EXCEPT ![r] = Append(@, f)]
                    /\ \A q \in Requests : q # r => pc'[q] = pc[q]
                    /\ \/ pc[r] = "wait" /\ f.kind = "start" /\ pc'[r] = "stream"
                       \/ pc[r] = "stream" /\ f.kind = "chunk" /\ pc'[r] = "stream"
                       \/ pc[r] = "wait" /\ f.kind # "start" /\ pc'[r] = "done"
                       \/ pc[r] = "stream" /\ f.kind # "chunk" /\ pc'[r] = "done"
<1>1. /\ srv[s] = "open" /\ Len(up'[s]) = Len(w) - 1
      /\ \A k \in 1..Len(w) - 1 : up'[s][k] = w[k + 1]
      /\ Range(up'[s]) \subseteq Range(w)
      /\ \A x \in Conns : x # s => up'[x] = up[x]
      /\ UNCHANGED <<session, id, srv, conn, cli, fwd, produced>>
      /\ w # <<>> /\ f \in Message /\ f \in Range(w)
      /\ (r = NoReq /\ UNCHANGED <<pc, heard>>) \/ Heard
  BY Delivery
<1>2. /\ produced \in [Requests -> Nat] /\ w \in Seq(Message) /\ Len(w) \in Nat /\ 1 \in 1..Len(w)
      /\ f.by \in Requests /\ f.id \in Ids /\ f.seq \in Nat /\ f = Item(f.id, f.kind, f.seq, f.by)
      /\ heard \in [Requests -> Seq(Message)]
  <2>0. w # <<>> /\ f \in Message BY <1>1
  <2>1. w \in Seq(Message) BY Hearing
  <2>2. heard \in [Requests -> Seq(Message)] BY DEF IInv, Types
  <2> HIDE DEF w, f
  <2>3. Len(w) \in Nat /\ 1 \in 1..Len(w) BY <2>0, <2>1
  <2>4. f.by \in Requests /\ f.id \in Ids /\ f.seq \in Nat
    BY <2>0, ForwardAssumption DEF Message
  <2>5. f = Item(f.id, f.kind, f.seq, f.by) BY <2>0 DEF Message, Item
  <2> QED BY <2>1, <2>2, <2>3, <2>4, <2>5, Hearing
<1>3. Says(f) /\ id[f.by] = f.id BY <1>1 DEF AInv, Answers, IInv, Sources
<1> HIDE DEF w, f, r
(* The handler of a frame's own request is the one that hears it, if it is in flight. *)
<1>4. ASSUME pc[f.by] \in InFlight, session[f.by] = s PROVE r = f.by /\ Heard
  <2>1. pendingS[s][id[f.by]] = f.by
    BY <1>1, <1>2, <1>4 DEF IInv, UniqueInFlight, InFlight
  <2>2. f.by # NoReq BY <1>2 DEF Requests, NoReq
  <2> QED BY <1>1, <1>3, <2>1, <2>2 DEF r
<1>5. Heard => /\ pc[r] \in InFlight /\ heard'[r] = Append(heard[r], f)
               /\ Range(heard'[r]) = Range(heard[r]) \cup {f}
               /\ Len(heard[r]) \in Nat /\ Len(heard'[r]) = Len(heard[r]) + 1
               /\ \A k \in 1..Len(heard[r]) : heard'[r][k] = heard[r][k]
               /\ heard'[r][Len(heard[r]) + 1] = f
               /\ \A q \in Requests : q # r => heard'[q] = heard[q]
  <2> SUFFICES ASSUME Heard
               PROVE  /\ pc[r] \in InFlight /\ heard'[r] = Append(heard[r], f)
                      /\ Range(heard'[r]) = Range(heard[r]) \cup {f}
                      /\ Len(heard[r]) \in Nat /\ Len(heard'[r]) = Len(heard[r]) + 1
                      /\ \A k \in 1..Len(heard[r]) : heard'[r][k] = heard[r][k]
                      /\ heard'[r][Len(heard[r]) + 1] = f
                      /\ \A q \in Requests : q # r => heard'[q] = heard[q]
    OBVIOUS
  <2>1. /\ pc[r] \in InFlight /\ heard'[r] = Append(heard[r], f) /\ r \in Requests
        /\ \A q \in Requests : q # r => heard'[q] = heard[q]
    BY <1>2 DEF InFlight
  <2>2. heard[r] \in Seq(Message) /\ f \in Message BY <1>1, <1>2, <2>1
  <2> HIDE DEF Heard
  <2> QED BY <2>1, <2>2, WireFacts
(* The next frame is the next part of the answer. *)
<1>6. ASSUME Heard, Own(heard'[r], r)
      PROVE  /\ Own(heard[r], r) /\ f.by = r
             /\ f.kind # "fail" => Place(f, produced) = Len(heard[r])
  <2>1. Own(heard[r], r) /\ f.by = r BY <1>5, <1>6 DEF Own
  <2>2. f.kind # "fail" => Place(f, produced) = Len(heard[r])
    BY <1>1, <1>5, <1>6, <2>1, NextPlace DEF f, w
  <2> QED BY <2>1, <2>2
<1>7. \A q \in Requests : \/ heard'[q] = heard[q] /\ pc'[q] = pc[q]
                          \/ q = r /\ Heard
  BY <1>1, <1>5
<1>8. Answers'
  <2>1. \A x \in Conns : \A g \in Range(up'[x]) : g \in Range(up[x]) BY <1>1 DEF w
  <2>2. \A q \in Requests : \A g \in Range(heard'[q]) : g \in Range(heard[q]) \/ g = f
    BY <1>5, <1>7
  <2>3. \A g : Says(g)' <=> Says(g) BY <1>1 DEF Says
  <2>4. ASSUME NEW x \in Conns, NEW j \in 1..Len(up'[x]), NEW k \in 1..Len(up'[x]),
               j < k, up'[x][j].by = up'[x][k].by
        PROVE  Place(up'[x][j], produced) < Place(up'[x][k], produced)
    <3>1. CASE x = s
      <4>1. j + 1 \in 1..Len(w) /\ k + 1 \in 1..Len(w) /\ j + 1 < k + 1
            /\ up'[x][j] = w[j + 1] /\ up'[x][k] = w[k + 1]
        BY <1>1, <1>2, <2>4, <3>1
      <4> QED BY <2>4, <3>1, <4>1 DEF AInv, Answers, w
    <3>2. CASE x # s BY <1>1, <2>4, <3>2 DEF AInv, Answers
    <3> QED BY <3>1, <3>2
  <2>5. \A x \in Conns : \A g \in Range(up'[x]) : Says(g)' BY <2>1, <2>3 DEF AInv, Answers
  <2>6. \A q \in Requests : \A g \in Range(heard'[q]) : Says(g)' /\ id[g.by] = g.id
    BY <1>3, <2>2, <2>3 DEF AInv, Answers
  <2> QED BY <1>1, <2>4, <2>5, <2>6 DEF AInv, Answers
<1>9. Listens'
  <2>1. \A q \in Requests, k \in Nat : Part(q, k - 1)' = Part(q, k - 1)
    BY <1>1 DEF Part, Frame
  <2>2. ASSUME NEW q \in Requests, pc'[q] # "done"
        PROVE  /\ (heard'[q] # <<>>) <=> pc'[q] = "stream"
               /\ \A g \in Range(heard'[q]) : g.kind \in {"start", "chunk"}
               /\ Own(heard'[q], q) => \A k \in 1..Len(heard'[q]) : heard'[q][k] = Part(q, k - 1)
    <3>1. CASE heard'[q] = heard[q] /\ pc'[q] = pc[q] BY <2>2, <3>1 DEF AInv, Listens
    <3>2. CASE q = r /\ Heard
      <4> DEFINE a == Len(heard[r])
      <4>1. pc'[r] = "stream" /\ f.kind \in {"start", "chunk"} /\ pc[r] # "done"
            /\ (pc[r] = "wait" <=> f.kind = "start")
        BY <2>2, <3>2
      <4>2. heard'[r] # <<>>
        <5>1. Len(heard'[r]) # 0 BY <1>5, <3>2
        <5> QED BY <5>1
      <4>3. \A g \in Range(heard'[r]) : g.kind \in {"start", "chunk"}
        BY <1>5, <3>2, <4>1 DEF AInv, Listens
      <4>4. ASSUME Own(heard'[r], r) PROVE f = Part(r, a)
        <5>1. f.by = r /\ Place(f, produced) = a /\ f.id = id[r]
          BY <1>6, <3>2, <4>1, <4>4
        <5>2. f.seq = a BY <4>1, <5>1 DEF Place
        <5>3. CASE f.kind = "start"
          <6>1. a = 0 BY <1>3, <5>2, <5>3 DEF Says
          <6> HIDE DEF a
          <6> QED BY <1>2, <5>1, <5>2, <5>3, <6>1 DEF Part, Frame, Item
        <5>4. CASE f.kind = "chunk"
          <6>1. a # 0
            <7>1. f.seq # 0 BY <1>2, <1>3, <5>4 DEF Says
            <7> QED BY <5>2, <7>1
          <6> HIDE DEF a
          <6> QED BY <1>2, <5>1, <5>2, <5>4, <6>1 DEF Part, Frame, Item
        <5> QED BY <4>1, <5>3, <5>4
      <4>5. ASSUME Own(heard'[r], r), NEW k \in 1..Len(heard'[r])
            PROVE  heard'[r][k] = Part(r, k - 1)
        <5>1. Own(heard[r], r) BY <1>6, <3>2, <4>5
        <5>2. CASE k \in 1..a BY <1>5, <3>2, <4>1, <5>1, <5>2 DEF AInv, Listens
        <5>3. CASE k = a + 1
          <6>1. k - 1 = a BY <1>5, <3>2, <5>3
          <6> QED BY <1>5, <3>2, <4>4, <4>5, <5>3, <6>1
        <5> QED BY <1>5, <3>2, <5>2, <5>3
      <4> QED BY <3>2, <4>1, <4>2, <4>3, <4>5
    <3> QED BY <1>7, <3>1, <3>2
  <2>3. ASSUME NEW q \in Requests, pc'[q] # "done", Own(heard'[q], q), NEW k \in 1..Len(heard'[q])
        PROVE  heard'[q][k] = Part(q, k - 1)'
    <3>1. k \in Nat OBVIOUS
    <3> QED BY <2>1, <2>2, <2>3, <3>1
  <2> QED BY <2>2, <2>3 DEF Listens
<1>10. Flow'
  <2>1. ASSUME NEW q \in Requests, Own(heard'[q], q), pc'[q] \in InFlight, session[q] = s
        PROVE  /\ Own(heard[q], q) /\ pc[q] \in InFlight /\ Len(heard[q]) \in Nat
               /\ \/ f.by = q /\ Place(f, produced) = Len(heard[q]) /\ Len(heard'[q]) = Len(heard[q]) + 1
                  \/ f.by # q /\ Len(heard'[q]) = Len(heard[q])
    <3>1. Len(heard[q]) \in Nat BY Hearing
    <3>2. CASE q = r /\ Heard
      <4>1. f.kind # "fail" BY <2>1, <3>2 DEF InFlight
      <4> QED BY <1>5, <1>6, <2>1, <3>1, <3>2, <4>1
    <3>3. CASE heard'[q] = heard[q] /\ pc'[q] = pc[q] /\ ~(q = r /\ Heard)
      <4>1. f.by # q BY <1>4, <2>1, <3>3
      <4> QED BY <2>1, <3>1, <3>3, <4>1
    <3> QED BY <1>7, <3>2, <3>3
(* What is left has moved up by one. *)
  <2>2. ASSUME NEW q \in Requests, NEW a \in Nat, NEW b \in Nat, NEW k \in 1..Len(w), NEW n,
               Covers(w, produced, q, a, k, n),
               (f.by = q /\ Place(f, produced) = a /\ b = a + 1) \/ (f.by # q /\ b = a)
        PROVE  Covers(up'[s], produced, q, b, k - 1, n)
    <3> SUFFICES ASSUME NEW p \in Nat, b <= p, p < n
                 PROVE  \E j \in 1..k - 1 : up'[s][j].by = q /\ Place(up'[s][j], produced) = p
      BY DEF Covers
    <3>1. a <= p BY <2>2
    <3>2. PICK j \in 1..k : w[j].by = q /\ Place(w[j], produced) = p BY <2>2, <3>1 DEF Covers
    <3>3. j # 1 BY <2>2, <3>2 DEF f
    <3>4. j - 1 \in 1..k - 1 /\ j - 1 \in 1..Len(w) - 1 /\ (j - 1) + 1 = j BY <1>2, <3>3
    <3>5. up'[s][j - 1] = w[j] BY <1>1, <3>4
    <3> QED BY <3>2, <3>4, <3>5
  <2> SUFFICES ASSUME NEW q \in Requests, Own(heard'[q], q), pc'[q] \in InFlight,
                      srv[session[q]] = "open"
               PROVE  LET x == session[q] IN
                      /\ \A k \in 1..Len(up'[x]) :
                            Follows(up'[x], produced, q, Len(heard'[q]), k)
                      /\ fwd[q] = "streaming" /\ conn = x /\ cli[x] = "open" =>
                            Covers(up'[x], produced, q, Len(heard'[q]), Len(up'[x]), produced[q] + 1)
    BY <1>1 DEF Flow
  <2>3. CASE session[q] # s
    <3>1. heard'[q] = heard[q] /\ pc'[q] = pc[q] BY <1>7, <2>3
    <3>2. session[q] \in Conns BY <3>1, Placed DEF Drawn, Begun
    <3>3. up'[session[q]] = up[session[q]] BY <1>1, <2>3, <3>2
    <3> QED BY <3>1, <3>3 DEF AInv, Flow
  <2>4. CASE session[q] = s
    <3> DEFINE a == Len(heard[q])
               b == Len(heard'[q])
    <3>1. /\ Own(heard[q], q) /\ pc[q] \in InFlight /\ a \in Nat
          /\ \/ f.by = q /\ Place(f, produced) = a /\ b = a + 1
             \/ f.by # q /\ b = a
      BY <2>1, <2>4
    <3>2. /\ \A k \in 1..Len(w) : Follows(w, produced, q, a, k)
          /\ fwd[q] = "streaming" /\ conn = s /\ cli[s] = "open" =>
                Covers(w, produced, q, a, Len(w), produced[q] + 1)
      BY <1>1, <2>4, <3>1 DEF AInv, Flow, w
    <3> HIDE DEF a, b
    <3>3. b \in Nat BY <3>1
    <3>4. ASSUME NEW k \in 1..Len(w) - 1 PROVE Follows(up'[s], produced, q, b, k)
      <4> SUFFICES ASSUME w[k + 1].by = q, w[k + 1].kind # "fail"
                   PROVE  /\ b <= Place(w[k + 1], produced)
                          /\ Covers(up'[s], produced, q, b, k - 1, Place(w[k + 1], produced))
        BY <1>1 DEF Follows
      <4>1. k + 1 \in 1..Len(w) /\ k \in 1..Len(w) /\ 1 < k + 1 /\ (k + 1) - 1 = k BY <1>2
      <4>2. a <= Place(w[k + 1], produced) /\ Covers(w, produced, q, a, k, Place(w[k + 1], produced))
        BY <3>2, <4>1 DEF Follows
      <4>3. f.by = q => Place(f, produced) < Place(w[k + 1], produced)
        BY <1>2, <4>1 DEF AInv, Answers, w, f
      <4>4. Place(w[k + 1], produced) \in Nat
        <5>1. w[k + 1] \in Message BY <1>2, <4>1
        <5> QED BY <1>2, <5>1, PlaceIs
      <4>5. Covers(up'[s], produced, q, b, k - 1, Place(w[k + 1], produced))
        BY <2>2, <3>1, <3>3, <4>1, <4>2
      <4> QED BY <3>1, <4>2, <4>3, <4>4, <4>5
    <3>5. fwd[q] = "streaming" /\ conn = s /\ cli[s] = "open" =>
             Covers(up'[s], produced, q, b, Len(w) - 1, produced[q] + 1)
      <4>1. Len(w) \in 1..Len(w) BY <1>2
      <4> QED BY <2>2, <3>1, <3>2, <3>3, <4>1
    <3> QED BY <1>1, <2>4, <3>4, <3>5 DEF b
  <2> QED BY <2>3, <2>4
<1>11. Complete'
  <2> SUFFICES ASSUME NEW q \in Requests, Own(heard'[q], q), heard'[q] # <<>>,
                      Last(heard'[q]).kind = "end"
               PROVE  heard'[q] = Answer(id[q], q, produced[q])
    BY <1>1 DEF Complete
  <2>1. CASE heard'[q] = heard[q] BY <2>1 DEF AInv, Complete
  <2>2. CASE q = r /\ Heard
    <3> DEFINE a == Len(heard[r])
               n == produced[r]
    <3>1. Last(heard'[r]) = f BY <1>5, <2>2 DEF Last
    <3>2. /\ f.by = r /\ f.kind = "end" /\ Own(heard[r], r) /\ Place(f, produced) = a
          /\ pc[r] # "done" /\ a \in Nat /\ r \in Requests /\ f.id = id[r]
      BY <1>5, <1>6, <2>2, <3>1
    <3>3. a = n + 1 /\ f.seq = 0 BY <1>3, <3>2 DEF Place, Says
    <3>4. n \in 0..MaxChunks /\ id[r] \in Ids /\ heard[r] \in Seq(Message)
      BY <3>2 DEF IInv, Types
    <3>5. f = Item(id[r], "end", 0, r) BY <1>2, <3>2, <3>3
    <3>6. \A k \in 1..a : heard[r][k] = Part(r, k - 1) BY <3>2 DEF AInv, Listens
    <3> HIDE DEF a, n
    <3>7. heard[r][1] = Item(id[r], "start", 0, r)
      <4>1. 1 \in 1..a BY <3>3, <3>4, ForwardAssumption
      <4>2. heard[r][1] = Part(r, 1 - 1) BY <3>6, <4>1
      <4>3. 1 - 1 = 0 OBVIOUS
      <4> QED BY <4>2, <4>3 DEF Part, Frame, Item
    <3>8. ASSUME NEW k \in 1..n PROVE heard[r][k + 1] = Item(id[r], "chunk", k, r)
      <4>1. k + 1 \in 1..a /\ (k + 1) - 1 = k /\ k # 0 BY <3>3, <3>4, ForwardAssumption
      <4> QED BY <3>6, <4>1 DEF Part, Frame, Item
    <3>9. Len(heard[r]) = n + 1 BY <3>3 DEF a
    <3>10. Append(heard[r], f) = Answer(id[r], r, n)
      BY <3>2, <3>4, <3>5, <3>7, <3>8, <3>9, AnswerIs
    <3> QED BY <1>5, <2>2, <3>10 DEF n
  <2> QED BY <1>7, <2>1, <2>2
<1> QED BY <1>8, <1>9, <1>10, <1>11 DEF AInv

LEMMA HandlingAnswers ==
  ASSUME IInv, AInv, NEW r \in Requests, Handler(r)
  PROVE  AInv'
<1> USE DEF InFlight, Begun, Drawn, Goto
<1>0. pc \in [Requests -> PCs] /\ session \in [Requests -> 0..MaxConn] /\ id \in [Requests -> Ids]
  BY DEF IInv, Types
<1>1. CASE Arrive(r) \/ NextReqID(r) \/ RegisterPending(r)
  <2>1. /\ UNCHANGED <<heard, produced, up, srv, conn, cli, fwd>>
        /\ \/ /\ pc[r] = "idle" /\ pc' = [pc EXCEPT ![r] = "draw"] /\ UNCHANGED id
              /\ session' = [session EXCEPT ![r] = online]
           \/ /\ pc[r] = "draw" /\ pc' = [pc EXCEPT ![r] = "register"] /\ UNCHANGED session
              /\ \E i \in Ids : id' = [id EXCEPT ![r] = i]
           \/ pc[r] = "register" /\ pc' = [pc EXCEPT ![r] = "start"] /\ UNCHANGED <<session, id>>
    BY <1>1 DEF Arrive, NextReqID, RegisterPending, serverVars, linkVars, forwardVars
  <2>2. \A q \in Requests : q # r => pc'[q] = pc[q] /\ session'[q] = session[q] /\ id'[q] = id[q]
    BY <1>0, <2>1
  <2>3. \/ pc[r] = "idle" /\ pc'[r] = "draw"
        \/ pc[r] = "draw" /\ pc'[r] = "register" /\ session'[r] = session[r]
        \/ pc[r] = "register" /\ pc'[r] = "start" /\ session'[r] = session[r] /\ id'[r] = id[r]
    BY <1>0, <2>1
  <2> QED BY <2>1, <2>2, <2>3, AnswersKept
<1>2. CASE Sending(r)
  <2>1. /\ pc[r] \in InFlight /\ pc'[r] \in Begun
        /\ \A q \in Requests : q # r => pc'[q] = pc[q]
        /\ UNCHANGED <<session, id, heard, srv, up, conn, cli, fwd, produced>>
        /\ pc'[r] = "done" \/ (pc[r] \in {"start", "upload"} /\ pc'[r] \in {"upload", "wait"})
    BY <1>2, SendStep DEF linkVars, forwardVars
  <2> QED BY <2>1, AnswersKept
<1> QED BY <1>1, <1>2 DEF Handler, Sending

LEMMA ForwardingAnswers ==
  ASSUME IInv, AInv, NEW r \in Requests, Forward(r)
  PROVE  AInv'
<1>0. fwd \in [Requests -> FwdStates] BY DEF IInv, Types
<1>1. CASE TakeSlot(r) \/ RegisterCancel(r) \/ Leave(r)
  <2>1. /\ UNCHANGED <<pc, session, id, heard, produced, up, srv, conn, cli>>
        /\ \/ fwd[r] = "waiting" /\ fwd' = [fwd EXCEPT ![r] = "slot"]
           \/ fwd[r] = "slot" /\ fwd' = [fwd EXCEPT ![r] = "asking"]
           \/ fwd[r] = "leaving" /\ fwd' = [fwd EXCEPT ![r] = "finished"]
    BY <1>1 DEF TakeSlot, RegisterCancel, Leave, GotoF, handlerVars, serverVars, linkVars
  <2>2. \A q \in Requests : q # r => fwd'[q] = fwd[q] BY <1>0, <2>1
  <2>3. \/ fwd[r] = "waiting" /\ fwd'[r] = "slot"
        \/ fwd[r] = "slot" /\ fwd'[r] = "asking"
        \/ fwd[r] = "leaving" /\ fwd'[r] = "finished"
    BY <1>0, <2>1
  <2> QED BY <2>1, <2>2, <2>3, AnswersKept DEF Answered
<1>2. CASE Answering(r) BY <1>2, AnsweringAnswers
<1> QED BY <1>1, <1>2 DEF Forward, Answering

LEMMA LinkingAnswers ==
  ASSUME IInv, AInv, (\E s \in Conns : ServerCloses(s)) \/ ClientCloses \/ Redial
  PROVE  AInv'
<1> USE DEF handlerVars, serverVars, linkVars, forwardVars
<1>0. /\ up \in [Conns -> Seq(Message)] /\ srv \in [Conns -> {"none", "open", "closed"}]
      /\ cli \in [Conns -> {"none", "open", "broken", "closed"}] /\ conn \in 0..MaxConn
  BY DEF IInv, Types
<1>1. \A q \in Requests : pc[q] \in Begun => session[q] \in Conns /\ session[q] \in 1..conn
  BY Placed DEF Drawn
<1>2. ASSUME NEW s \in Conns, ServerCloses(s) PROVE AInv'
  <2>1. /\ UNCHANGED <<pc, session, id, heard, produced, conn, cli, fwd>>
        /\ up' = [up EXCEPT ![s] = <<>>] /\ srv' = [srv EXCEPT ![s] = "closed"]
    BY <1>2 DEF ServerCloses
  <2>2. \A x \in Conns : up'[x] = up[x] \/ (up'[x] = <<>> /\ srv'[x] # "open")
    BY <1>0, <2>1
  <2>3. \A x \in Conns : srv'[x] = "open" => srv[x] = "open" BY <1>0, <2>1
  <2> QED BY <1>1, <2>1, <2>2, <2>3, AnswersKept
<1>3. CASE ClientCloses
  <2>1. /\ UNCHANGED <<pc, session, id, heard, produced, conn, fwd, up, srv>>
        /\ cli' = [cli EXCEPT ![conn] = "closed"]
    BY <1>3 DEF ClientCloses
  <2>2. \A x \in Conns : cli'[x] = "open" => cli[x] = "open" BY <1>0, <2>1
  <2> QED BY <1>1, <2>1, <2>2, AnswersKept
<1>4. CASE Redial
  <2>1. /\ UNCHANGED <<pc, session, id, heard, produced, fwd, up>> /\ conn' = conn + 1
        /\ cli' = [cli EXCEPT ![conn + 1] = "open"] /\ srv' = [srv EXCEPT ![conn + 1] = "open"]
    BY <1>4 DEF Redial
  <2>2. \A q \in Requests : pc[q] \in Begun => session[q] # conn' /\ srv'[session[q]] = srv[session[q]]
    <3>1. \A q \in Requests : pc[q] \in Begun => session[q] # conn + 1
      BY <1>0, <1>1, ForwardAssumption
    <3> QED BY <1>0, <1>1, <2>1, <3>1
  <2> QED BY <2>1, <2>2, AnswersKept
<1> QED BY <1>2, <1>3, <1>4

LEMMA DispatchingAnswers ==
  ASSUME IInv, UInv, AInv, ClientReads
  PROVE  AInv'
<1> DEFINE h == down[conn][1]
<1>1. /\ conn \in Conns /\ 1 \in 1..Len(down[conn]) /\ ReadEffect(h)
      /\ UNCHANGED <<pc, session, id, heard, srv, up, conn, cli, produced>>
  BY ReadBody DEF handlerVars, serverVars, linkVars
<1>2. h \in Range(down[conn]) /\ h.by \in Requests BY <1>1, Frames
<1>3. fwd \in [Requests -> FwdStates] BY DEF IInv, Types
<1>4. h.kind \in {"end", "nobody"} => fwd[h.by] = "none"
  BY <1>1, <1>2 DEF UInv, Uploads
<1> HIDE DEF h
<1>5. UNCHANGED fwd \/ (h.kind \in {"end", "nobody"} /\ fwd' = [fwd EXCEPT ![h.by] = "waiting"])
  BY <1>1 DEF ReadEffect, Dispatch
<1>6. \A q \in Requests : /\ fwd'[q] \in Answered <=> fwd[q] \in Answered
                          /\ fwd'[q] = "streaming" <=> fwd[q] = "streaming"
                          /\ fwd'[q] \in {"leaving", "finished"} <=> fwd[q] \in {"leaving", "finished"}
  BY <1>2, <1>3, <1>4, <1>5 DEF Answered
<1> QED BY <1>1, <1>6, AnswersKept

LEMMA InitAInv == Init => AInv
<1> SUFFICES ASSUME Init PROVE AInv
  OBVIOUS
<1>1. Len(<<>>) = 0 OBVIOUS
<1>2. Answers BY <1>1, NothingSent DEF Init, Answers
<1>3. Listens BY <1>1, NothingSent DEF Init, Listens
<1>4. Flow BY DEF Init, Flow, InFlight
<1>5. Complete BY DEF Init, Complete
<1> QED BY <1>2, <1>3, <1>4, <1>5 DEF AInv

LEMMA StepAInv == IInv /\ UInv /\ AInv /\ [Next]_vars => AInv'
<1> SUFFICES ASSUME IInv, UInv, AInv, [Next]_vars PROVE AInv'
  OBVIOUS
<1>1. CASE UNCHANGED vars
  BY <1>1, AnswersKept DEF vars, handlerVars, serverVars, linkVars, forwardVars
<1> QED BY <1>1, HandlingAnswers, ForwardingAnswers, LinkingAnswers, ReadingAnswers,
           DispatchingAnswers DEF Next

(***************************************************************************)
(* A handler that has heard its own forward only and then an end has the   *)
(* head of the answer and every chunk the target produced, in order, for   *)
(* any number of requests, IDs, connections and chunks: frames are dropped *)
(* only when the answer cannot end well any more, and a forward that       *)
(* cannot write says no end (forward, sendFrame, routeResponse).           *)
(***************************************************************************)
THEOREM AnsweredWhole == Spec => []CleanEndComplete
<1>1. Init => IInv /\ UInv /\ AInv BY InitIInv, InitUInv, InitAInv
<1>2. IInv /\ UInv /\ AInv /\ [Next]_vars => (IInv /\ UInv /\ AInv)'
  BY StepIInv, StepUInv, StepAInv
<1>3. IInv /\ UInv /\ AInv => CleanEndComplete BY Completes DEF AInv
<1> QED BY <1>1, <1>2, <1>3, PTL DEF Spec
=============================================================================
