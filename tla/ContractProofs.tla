----------------------------- MODULE ContractProofs -----------------------------
(***************************************************************************)
(* The relay implements its contract (RelayContract): what a caller gets   *)
(* is a prefix of what the tunnel client sent, and a body that ends        *)
(* normally is complete or its shortness is one of those the contract      *)
(* excuses, for any number of requests and chunks and any sizes of the     *)
(* send queue, the mailboxes and the wire.                                 *)
(*                                                                         *)
(* A chunk passes the wire, the reader's hands and a mailbox.  The         *)
(* invariant follows it through all three, in five parts:                  *)
(*   AskInv    the client is asked once for each request, in order, and    *)
(*             a handler listens until it has decided (Attentive,          *)
(*             AskedOnce, QueueOrder);                                     *)
(*   FrameInv  frames say what the client has done, a closed connection    *)
(*             carries none, and a handler that still listens loses its    *)
(*             mailbox to the teardown only (FramesSound, WireClosed,      *)
(*             WokenLate);                                                 *)
(*   InOrder   for a handler that listens, mailbox, reader and wire hold   *)
(*             together all the frames from the expected one to the last   *)
(*             one sent, in order; after it stops listening frames may be  *)
(*             lost, and are;                                              *)
(*   Delivered what was written to the caller, and when it is complete;    *)
(*   Accounted why a handler returns before the answer is complete.        *)
(***************************************************************************)
EXTENDS RelayProofs

Listening(r) == outcome[r] = "none"
Sending(r) == pc[r] \in {"check", "select"}
Streaming == {"stream", "write"}
Awaiting  == {"first"} \cup Streaming
USE DEF Streaming, Awaiting

(* The handler has not sent request_start; it is sending the body; it is past that. *)
Unasked(r)   == pc[r] \in Early \/ (Sending(r) /\ op[r] = "start")
Uploading(r) == pc[r] = "upload" \/ (Sending(r) /\ op[r] \in {"chunk", "end"})
Calling(r)   == pc[r] \in Awaiting \/ (Sending(r) /\ op[r] = "cancel")

Queued(r) == {i \in 1..Len(sendQ) : sendQ[i].req = r}
InUpload == {"none", "assembling"}

(* A handler listens exactly until it has decided how the response ends. *)
Attentive ==
    \A r \in Requests :
        /\ Unasked(r) \/ Uploading(r) \/ pc[r] \in Awaiting => Listening(r)
        /\ Listening(r) => Unasked(r) \/ Uploading(r) \/ pc[r] \in Awaiting
        /\ Sending(r) => op[r] # "none"

(* What is queued for a request fits where its handler is. *)
AskedOnce ==
    \A r \in Requests :
        /\ Unasked(r) => peer[r] = "none" /\ Queued(r) = {}
        /\ Uploading(r) => /\ r \in WithBody /\ peer[r] \in InUpload
                           /\ \A i \in Queued(r) : sendQ[i].kind \in {"start", "chunk"}
        /\ Calling(r) => \A i \in Queued(r) : sendQ[i].kind # "cancel"

(* One start, then the body, its end, and cancel as the last word. *)
QueueOrder ==
    /\ \A i \in 1..Len(sendQ) :
          /\ sendQ[i].kind = "start" => peer[sendQ[i].req] = "none"
          /\ sendQ[i].kind = "end" => /\ sendQ[i].req \in WithBody
                                      /\ peer[sendQ[i].req] \in InUpload
    /\ \A i, j \in 1..Len(sendQ) :
          i < j /\ sendQ[i].req = sendQ[j].req =>
              /\ sendQ[j].kind # "start" /\ sendQ[i].kind # "cancel"
              /\ sendQ[i].kind = "end" => sendQ[j].kind = "cancel"

Answering == {"streaming", "stopped"}
Final == {"end", "fail", "bad"}

(* What a frame says of its request, for peers p, numbers n of chunks sent *)
(* and a set e of requests whose answers failed.                           *)
SoundIn(f, p, n, e) ==
    /\ p[f.req] \in Answering
    /\ f.kind = "start" => f.seq = 0
    /\ f.kind = "chunk" => f.seq \in 1..n[f.req]
    /\ f.kind \in Final => p[f.req] = "stopped" /\ f.seq \in {0, n[f.req] + 1}
    /\ f.kind \in {"fail", "bad"} => f.req \in e

(* Every frame on its way says what its client has done. *)
FramesSound ==
    /\ \A i \in 1..Len(wire) : SoundIn(wire[i], peer, sent, failed)
    /\ held # NoFrame => SoundIn(held, peer, sent, failed)
    /\ \A r \in Requests : \A i \in 1..Len(mail[r]) :
          SoundIn(mail[r][i], peer, sent, failed) /\ mail[r][i].req = r
    /\ \A r \in Requests : peer[r] \notin Answering => sent[r] = 0
    /\ \A r \in Requests : pc[r] \in Streaming \/ outcome[r] = "end" => peer[r] \in Answering

(* done is closed only once nothing can be read from the connection. *)
WireClosed == done => wire = <<>>

(* Until its handler has decided, only close() ends a mailbox. *)
WokenLate == \A r \in Requests : over[r] /\ Listening(r) => Detached

(* The place the handler expects next, and the places after its mailbox *)
(* and after the frame the reader holds.                                *)
Expected(r) == IF pc[r] \in Streaming THEN Len(got[r]) + 1 ELSE 0
AfterMail(r) == Expected(r) + Len(mail[r])
AfterHeld(r) == IF held # NoFrame /\ held.req = r THEN AfterMail(r) + 1 ELSE AfterMail(r)

(* The mailbox, the held frame and the wire go on from there, with no place *)
(* missing before a frame on the wire, nor before the last one sent.       *)
MailInOrder(r) == \A i \in 1..Len(mail[r]) : mail[r][i].seq = Expected(r) + i - 1
HeldInOrder(r) == held # NoFrame /\ held.req = r => held.seq = AfterMail(r)
WireGrows(r) == \A i, j \in 1..Len(wire) :
    i < j /\ wire[i].req = r /\ wire[j].req = r => wire[i].seq < wire[j].seq
WireFrom(r) == \A i \in 1..Len(wire) : wire[i].req = r =>
    /\ AfterHeld(r) <= wire[i].seq
    /\ \A p \in AfterHeld(r)..wire[i].seq-1 :
          \E j \in 1..i-1 : wire[j].req = r /\ wire[j].seq = p
WireTo(r) == peer[r] = "streaming" /\ ~done =>
    /\ AfterHeld(r) <= sent[r] + 1
    /\ \A p \in AfterHeld(r)..sent[r] :
          \E j \in 1..Len(wire) : wire[j].req = r /\ wire[j].seq = p

InOrder == \A r \in Requests : Listening(r) =>
    /\ pc[r] \notin Streaming => got[r] = <<>>
    /\ MailInOrder(r) /\ HeldInOrder(r) /\ WireGrows(r) /\ WireFrom(r) /\ WireTo(r)

(* A complete end, and why else a handler just returns. *)
Ended == \A r \in Requests : outcome[r] = "end" => peer[r] = "stopped" /\ Len(got[r]) = sent[r]
Accounted == \A r \in Requests :
    /\ outcome[r] \in {"fail", "bad"} => r \in failed
    /\ outcome[r] = "dropped" => closed
    /\ outcome[r] = "left" => gone[r]

-----------------------------------------------------------------------------
(* What a channel with a buffer gains by a send and loses by a receive. *)
LEMMA AppendFacts ==
  ASSUME NEW S, NEW q \in Seq(S), NEW x \in S
  PROVE  /\ Append(q, x) \in Seq(S) /\ Len(q) \in Nat
         /\ Len(Append(q, x)) = Len(q) + 1
         /\ Append(q, x)[Len(q) + 1] = x
         /\ \A i \in 1..Len(q) : Append(q, x)[i] = q[i] /\ q[i] \in S
OBVIOUS

LEMMA TailFacts ==
  ASSUME NEW S, NEW q \in Seq(S), q # <<>>
  PROVE  /\ Tail(q) \in Seq(S) /\ Len(q) \in Nat \ {0}
         /\ Len(Tail(q)) = Len(q) - 1
         /\ Head(q) = q[1] /\ q[1] \in S
         /\ \A i \in 1..Len(q)-1 : Tail(q)[i] = q[i + 1] /\ q[i + 1] \in S
OBVIOUS

AskInv == Attentive /\ AskedOnce /\ QueueOrder

(* One handler moves on, and the queue and the client stay as they are. *)
LEMMA HandlerMoves ==
  ASSUME TypeOK, AskInv, NEW r \in Requests, UNCHANGED <<sendQ, peer>>,
         \A x \in Requests \ {r} :
             pc'[x] = pc[x] /\ op'[x] = op[x] /\ outcome'[x] = outcome[x],
         Unasked(r)' => Unasked(r), Uploading(r)' => Uploading(r),
         Calling(r)' => Unasked(r) \/ Uploading(r) \/ Calling(r),
         (Unasked(r) \/ Uploading(r) \/ pc[r] \in Awaiting)' <=> Listening(r)',
         Sending(r)' => op'[r] # "none"
  PROVE  AskInv'
<1>1. \A x \in Requests \ {r} :
        /\ Unasked(x)' <=> Unasked(x)
        /\ Uploading(x)' <=> Uploading(x)
        /\ Calling(x)' <=> Calling(x)
        /\ Listening(x)' <=> Listening(x)
        /\ Sending(x)' <=> Sending(x)
  BY DEF Unasked, Uploading, Calling, Listening, Sending
<1>2. Attentive' BY <1>1 DEF AskInv, Attentive, Unasked, Uploading, Sending, Listening
<1>3. \A x \in Requests : Queued(x)' = Queued(x) BY DEF Queued
<1>4. AskedOnce'
  BY <1>1, <1>3 DEF AskInv, AskedOnce, Queued
<1>5. QueueOrder' BY DEF AskInv, QueueOrder
<1> QED BY <1>2, <1>4, <1>5 DEF AskInv

(* The steps of a handler, but for the send that succeeds. *)
LEMMA HandlerAsks ==
  ASSUME TypeOK, AskInv, NEW r \in Requests,
         \/ Arrive(r) \/ RegisterPending(r) \/ SendCheck(r) \/ SendAborts(r)
         \/ UploadChunk(r) \/ UploadEnds(r) \/ FirstFrame(r) \/ StreamFrame(r)
         \/ WriteReturns(r) \/ Dropped(r) \/ TimesOut(r) \/ Finish(r)
  PROVE  AskInv'
<1> DEFINE Takes(x) ==
      /\ UNCHANGED <<sendQ, peer>>
      /\ \A y \in Requests \ {x} :
             pc'[y] = pc[y] /\ op'[y] = op[y] /\ outcome'[y] = outcome[y]
      /\ Unasked(x)' => Unasked(x)
      /\ Uploading(x)' => Uploading(x)
      /\ Calling(x)' => Unasked(x) \/ Uploading(x) \/ Calling(x)
      /\ (Unasked(x) \/ Uploading(x) \/ pc[x] \in Awaiting)' <=> Listening(x)'
      /\ Sending(x)' => op'[x] # "none"
<1>0. Takes(r) => AskInv' BY HandlerMoves
<1> USE DEF TypeOK, AskInv, Attentive, AskedOnce, Unasked, Uploading, Calling, Listening,
            Sending, Early, mailVars, peerVars, Goto, Send, Sent, Decide
<1>1. CASE Arrive(r)
  <2>1. Takes(r) BY <1>1 DEF Arrive
  <2> QED BY <2>1, <1>0
<1>2. CASE RegisterPending(r)
  <2>1. Takes(r) BY <1>2 DEF RegisterPending
  <2> QED BY <2>1, <1>0
<1>3. CASE SendCheck(r)
  <2>1. CASE SendFailed(r) /\ op[r] = "cancel"
    <3>1. Takes(r) BY <1>3, <2>1 DEF SendCheck, SendFailed
    <3> QED BY <3>1, <1>0
  <2>2. CASE SendFailed(r) /\ op[r] # "cancel"
    <3>1. Takes(r) BY <1>3, <2>2 DEF SendCheck, SendFailed, Ops
    <3> QED BY <3>1, <1>0
  <2>3. CASE Goto(r, "select") /\ UNCHANGED <<op, outcome>>
    <3>1. Takes(r) BY <1>3, <2>3 DEF SendCheck
    <3> QED BY <3>1, <1>0
  <2> QED BY <1>3, <2>1, <2>2, <2>3 DEF SendCheck
<1>4. CASE SendAborts(r)
  <2>1. CASE SendFailed(r) /\ op[r] = "cancel"
    <3>1. Takes(r) BY <1>4, <2>1 DEF SendAborts, SendFailed
    <3> QED BY <3>1, <1>0
  <2>2. CASE SendFailed(r) /\ op[r] # "cancel"
    <3>1. Takes(r) BY <1>4, <2>2 DEF SendAborts, SendFailed, Ops
    <3> QED BY <3>1, <1>0
  <2> QED BY <1>4, <2>1, <2>2 DEF SendAborts
<1>5. CASE UploadChunk(r)
  <2>1. Takes(r) BY <1>5 DEF UploadChunk
  <2> QED BY <2>1, <1>0
<1>6. CASE UploadEnds(r)
  <2>1. Takes(r) BY <1>6 DEF UploadEnds
  <2> QED BY <2>1, <1>0
<1>7. CASE FirstFrame(r)
  <2>1. Takes(r) BY <1>7 DEF FirstFrame
  <2> QED BY <2>1, <1>0
<1>8. CASE StreamFrame(r)
  <2>1. Takes(r) BY <1>8 DEF StreamFrame
  <2> QED BY <2>1, <1>0
<1>9. CASE Dropped(r)
  <2>1. Takes(r) BY <1>9 DEF Dropped
  <2> QED BY <2>1, <1>0
<1>10. CASE TimesOut(r)
  <2>1. Takes(r) BY <1>10 DEF TimesOut
  <2> QED BY <2>1, <1>0
<1>11. CASE Finish(r)
  <2>1. Takes(r) BY <1>11 DEF Finish
  <2> QED BY <2>1, <1>0
<1>12. CASE WriteReturns(r)
  <2>1. Takes(r) BY <1>12 DEF WriteReturns
  <2> QED BY <2>1, <1>0
<1> QED BY <1>1, <1>2, <1>3, <1>4, <1>5, <1>6, <1>7, <1>8, <1>9, <1>10, <1>11, <1>12

(* The send that succeeds. *)
LEMMA EnqueueAsks ==
  ASSUME TypeOK, AskInv, NEW r \in Requests, SendEnqueue(r)
  PROVE  AskInv'
<1> DEFINE f == [req |-> r, kind |-> op[r]]
           n == Len(sendQ) + 1
<1>1. pc[r] = "select" /\ op[r] \in {"start", "chunk", "end", "cancel"} /\ UNCHANGED <<outcome, peer>>
  BY DEF SendEnqueue, peerVars
<1>2. sendQ \in Seq(QFrame) /\ f \in QFrame /\ sendQ' = Append(sendQ, f)
  BY <1>1 DEF TypeOK, QFrame, Ops, SendEnqueue
<1>3. /\ Len(sendQ) \in Nat /\ Len(sendQ') = n
      /\ sendQ'[n].req = r /\ sendQ'[n].kind = op[r]
      /\ \A i \in 1..Len(sendQ) : sendQ'[i] = sendQ[i]
  <2> HIDE DEF f
  <2>1. /\ Len(sendQ) \in Nat /\ Len(sendQ') = n
        /\ sendQ'[n] = f
        /\ \A i \in 1..Len(sendQ) : sendQ'[i] = sendQ[i]
    BY <1>2, AppendFacts
  <2> QED BY <2>1 DEF f
<1>4. /\ \A x \in Requests \ {r} : pc'[x] = pc[x] /\ op'[x] = op[x]
      /\ op'[r] = "none"
      /\ pc'[r] = CASE op[r] = "start"  -> IF r \in WithBody THEN "upload" ELSE "first"
                   [] op[r] = "chunk"  -> "upload"
                   [] op[r] = "end"    -> "first"
                   [] op[r] = "cancel" -> "finish"
  BY <1>1 DEF SendEnqueue, Sent, Goto, TypeOK
<1> HIDE DEF f
<1>5. \A x \in Requests \ {r} :
        /\ Unasked(x)' <=> Unasked(x)
        /\ Uploading(x)' <=> Uploading(x)
        /\ Calling(x)' <=> Calling(x)
        /\ Sending(x)' <=> Sending(x)
  BY <1>4 DEF Unasked, Uploading, Calling, Sending
<1>6. Attentive'
  <2>1. \A x \in Requests : Listening(x)' <=> Listening(x) BY <1>1 DEF Listening
  <2>2. pc'[r] \in {"upload", "first", "finish"} /\ (pc'[r] = "finish" <=> op[r] = "cancel")
    BY <1>1, <1>4
  <2>3. /\ ~Unasked(r)' /\ ~Sending(r)'
        /\ Uploading(r)' <=> pc'[r] = "upload"
    BY <2>2 DEF Unasked, Uploading, Sending, Early
  <2>4. Listening(r) <=> op[r] # "cancel"
    BY <1>1 DEF AskInv, Attentive, Unasked, Uploading, Sending, Early
  <2> QED BY <1>4, <1>5, <2>1, <2>2, <2>3, <2>4 DEF AskInv, Attentive
<1>7. QueueOrder'
  <2>1. /\ op[r] = "start" => peer[r] = "none" /\ Queued(r) = {}
        /\ op[r] \in {"chunk", "end"} => /\ r \in WithBody /\ peer[r] \in InUpload
                                       /\ \A i \in Queued(r) : sendQ[i].kind \in {"start", "chunk"}
        /\ op[r] = "cancel" => \A i \in Queued(r) : sendQ[i].kind # "cancel"
    BY <1>1 DEF AskInv, AskedOnce, Unasked, Uploading, Calling, Sending
  <2>2. \A i \in 1..Len(sendQ') : i \in 1..Len(sendQ) \/ i = n
    BY <1>3
  <2>3. ASSUME NEW i \in 1..Len(sendQ')
        PROVE  /\ sendQ'[i].kind = "start" => peer'[sendQ'[i].req] = "none"
               /\ sendQ'[i].kind = "end" => /\ sendQ'[i].req \in WithBody
                                            /\ peer'[sendQ'[i].req] \in InUpload
    BY <1>1, <1>3, <2>1, <2>2, <2>3 DEF AskInv, QueueOrder
  <2>4. ASSUME NEW i \in 1..Len(sendQ'), NEW j \in 1..Len(sendQ'),
               i < j, sendQ'[i].req = sendQ'[j].req
        PROVE  /\ sendQ'[j].kind # "start" /\ sendQ'[i].kind # "cancel"
               /\ sendQ'[i].kind = "end" => sendQ'[j].kind = "cancel"
    <3>1. i \in 1..Len(sendQ) BY <1>3, <2>2, <2>4
    <3>2. CASE j \in 1..Len(sendQ) BY <3>1, <3>2, <1>3, <2>4 DEF AskInv, QueueOrder
    <3>3. CASE j = n
      <4>1. i \in Queued(r) BY <3>1, <3>3, <1>3, <2>4 DEF Queued
      <4> QED BY <4>1, <3>1, <3>3, <1>1, <1>3, <2>1
    <3> QED BY <2>2, <3>2, <3>3
  <2> QED BY <2>3, <2>4 DEF QueueOrder
<1>8. AskedOnce'
  <2>1. \A x \in Requests \ {r} : Queued(x)' = Queued(x)
    BY <1>3 DEF Queued
  <2>2. ASSUME NEW x \in Requests \ {r}
        PROVE  /\ Unasked(x)' => peer'[x] = "none" /\ Queued(x)' = {}
               /\ Uploading(x)' => /\ x \in WithBody /\ peer'[x] \in InUpload
                                   /\ \A i \in Queued(x)' : sendQ'[i].kind \in {"start", "chunk"}
               /\ Calling(x)' => \A i \in Queued(x)' : sendQ'[i].kind # "cancel"
    <3>1. \A i \in Queued(x) : sendQ'[i] = sendQ[i] BY <1>3 DEF Queued
    <3> QED BY <3>1, <2>1, <1>1, <1>5 DEF AskInv, AskedOnce
  <2>3. Queued(r)' \subseteq Queued(r) \cup {n} BY <1>3 DEF Queued
  <2>4. \A i \in Queued(r) : sendQ'[i] = sendQ[i] BY <1>3 DEF Queued
  <2>5. CASE op[r] = "start"
    <3>1. peer[r] = "none" /\ Queued(r) = {}
      BY <1>1, <2>5 DEF AskInv, AskedOnce, Unasked, Sending
    <3>2. \A i \in Queued(r)' : sendQ'[i].kind = "start" BY <3>1, <2>3, <2>5, <1>3
    <3>3. pc'[r] = IF r \in WithBody THEN "upload" ELSE "first" BY <1>4, <2>5
    <3> QED BY <3>1, <3>2, <3>3, <2>2, <1>1
            DEF AskedOnce, Unasked, Uploading, Calling, Sending, Early, InUpload
  <2>6. CASE op[r] \in {"chunk", "end"}
    <3>1. /\ r \in WithBody /\ peer[r] \in InUpload
          /\ \A i \in Queued(r) : sendQ[i].kind \in {"start", "chunk"}
      BY <1>1, <2>6 DEF AskInv, AskedOnce, Uploading, Sending
    <3>2. \A i \in Queued(r)' : sendQ'[i].kind \in {"start", "chunk", op[r]}
      BY <3>1, <2>3, <2>4, <1>3
    <3>3. pc'[r] = IF op[r] = "chunk" THEN "upload" ELSE "first" BY <1>4, <2>6
    <3> QED BY <3>1, <3>2, <3>3, <2>2, <2>6, <1>1
            DEF AskedOnce, Unasked, Uploading, Calling, Sending, Early
  <2>7. CASE op[r] = "cancel"
    <3>1. pc'[r] = "finish" BY <1>4, <2>7
    <3> QED BY <3>1, <2>2 DEF AskedOnce, Unasked, Uploading, Calling, Sending, Early
  <2> QED BY <1>1, <2>5, <2>6, <2>7
<1> QED BY <1>6, <1>7, <1>8 DEF AskInv

(* The writer takes a frame; the client may now have a request in full. *)
LEMMA WriterAsks ==
  ASSUME TypeOK, AskInv, sendQ # <<>>, sendQ' = Tail(sendQ),
         UNCHANGED <<pc, op, outcome>>,
         LET r == Head(sendQ).req  k == Head(sendQ).kind IN
             /\ \A x \in Requests \ {r} : peer'[x] = peer[x]
             /\ \/ UNCHANGED peer
                \/ k = "start" /\ peer'[r] = IF r \in WithBody THEN "assembling" ELSE "ready"
                \/ k \in {"end", "cancel"}
  PROVE  AskInv'
<1> DEFINE r == Head(sendQ).req
           k == Head(sendQ).kind
<1>1. /\ Len(sendQ) \in Nat \ {0} /\ Len(sendQ') = Len(sendQ) - 1
      /\ Head(sendQ) = sendQ[1] /\ sendQ[1] \in QFrame
      /\ \A i \in 1..Len(sendQ') : /\ sendQ'[i] = sendQ[i + 1] /\ i + 1 \in 1..Len(sendQ)
                                 /\ sendQ[i + 1] \in QFrame
  BY TailFacts DEF TypeOK
<1>2. r \in Requests /\ 1 \in Queued(r) /\ r = sendQ[1].req /\ k = sendQ[1].kind
  BY <1>1 DEF QFrame, Queued
<1>3. \A x \in Requests : \A i \in Queued(x)' : i + 1 \in Queued(x) /\ sendQ'[i] = sendQ[i + 1]
  BY <1>1 DEF Queued
<1>4. /\ \A x \in Requests \ {r} : peer'[x] = peer[x]
      /\ \/ UNCHANGED peer
         \/ k = "start" /\ peer'[r] = IF r \in WithBody THEN "assembling" ELSE "ready"
         \/ k \in {"end", "cancel"}
  OBVIOUS
<1>5. /\ ~Unasked(r)
      /\ k \in {"end", "cancel"} => ~Uploading(r)
      /\ \A i \in 1..Len(sendQ) : sendQ[i].req = r /\ i > 1 =>
            /\ sendQ[i].kind # "start" /\ k # "cancel"
            /\ k = "end" => sendQ[i].kind = "cancel"
  <2>1. ~Unasked(r) BY <1>2 DEF AskInv, AskedOnce
  <2>2. k \in {"end", "cancel"} => ~Uploading(r) BY <1>2 DEF AskInv, AskedOnce
  <2>3. \A i \in 1..Len(sendQ) : sendQ[i].req = r /\ i > 1 =>
            /\ sendQ[i].kind # "start" /\ k # "cancel"
            /\ k = "end" => sendQ[i].kind = "cancel"
    BY <1>1, <1>2 DEF AskInv, QueueOrder
  <2> QED BY <2>1, <2>2, <2>3
<1> HIDE DEF r, k
<1>6. \A x \in Requests :
        /\ Unasked(x)' <=> Unasked(x)
        /\ Uploading(x)' <=> Uploading(x)
        /\ Calling(x)' <=> Calling(x)
        /\ Sending(x)' <=> Sending(x)
        /\ Listening(x)' <=> Listening(x)
  BY DEF Unasked, Uploading, Calling, Sending, Listening
<1>7. Attentive' BY <1>6 DEF AskInv, Attentive
<1>8. AskedOnce'
  <2> SUFFICES ASSUME NEW x \in Requests
               PROVE  /\ Unasked(x) => peer'[x] = "none" /\ Queued(x)' = {}
                      /\ Uploading(x) => /\ x \in WithBody /\ peer'[x] \in InUpload
                                         /\ \A i \in Queued(x)' : sendQ'[i].kind \in {"start", "chunk"}
                      /\ Calling(x) => \A i \in Queued(x)' : sendQ'[i].kind # "cancel"
    BY <1>6 DEF AskedOnce
  <2>1. Unasked(x) => peer'[x] = "none" /\ Queued(x)' = {}
    BY <1>3, <1>4, <1>5 DEF AskInv, AskedOnce
  <2>2. Uploading(x) => peer'[x] \in InUpload
    <3>1. Uploading(x) => x \in WithBody /\ peer[x] \in InUpload BY DEF AskInv, AskedOnce
    <3> QED BY <3>1, <1>4, <1>5 DEF InUpload
  <2>3. Uploading(x) => x \in WithBody /\ \A i \in Queued(x)' : sendQ'[i].kind \in {"start", "chunk"}
    BY <1>3 DEF AskInv, AskedOnce
  <2>4. ASSUME Calling(x), NEW i \in Queued(x)' PROVE sendQ'[i].kind # "cancel"
    <3>1. \A j \in Queued(x) : sendQ[j].kind # "cancel" BY <2>4 DEF AskInv, AskedOnce
    <3> QED BY <3>1, <1>3
  <2> QED BY <2>1, <2>2, <2>3, <2>4
<1>9. QueueOrder'
  <2>1. ASSUME NEW i \in 1..Len(sendQ')
        PROVE  /\ sendQ'[i].kind = "start" => peer'[sendQ'[i].req] = "none"
               /\ sendQ'[i].kind = "end" => /\ sendQ'[i].req \in WithBody
                                            /\ peer'[sendQ'[i].req] \in InUpload
    <3>1. sendQ'[i] = sendQ[i + 1] /\ i + 1 \in 1..Len(sendQ) /\ i + 1 > 1 BY <1>1
    <3>2. sendQ[i + 1].req \in Requests BY <1>1 DEF QFrame
    <3>3. /\ sendQ[i + 1].kind = "start" => peer[sendQ[i + 1].req] = "none"
          /\ sendQ[i + 1].kind = "end" => /\ sendQ[i + 1].req \in WithBody
                                          /\ peer[sendQ[i + 1].req] \in InUpload
      BY <3>1 DEF AskInv, QueueOrder
    <3>4. CASE sendQ[i + 1].req = r
      BY <3>1, <3>3, <3>4, <1>4, <1>5 DEF InUpload
    <3>5. CASE sendQ[i + 1].req # r BY <3>1, <3>2, <3>3, <3>5, <1>4
    <3> QED BY <3>4, <3>5
  <2>2. ASSUME NEW i \in 1..Len(sendQ'), NEW j \in 1..Len(sendQ'),
               i < j, sendQ'[i].req = sendQ'[j].req
        PROVE  /\ sendQ'[j].kind # "start" /\ sendQ'[i].kind # "cancel"
               /\ sendQ'[i].kind = "end" => sendQ'[j].kind = "cancel"
    <3>1. /\ sendQ'[i] = sendQ[i + 1] /\ i + 1 \in 1..Len(sendQ)
          /\ sendQ'[j] = sendQ[j + 1] /\ j + 1 \in 1..Len(sendQ)
          /\ i + 1 < j + 1
      BY <1>1, <2>2
    <3> QED BY <3>1, <2>2 DEF AskInv, QueueOrder
  <2> QED BY <2>1, <2>2 DEF QueueOrder
<1> QED BY <1>7, <1>8, <1>9 DEF AskInv

(* The queue and the handlers stay; the client goes on with what it has. *)
LEMMA PeerAsks ==
  ASSUME AskInv, UNCHANGED <<sendQ, pc, op, outcome>>,
         \A x \in Requests : peer[x] \in InUpload => peer'[x] = peer[x],
         \A i \in 1..Len(sendQ) : sendQ[i].req \in Requests
  PROVE  AskInv'
<1>1. \A x \in Requests :
        /\ Unasked(x)' <=> Unasked(x)
        /\ Uploading(x)' <=> Uploading(x)
        /\ Calling(x)' <=> Calling(x)
        /\ Sending(x)' <=> Sending(x)
        /\ Listening(x)' <=> Listening(x)
        /\ Queued(x)' = Queued(x)
  BY DEF Unasked, Uploading, Calling, Sending, Listening, Queued
<1>2. Attentive' BY <1>1 DEF AskInv, Attentive
<1>3. AskedOnce'
  BY <1>1 DEF AskInv, AskedOnce, InUpload
<1>4. QueueOrder'
  BY <1>1 DEF AskInv, QueueOrder, InUpload
<1> QED BY <1>2, <1>3, <1>4 DEF AskInv

(* Queued frames are frames of requests. *)
LEMMA QueueTyped ==
  ASSUME TypeOK
  PROVE  \A i \in 1..Len(sendQ) : sendQ[i].req \in Requests
<1>1. sendQ \in Seq(QFrame) BY DEF TypeOK
<1>2. \A i \in 1..Len(sendQ) : sendQ[i] \in QFrame BY <1>1
<1> QED BY <1>2 DEF QFrame

(* AskInv holds of a session nobody has used ... *)
LEMMA InitAskInv == Init => AskInv
<1> SUFFICES ASSUME Init PROVE AskInv OBVIOUS
<1>1. Attentive
  BY DEF Init, Attentive, Unasked, Uploading, Listening, Sending, Early
<1>2. AskedOnce
  <2>1. \A x \in Requests : Queued(x) = {} BY DEF Init, Queued
  <2> QED BY <2>1 DEF Init, AskedOnce, Uploading, Calling, Sending
<1>3. QueueOrder BY DEF Init, QueueOrder
<1> QED BY <1>1, <1>2, <1>3 DEF AskInv

(* ... and is kept by every step. *)
LEMMA StepAskInv == TypeOK /\ AskInv /\ [Next]_vars => AskInv'
<1> SUFFICES ASSUME TypeOK, AskInv, [Next]_vars PROVE AskInv' OBVIOUS
<1>0. \A i \in 1..Len(sendQ) : sendQ[i].req \in Requests BY QueueTyped
<1>1. ASSUME UNCHANGED <<sendQ, pc, op, outcome, peer>> PROVE AskInv'
  BY <1>0, <1>1, PeerAsks
<1>2. ASSUME NEW r \in Requests, Handler(r) \/ Arrive(r) \/ Caller(r) \/ CallerLeaves(r)
      PROVE  AskInv'
  <2>1. CASE SendEnqueue(r) BY <2>1, EnqueueAsks
  <2>2. CASE CallerLeaves(r) BY <2>2, <1>1 DEF CallerLeaves, peerVars
  <2> QED BY <1>2, <2>1, <2>2, HandlerAsks DEF Handler, Caller
<1>3. CASE WriterWrites
  <2> DEFINE r == Head(sendQ).req
             k == Head(sendQ).kind
  <2>1. r \in Requests
    <3>1. sendQ # <<>> /\ sendQ \in Seq(QFrame) BY <1>3 DEF WriterWrites, TypeOK
    <3>2. Head(sendQ) \in QFrame BY <3>1, TailFacts
    <3> QED BY <3>2 DEF QFrame
  <2>2. /\ \A x \in Requests \ {r} : peer'[x] = peer[x]
        /\ \/ UNCHANGED peer
           \/ k = "start" /\ peer'[r] = IF r \in WithBody THEN "assembling" ELSE "ready"
           \/ k \in {"end", "cancel"}
    BY <1>3, <2>1 DEF WriterWrites, TypeOK
  <2>3. sendQ # <<>> /\ sendQ' = Tail(sendQ) /\ UNCHANGED <<pc, op, outcome>>
    BY <1>3 DEF WriterWrites, handlerVars
  <2> QED BY <2>2, <2>3, WriterAsks
<1>4. CASE WriterEnds
  <2>1. UNCHANGED <<pc, op, outcome, peer>> BY <1>4 DEF WriterEnds, handlerVars, peerVars
  <2>2. CASE UNCHANGED sendQ BY <2>1, <2>2, <1>1
  <2>3. CASE sendQ # <<>> /\ sendQ' = Tail(sendQ) BY <2>1, <2>3, WriterAsks
  <2> QED BY <1>4, <2>2, <2>3 DEF WriterEnds
<1>5. ASSUME NEW r \in Requests, Client(r) PROVE AskInv'
  <2>1. /\ UNCHANGED <<sendQ, pc, op, outcome>>
        /\ peer[r] \notin InUpload
        /\ \A x \in Requests \ {r} : peer'[x] = peer[x]
    BY <1>5
    DEF Client, PeerStarts, PeerSendsChunk, PeerEnds, Emit, handlerVars, InUpload, TypeOK
  <2> QED BY <2>1, <1>0, PeerAsks
<1>6. CASE Reader \/ CloseBegins \/ CloseStep
  BY <1>6, <1>1
  DEF Reader, RouteLookup, RouteDeliver, CloseBegins, CloseStep, CloseConn, CloseMailboxes,
      CloseDetach, handlerVars, peerVars
<1>7. CASE UNCHANGED vars BY <1>7, <1>1 DEF vars, handlerVars, peerVars
<1> QED BY <1>2, <1>3, <1>4, <1>5, <1>6, <1>7 DEF Next

-----------------------------------------------------------------------------
FrameInv == FramesSound /\ WireClosed /\ WokenLate

(* The client only goes forward. *)
PeersAdvance ==
    \A x \in Requests :
        /\ peer[x] \in Answering => peer'[x] \in Answering
        /\ peer[x] = "stopped" => peer'[x] = "stopped" /\ sent'[x] = sent[x]
        /\ sent'[x] >= sent[x]
        /\ peer'[x] \notin Answering => sent'[x] = 0
        /\ x \in failed => x \in failed'

(* Frames on their way are frames. *)
LEMMA FramesTyped ==
  ASSUME TypeOK
  PROVE  /\ \A i \in 1..Len(wire) : wire[i] \in Frame
         /\ held # NoFrame => held \in Frame
         /\ \A r \in Requests : \A i \in 1..Len(mail[r]) : mail[r][i] \in Frame
         /\ sent \in [Requests -> 0..MaxChunks]
         /\ peer \in [Requests -> {"none", "assembling", "ready", "streaming", "stopped"}]
<1>1. wire \in Seq(Frame) /\ mail \in [Requests -> Seq(Frame)] BY DEF TypeOK
<1>2. \A i \in 1..Len(wire) : wire[i] \in Frame BY <1>1
<1>3. \A r \in Requests : \A i \in 1..Len(mail[r]) : mail[r][i] \in Frame BY <1>1
<1> QED BY <1>2, <1>3 DEF TypeOK

(* A frame that is sound stays so. *)
LEMMA SoundKept ==
  ASSUME TypeOK, TypeOK', PeersAdvance, NEW f \in Frame, SoundIn(f, peer, sent, failed)
  PROVE  SoundIn(f, peer', sent', failed')
<1>1. f.req \in Requests /\ f.seq \in Nat BY DEF Frame
<1>2. sent[f.req] \in Nat /\ sent'[f.req] \in Nat BY <1>1 DEF TypeOK
<1> QED BY <1>1, <1>2 DEF PeersAdvance, SoundIn, Answering, Final

(* Frames are handed on; what is new on the wire is sound. *)
LEMMA FramesKept ==
  ASSUME TypeOK, TypeOK', FramesSound, PeersAdvance,
         \A i \in 1..Len(wire') :
            \/ \E j \in 1..Len(wire) : wire'[i] = wire[j]
            \/ SoundIn(wire'[i], peer', sent', failed'),
         \/ held' = NoFrame
         \/ held' = held
         \/ \E j \in 1..Len(wire) : held' = wire[j],
         \A r \in Requests : \A i \in 1..Len(mail'[r]) :
            \/ \E j \in 1..Len(mail[r]) : mail'[r][i] = mail[r][j]
            \/ held # NoFrame /\ held.req = r /\ mail'[r][i] = held,
         \A r \in Requests : pc'[r] \in Streaming \/ outcome'[r] = "end" =>
            pc[r] \in Streaming \/ outcome[r] = "end" \/ peer[r] \in Answering
  PROVE  FramesSound'
<1>1. \A i \in 1..Len(wire) : SoundIn(wire[i], peer', sent', failed')
  BY SoundKept, FramesTyped DEF FramesSound
<1>2. held # NoFrame => SoundIn(held, peer', sent', failed')
  BY SoundKept, FramesTyped DEF FramesSound
<1>3. \A r \in Requests : \A i \in 1..Len(mail[r]) :
         SoundIn(mail[r][i], peer', sent', failed') /\ mail[r][i].req = r
  BY SoundKept, FramesTyped DEF FramesSound
<1>4. \A i \in 1..Len(wire') : SoundIn(wire'[i], peer', sent', failed') BY <1>1
<1>5. held' # NoFrame => SoundIn(held', peer', sent', failed') BY <1>1, <1>2
<1>6. \A r \in Requests : \A i \in 1..Len(mail'[r]) :
         SoundIn(mail'[r][i], peer', sent', failed') /\ mail'[r][i].req = r
  BY <1>2, <1>3
<1>7. \A r \in Requests : peer'[r] \notin Answering => sent'[r] = 0 BY DEF PeersAdvance
<1>8. \A r \in Requests : pc'[r] \in Streaming \/ outcome'[r] = "end" => peer'[r] \in Answering
  BY DEF FramesSound, PeersAdvance
<1> QED BY <1>4, <1>5, <1>6, <1>7, <1>8 DEF FramesSound

(* Every step keeps the frames sound. *)
LEMMA StepFramesSound == IInv /\ AskInv /\ FrameInv /\ [Next]_vars => FramesSound'
<1> SUFFICES ASSUME IInv, AskInv, FrameInv, [Next]_vars PROVE FramesSound' OBVIOUS
<1>0. TypeOK /\ TypeOK' /\ FramesSound BY StepTypeOK DEF IInv, FrameInv
<1>a. /\ sent \in [Requests -> 0..MaxChunks]
      /\ peer \in [Requests -> {"none", "assembling", "ready", "streaming", "stopped"}]
  BY <1>0, FramesTyped
<1>b. \A x \in Requests : sent[x] \in Nat /\ (peer[x] \notin Answering => sent[x] = 0)
  BY <1>0, <1>a DEF FramesSound
<1>1. ASSUME UNCHANGED <<peer, sent, failed>> PROVE PeersAdvance BY <1>1, <1>b DEF PeersAdvance
<1>2. ASSUME UNCHANGED <<wire, held, mail, peer, sent, failed>>,
             \A r \in Requests : pc'[r] \in Streaming \/ outcome'[r] = "end" =>
                pc[r] \in Streaming \/ outcome[r] = "end" \/ peer[r] \in Answering
      PROVE  FramesSound'
  BY <1>2, <1>0, FramesKept, <1>1
<1>3. ASSUME NEW r \in Requests, Handler(r) \/ Arrive(r) \/ Caller(r) \/ CallerLeaves(r)
      PROVE  FramesSound'
  <2>0. /\ pc \in [Requests -> PCs] /\ outcome \in [Requests -> Outcomes]
        /\ mail \in [Requests -> Seq(Frame)]
    BY <1>0 DEF TypeOK
  <2>1. CASE FirstFrame(r)
    <3>1. UNCHANGED <<wire, held, peer, sent, failed>> /\ PeersAdvance
      BY <2>1, <1>1 DEF FirstFrame, peerVars
    <3>2. mail[r] # <<>> /\ mail' = [mail EXCEPT ![r] = Tail(@)] BY <2>1 DEF FirstFrame
    <3>3. /\ Head(mail[r]) = mail[r][1] /\ 1 \in 1..Len(mail[r])
          /\ \A i \in 1..Len(Tail(mail[r])) : /\ Tail(mail[r])[i] = mail[r][i + 1]
                                              /\ i + 1 \in 1..Len(mail[r])
      BY <2>0, <3>2, TailFacts
    <3>4. Head(mail[r]).req = r /\ peer[r] \in Answering
      BY <3>3, <1>0 DEF FramesSound, SoundIn
    <3>5. \A x \in Requests : \A i \in 1..Len(mail'[x]) :
             \E j \in 1..Len(mail[x]) : mail'[x][i] = mail[x][j]
      BY <2>0, <3>2, <3>3
    <3>6. \A x \in Requests : pc'[x] \in Streaming \/ outcome'[x] = "end" =>
             pc[x] \in Streaming \/ outcome[x] = "end" \/ peer[x] \in Answering
      BY <2>0, <2>1, <3>4 DEF FirstFrame, Goto, Decide
    <3> QED BY <3>1, <3>5, <3>6, <1>0, FramesKept
  <2>2. CASE StreamFrame(r)
    <3>1. UNCHANGED <<wire, held, peer, sent, failed>> /\ PeersAdvance
      BY <2>2, <1>1 DEF StreamFrame, peerVars
    <3>2. mail[r] # <<>> /\ mail' = [mail EXCEPT ![r] = Tail(@)] BY <2>2 DEF StreamFrame
    <3>3. \A i \in 1..Len(Tail(mail[r])) : /\ Tail(mail[r])[i] = mail[r][i + 1]
                                           /\ i + 1 \in 1..Len(mail[r])
      BY <2>0, <3>2, TailFacts
    <3>5. \A x \in Requests : \A i \in 1..Len(mail'[x]) :
             \E j \in 1..Len(mail[x]) : mail'[x][i] = mail[x][j]
      BY <2>0, <3>2, <3>3
    <3>6. \A x \in Requests : pc'[x] \in Streaming \/ outcome'[x] = "end" =>
             pc[x] \in Streaming \/ outcome[x] = "end" \/ peer[x] \in Answering
      BY <2>0, <2>2 DEF StreamFrame, Goto, Decide
    <3> QED BY <3>1, <3>5, <3>6, <1>0, FramesKept
  <2>3. CASE SendEnqueue(r)
    BY <2>0, <2>3, <1>2 DEF SendEnqueue, Sent, Goto, peerVars, mailVars
  <2>4. CASE SendCheck(r) \/ SendAborts(r)
    <3>1. CASE SendFailed(r) /\ UNCHANGED <<wire, held, mail, peer, sent, failed>>
      BY <2>0, <3>1, <1>2 DEF SendFailed, Sent, Send, Goto, Decide
    <3>2. CASE Goto(r, "select") /\ UNCHANGED <<outcome, wire, held, mail, peer, sent, failed>>
      BY <2>0, <3>2, <1>2 DEF Goto
    <3> QED BY <2>4, <3>1, <3>2 DEF SendCheck, SendAborts, peerVars, mailVars
  <2>5. CASE UploadChunk(r) \/ UploadEnds(r) \/ TimesOut(r)
    BY <2>0, <2>5, <1>2 DEF UploadChunk, UploadEnds, TimesOut, Send, Decide, peerVars, mailVars
  <2>6. CASE Arrive(r) \/ RegisterPending(r) \/ Dropped(r) \/ Finish(r) \/ CallerLeaves(r)
             \/ WriteReturns(r)
    BY <2>0, <2>6, <1>2
    DEF Arrive, RegisterPending, Dropped, Finish, CallerLeaves, WriteReturns, Send, Goto, Decide,
        peerVars, mailVars
  <2> QED BY <1>3, <2>1, <2>2, <2>3, <2>4, <2>5, <2>6 DEF Handler, Caller
<1>4. CASE RouteLookup
  <2>1. /\ UNCHANGED <<pc, outcome, mail, peer, sent, failed>> /\ wire # <<>>
        /\ held' \in {Head(wire), NoFrame} /\ wire' = Tail(wire)
    BY <1>4 DEF RouteLookup, handlerVars, mailVars
  <2>2. /\ Head(wire) = wire[1] /\ 1 \in 1..Len(wire)
        /\ \A i \in 1..Len(wire') : wire'[i] = wire[i + 1] /\ i + 1 \in 1..Len(wire)
    <3>1. wire \in Seq(Frame) BY <1>0 DEF TypeOK
    <3> QED BY <2>1, <3>1, TailFacts
  <2> QED BY <2>1, <2>2, <1>0, <1>1, FramesKept
<1>5. CASE RouteDeliver
  <2>1. /\ UNCHANGED <<pc, outcome, wire, peer, sent, failed>> /\ held' = NoFrame /\ held # NoFrame
        /\ mail' = [mail EXCEPT ![held.req] = Append(@, held)] \/ UNCHANGED mail
    BY <1>5 DEF RouteDeliver, handlerVars, peerVars
  <2>2. held \in Frame /\ held.req \in Requests BY <2>1, <1>0, FramesTyped DEF Frame
  <2>3. mail \in [Requests -> Seq(Frame)] BY <1>0 DEF TypeOK
  <2>4. \A x \in Requests : \A i \in 1..Len(mail'[x]) :
            \/ \E j \in 1..Len(mail[x]) : mail'[x][i] = mail[x][j]
            \/ held # NoFrame /\ held.req = x /\ mail'[x][i] = held
    <3>1. CASE UNCHANGED mail BY <3>1
    <3>2. CASE mail' = [mail EXCEPT ![held.req] = Append(@, held)]
      <4>1. LET q == mail[held.req] IN
            /\ Len(Append(q, held)) = Len(q) + 1 /\ Len(q) \in Nat
            /\ Append(q, held)[Len(q) + 1] = held
            /\ \A i \in 1..Len(q) : Append(q, held)[i] = q[i]
        BY <2>2, <2>3, AppendFacts
      <4> QED BY <4>1, <3>2, <2>1, <2>2, <2>3
    <3> QED BY <2>1, <3>1, <3>2
  <2> QED BY <2>1, <2>4, <1>0, <1>1, FramesKept
<1>6. CASE WriterWrites
  <2> DEFINE r == Head(sendQ).req
             k == Head(sendQ).kind
  <2>1. UNCHANGED <<pc, outcome, wire, held, mail, sent, failed>> /\ sendQ # <<>>
    BY <1>6 DEF WriterWrites, handlerVars, mailVars
  <2>2. /\ r \in Requests
        /\ k = "start" => peer[r] = "none"
        /\ k = "end" => peer[r] \in InUpload
    <3>1. sendQ \in Seq(QFrame) BY <1>0 DEF TypeOK
    <3>2. Head(sendQ) = sendQ[1] /\ 1 \in 1..Len(sendQ) BY <2>1, <3>1, TailFacts
    <3> QED BY <3>2, <1>0, QueueTyped DEF AskInv, QueueOrder
  <2>3. \/ UNCHANGED peer
        \/ k \in {"start", "end"} /\ \E l \in {"assembling", "ready"} : peer' = [peer EXCEPT ![r] = l]
        \/ peer' = [peer EXCEPT ![r] = "stopped"]
    BY <1>6 DEF WriterWrites
  <2> HIDE DEF r, k
  <2>4. PeersAdvance
    <3>1. CASE UNCHANGED peer BY <3>1, <2>1, <1>1
    <3>2. CASE k \in {"start", "end"} /\ \E l \in {"assembling", "ready"} : peer' = [peer EXCEPT ![r] = l]
      BY <3>2, <2>1, <2>2, <1>a, <1>b DEF PeersAdvance, Answering, InUpload
    <3>3. CASE peer' = [peer EXCEPT ![r] = "stopped"]
      BY <3>3, <2>1, <2>2, <1>a, <1>b DEF PeersAdvance, Answering
    <3> QED BY <2>3, <3>1, <3>2, <3>3
  <2> QED BY <2>1, <2>4, <1>0, FramesKept
<1>7. CASE WriterEnds \/ CloseBegins \/ CloseMailboxes \/ CloseDetach
  BY <1>7, <1>2
  DEF WriterEnds, CloseBegins, CloseMailboxes, CloseDetach, handlerVars, mailVars, peerVars
<1>8. CASE CloseConn
  <2>1. wire' = <<>> /\ UNCHANGED <<pc, outcome, held, mail, peer, sent, failed>>
    BY <1>8 DEF CloseConn, handlerVars, mailVars
  <2>2. Len(wire') = 0 BY <2>1
  <2> QED BY <2>1, <2>2, <1>0, <1>1, FramesKept
<1>9. ASSUME NEW r \in Requests, Client(r) PROVE FramesSound'
  <2>0. wire \in Seq(Frame) BY <1>0 DEF TypeOK
  <2>1. ASSUME NEW k \in Kinds, NEW n \in 0..MaxChunks+1, Emit(r, k, n), PeersAdvance,
               SoundIn([req |-> r, kind |-> k, seq |-> n], peer', sent', failed')
        PROVE  FramesSound'
    <3> DEFINE f == [req |-> r, kind |-> k, seq |-> n]
    <3>1. wire' = Append(wire, f) /\ UNCHANGED <<pc, outcome, held, mail>>
      BY <2>1 DEF Emit, handlerVars, mailVars
    <3>2. f \in Frame BY DEF Frame
    <3> HIDE DEF f
    <3>3. /\ Len(wire) \in Nat /\ Len(wire') = Len(wire) + 1 /\ wire'[Len(wire) + 1] = f
          /\ \A i \in 1..Len(wire) : wire'[i] = wire[i]
      BY <2>0, <3>1, <3>2, AppendFacts
    <3>4. \A i \in 1..Len(wire') : \/ \E j \in 1..Len(wire) : wire'[i] = wire[j]
                                   \/ wire'[i] = f
      BY <3>3
    <3>5. SoundIn(f, peer', sent', failed') BY <2>1 DEF f
    <3> QED BY <2>1, <3>1, <3>4, <3>5, <1>0, FramesKept
  <2>2. CASE PeerStarts(r)
    <3>1. /\ Emit(r, "start", 0) /\ UNCHANGED <<sent, failed>> /\ peer[r] = "ready"
          /\ peer' = [peer EXCEPT ![r] = "streaming"]
      BY <2>2 DEF PeerStarts
    <3>2. PeersAdvance BY <3>1, <1>a, <1>b DEF PeersAdvance, Answering
    <3>3. SoundIn([req |-> r, kind |-> "start", seq |-> 0], peer', sent', failed')
      BY <3>1, <1>a DEF SoundIn, Answering, Final
    <3>4. 0 \in 0..MaxChunks+1 /\ "start" \in Kinds BY RelayAssumption DEF Kinds
    <3> QED BY <3>1, <3>2, <3>3, <3>4, <2>1
  <2>3. CASE PeerSendsChunk(r)
    <3>1. /\ Emit(r, "chunk", sent[r] + 1) /\ UNCHANGED <<peer, failed>> /\ peer[r] = "streaming"
          /\ sent[r] < MaxChunks /\ sent' = [sent EXCEPT ![r] = @ + 1]
      BY <2>3 DEF PeerSendsChunk
    <3>2. PeersAdvance BY <3>1, <1>a, <1>b DEF PeersAdvance, Answering
    <3>3. SoundIn([req |-> r, kind |-> "chunk", seq |-> sent[r] + 1], peer', sent', failed')
      BY <3>1, <1>a DEF SoundIn, Answering, Final
    <3>4. sent[r] + 1 \in 0..MaxChunks+1 BY <1>a, RelayAssumption
    <3> QED BY <3>1, <3>2, <3>3, <3>4, <2>1 DEF Kinds
  <2>4. CASE PeerEnds(r)
    <3> DEFINE n == IF peer[r] = "ready" THEN 0 ELSE sent[r] + 1
    <3>1. PICK k \in Final : /\ Emit(r, k, n)
                            /\ failed' = IF k = "end" THEN failed ELSE failed \cup {r}
      BY <2>4 DEF PeerEnds, Final
    <3>2. /\ UNCHANGED sent /\ peer' = [peer EXCEPT ![r] = "stopped"]
          /\ peer[r] \in {"ready", "streaming"}
      BY <2>4 DEF PeerEnds
    <3>3. PeersAdvance BY <3>1, <3>2, <1>a, <1>b DEF PeersAdvance, Answering
    <3>4. n \in 0..MaxChunks+1 /\ n \in {0, sent[r] + 1} BY <1>a, RelayAssumption
    <3> HIDE DEF n
    <3>5. k \in Kinds /\ k \notin {"start", "chunk"} BY DEF Final, Kinds
    <3>6. SoundIn([req |-> r, kind |-> k, seq |-> n], peer', sent', failed')
      BY <3>1, <3>2, <3>4, <3>5, <1>a DEF SoundIn, Answering
    <3> QED BY <3>1, <3>3, <3>4, <3>5, <3>6, <2>1
  <2> QED BY <1>9, <2>2, <2>3, <2>4 DEF Client
<1>10. CASE UNCHANGED vars
  BY <1>10, <1>2 DEF vars, handlerVars, mailVars, peerVars
<1> QED BY <1>3, <1>4, <1>5, <1>6, <1>7, <1>8, <1>9, <1>10 DEF Next, Reader, CloseStep

(* Nothing is put on a connection that is closed. *)
LEMMA StepWireClosed == TypeOK /\ WireClosed /\ [Next]_vars => WireClosed'
<1> SUFFICES ASSUME TypeOK, WireClosed, [Next]_vars PROVE WireClosed' OBVIOUS
<1> USE DEF WireClosed, done
<1>1. ASSUME UNCHANGED <<wire, step>> PROVE WireClosed' BY <1>1
<1>2. ASSUME NEW r \in Requests, Handler(r) \/ Arrive(r) \/ Caller(r) \/ CallerLeaves(r)
      PROVE  WireClosed'
  BY <1>1, <1>2
  DEF Handler, Arrive, Caller, CallerLeaves, RegisterPending, SendCheck, SendEnqueue, SendAborts,
      UploadChunk, UploadEnds, FirstFrame, StreamFrame, WriteReturns, Dropped, TimesOut, Finish,
      peerVars
<1>3. CASE Reader \/ WriterWrites \/ WriterEnds
  BY <1>1, <1>3 DEF Reader, RouteLookup, RouteDeliver, WriterWrites, WriterEnds, peerVars
<1>4. CASE CloseBegins \/ CloseStep
  BY <1>1, <1>4
  DEF CloseBegins, CloseStep, CloseConn, CloseMailboxes, CloseDetach, peerVars
<1>5. ASSUME NEW r \in Requests, Client(r) PROVE WireClosed'
  BY <1>5 DEF Client, PeerStarts, PeerSendsChunk, PeerEnds, Emit
<1>6. CASE UNCHANGED vars BY <1>1, <1>6 DEF vars, peerVars
<1> QED BY <1>2, <1>3, <1>4, <1>5, <1>6 DEF Next

(* Only the teardown closes the mailbox of a handler that still listens. *)
LEMMA StepWokenLate == TypeOK /\ Attentive /\ WokenLate /\ [Next]_vars => WokenLate'
<1> SUFFICES ASSUME TypeOK, Attentive, WokenLate, [Next]_vars PROVE WokenLate' OBVIOUS
<1>1. ASSUME UNCHANGED over, Detached => Detached',
             \A x \in Requests : Listening(x)' => Listening(x)
      PROVE  WokenLate'
  BY <1>1 DEF WokenLate
<1>2. ASSUME UNCHANGED <<over, outcome, step>> PROVE WokenLate'
  BY <1>2 DEF WokenLate, Listening, Detached
<1>3. ASSUME NEW r \in Requests, Handler(r) \/ Arrive(r) \/ Caller(r) \/ CallerLeaves(r)
      PROVE  WokenLate'
  <2>0. outcome \in [Requests -> Outcomes] /\ over \in [Requests -> BOOLEAN] BY DEF TypeOK
  <2>1. ASSUME UNCHANGED <<over, step>>,
               \/ UNCHANGED outcome
               \/ \E o \in Outcomes \ {"none"} : Decide(r, o)
        PROVE  WokenLate'
    BY <2>0, <2>1, <1>1 DEF Listening, Decide, Detached
  <2>2. CASE Finish(r)
    <3>1. ~Listening(r)
      BY <2>2 DEF Finish, Attentive, Unasked, Uploading, Sending, Early
    <3>2. /\ UNCHANGED <<outcome, step>>
          /\ \A x \in Requests \ {r} : over'[x] = over[x]
      BY <2>0, <2>2 DEF Finish
    <3> QED BY <3>1, <3>2 DEF WokenLate, Listening, Detached
  <2>3. CASE FirstFrame(r)
    BY <2>1, <2>3 DEF FirstFrame, Outcomes
  <2>4. CASE StreamFrame(r)
    BY <2>1, <2>4 DEF StreamFrame, Outcomes
  <2>5. CASE Dropped(r) \/ TimesOut(r)
    BY <2>1, <2>5 DEF Dropped, TimesOut, Outcomes, mailVars
  <2>6. CASE SendCheck(r) \/ SendAborts(r) \/ SendEnqueue(r)
    BY <2>1, <2>6 DEF SendCheck, SendAborts, SendEnqueue, SendFailed, Outcomes, mailVars
  <2>7. CASE Arrive(r) \/ RegisterPending(r) \/ Caller(r) \/ CallerLeaves(r)
    BY <2>1, <2>7
    DEF Arrive, RegisterPending, Caller, UploadChunk, UploadEnds, WriteReturns, CallerLeaves,
        Outcomes, mailVars
  <2> QED BY <1>3, <2>2, <2>3, <2>4, <2>5, <2>6, <2>7 DEF Handler
<1>4. CASE Reader \/ WriterWrites \/ WriterEnds
  BY <1>2, <1>4
  DEF Reader, RouteLookup, RouteDeliver, WriterWrites, WriterEnds, handlerVars, mailVars
<1>5. CASE CloseBegins \/ CloseConn \/ CloseDetach
  BY <1>1, <1>5
  DEF CloseBegins, CloseConn, CloseDetach, handlerVars, mailVars, Detached, Listening
<1>6. CASE CloseMailboxes BY <1>6 DEF CloseMailboxes, WokenLate, Detached
<1>7. ASSUME NEW r \in Requests, Client(r) PROVE WokenLate'
  BY <1>2, <1>7 DEF Client, PeerStarts, PeerSendsChunk, PeerEnds, Emit, handlerVars, mailVars
<1>8. CASE UNCHANGED vars BY <1>2, <1>8 DEF vars, handlerVars, mailVars
<1> QED BY <1>3, <1>4, <1>5, <1>6, <1>7, <1>8 DEF Next, CloseStep

(* FrameInv holds of a session nobody has used ... *)
LEMMA InitFrameInv == Init => FrameInv
<1> SUFFICES ASSUME Init PROVE FrameInv OBVIOUS
<1>1. FramesSound BY DEF Init, FramesSound, NoFrame
<1>2. WireClosed /\ WokenLate BY DEF Init, WireClosed, WokenLate
<1> QED BY <1>1, <1>2 DEF FrameInv

(* ... and is kept by every step. *)
LEMMA StepFrameInv == IInv /\ AskInv /\ FrameInv /\ [Next]_vars => FrameInv'
BY StepFramesSound, StepWireClosed, StepWokenLate DEF FrameInv, IInv, AskInv

-----------------------------------------------------------------------------
(* Nothing that r depends on has changed. *)
LEMMA OrderKept ==
  ASSUME InOrder, NEW r \in Requests, Listening(r),
         UNCHANGED <<held, wire, sent>>, got'[r] = got[r], mail'[r] = mail[r],
         pc'[r] \in Streaming <=> pc[r] \in Streaming,
         peer'[r] = "streaming" => peer[r] = "streaming",
         done => done'
  PROVE  /\ pc'[r] \notin Streaming => got'[r] = <<>>
         /\ MailInOrder(r)' /\ HeldInOrder(r)' /\ WireGrows(r)' /\ WireFrom(r)' /\ WireTo(r)'
<1>1. Expected(r)' = Expected(r) BY DEF Expected
<1>2. AfterMail(r)' = AfterMail(r) BY <1>1 DEF AfterMail
<1>3. AfterHeld(r)' = AfterHeld(r) BY <1>2 DEF AfterHeld
<1>4. /\ pc[r] \notin Streaming => got[r] = <<>>
      /\ MailInOrder(r) /\ HeldInOrder(r) /\ WireGrows(r) /\ WireFrom(r) /\ WireTo(r)
  BY DEF InOrder
<1>5. MailInOrder(r)' BY <1>1, <1>4 DEF MailInOrder
<1>6. HeldInOrder(r)' BY <1>2, <1>4 DEF HeldInOrder
<1>7. WireGrows(r)' BY <1>4 DEF WireGrows
<1>8. WireFrom(r)' BY <1>3, <1>4 DEF WireFrom
<1>9. WireTo(r)' BY <1>3, <1>4 DEF WireTo
<1> QED BY <1>4, <1>5, <1>6, <1>7, <1>8, <1>9

(* Places are natural numbers. *)
LEMMA PlacesTyped ==
  ASSUME TypeOK, NEW r \in Requests
  PROVE  /\ Expected(r) \in Nat /\ AfterMail(r) \in Nat /\ AfterHeld(r) \in Nat
         /\ Len(mail[r]) \in Nat /\ Len(got[r]) \in Nat /\ Len(wire) \in Nat
         /\ sent[r] \in Nat
         /\ \A i \in 1..Len(wire) : wire[i].seq \in Nat /\ wire[i].req \in Requests
<1>1. mail[r] \in Seq(Frame) /\ got[r] \in Seq(0..MaxChunks+1) /\ wire \in Seq(Frame)
      /\ sent[r] \in 0..MaxChunks
  BY DEF TypeOK
<1>2. Len(mail[r]) \in Nat /\ Len(got[r]) \in Nat /\ Len(wire) \in Nat BY <1>1
<1>3. Expected(r) \in Nat BY <1>2 DEF Expected
<1>4. AfterMail(r) \in Nat BY <1>2, <1>3 DEF AfterMail
<1>5. AfterHeld(r) \in Nat BY <1>4 DEF AfterHeld
<1>6. sent[r] \in Nat BY <1>1
<1>7. \A i \in 1..Len(wire) : wire[i].seq \in Nat /\ wire[i].req \in Requests
  BY FramesTyped DEF Frame
<1> QED BY <1>2, <1>3, <1>4, <1>5, <1>6, <1>7

(* The handler takes the next frame of its mailbox. *)
LEMMA OrderTaken ==
  ASSUME TypeOK, InOrder, NEW r \in Requests, Listening(r),
         UNCHANGED <<held, wire, sent, peer, step>>, mail[r] # <<>>, mail'[r] = Tail(mail[r]),
         pc'[r] \in Streaming, Expected(r)' = Expected(r) + 1
  PROVE  MailInOrder(r)' /\ HeldInOrder(r)' /\ WireGrows(r)' /\ WireFrom(r)' /\ WireTo(r)'
<1>1. /\ Len(mail[r]) \in Nat \ {0} /\ Len(mail'[r]) = Len(mail[r]) - 1
      /\ \A i \in 1..Len(mail'[r]) : mail'[r][i] = mail[r][i + 1] /\ i + 1 \in 1..Len(mail[r])
  <2>1. mail[r] \in Seq(Frame) BY DEF TypeOK
  <2> QED BY <2>1, TailFacts
<1>2. Expected(r) \in Nat BY PlacesTyped
<1>3. AfterMail(r)' = AfterMail(r) BY <1>1, <1>2 DEF AfterMail
<1>4. AfterHeld(r)' = AfterHeld(r) BY <1>3 DEF AfterHeld
<1>5. MailInOrder(r) /\ HeldInOrder(r) /\ WireGrows(r) /\ WireFrom(r) /\ WireTo(r)
  BY DEF InOrder
<1>6. MailInOrder(r)'
  <2> SUFFICES ASSUME NEW i \in 1..Len(mail'[r])
               PROVE  mail'[r][i].seq = Expected(r) + 1 + i - 1
    BY DEF MailInOrder
  <2>1. mail[r][i + 1].seq = Expected(r) + (i + 1) - 1 BY <1>1, <1>5 DEF MailInOrder
  <2> QED BY <2>1, <1>1, <1>2
<1>7. HeldInOrder(r)' BY <1>3, <1>5 DEF HeldInOrder
<1>8. WireGrows(r)' BY <1>5 DEF WireGrows
<1>9. WireFrom(r)' BY <1>4, <1>5 DEF WireFrom
<1>10. WireTo(r)' BY <1>4, <1>5 DEF WireTo, done
<1> QED BY <1>6, <1>7, <1>8, <1>9, <1>10

(* The first frame of r on the wire is the next one. *)
LEMMA WireHead ==
  ASSUME TypeOK, InOrder, wire # <<>>, NEW r \in Requests, Listening(r), wire[1].req = r
  PROVE  wire[1].seq = AfterHeld(r)
<1>1. 1 \in 1..Len(wire) /\ wire[1].seq \in Nat /\ AfterHeld(r) \in Nat
  <2>1. wire \in Seq(Frame) BY DEF TypeOK
  <2>2. 1 \in 1..Len(wire) BY <2>1, TailFacts
  <2> QED BY <2>2, PlacesTyped
<1>2. WireFrom(r) BY DEF InOrder
<1>3. /\ AfterHeld(r) <= wire[1].seq
      /\ \A p \in AfterHeld(r)..wire[1].seq-1 : \E j \in 1..1-1 : wire[j].req = r /\ wire[j].seq = p
  BY <1>1, <1>2 DEF WireFrom
<1>4. ASSUME AfterHeld(r) < wire[1].seq PROVE FALSE
  <2>1. AfterHeld(r) \in AfterHeld(r)..wire[1].seq-1 BY <1>1, <1>4
  <2>2. 1..1-1 = {} OBVIOUS
  <2> QED BY <2>1, <2>2, <1>3
<1> QED BY <1>1, <1>3, <1>4

(* The reader takes a frame off the wire, to deliver or to drop it. *)
LEMMA OrderLookup ==
  ASSUME TypeOK, InOrder, FramesSound, RouteLookup, NEW r \in Requests, Listening(r),
         Head(wire).req = r => r \in pending
  PROVE  MailInOrder(r)' /\ HeldInOrder(r)' /\ WireGrows(r)' /\ WireFrom(r)' /\ WireTo(r)'
<1>0. /\ held = NoFrame /\ wire # <<>> /\ wire' = Tail(wire)
      /\ held' = IF Head(wire).req \in pending THEN Head(wire) ELSE NoFrame
      /\ UNCHANGED <<pc, got, mail, peer, sent, step>>
  BY DEF RouteLookup, handlerVars, mailVars
<1>1. /\ Len(wire) \in Nat \ {0} /\ Len(wire') = Len(wire) - 1
      /\ Head(wire) = wire[1] /\ wire[1] \in Frame
      /\ \A i \in 1..Len(wire') : wire'[i] = wire[i + 1] /\ i + 1 \in 1..Len(wire) /\ i + 1 > 1
  <2>1. wire \in Seq(Frame) BY DEF TypeOK
  <2> QED BY <2>1, <1>0, TailFacts
<1>2. wire[1] # NoFrame BY <1>1 DEF Frame, NoFrame
<1>3. MailInOrder(r) /\ WireGrows(r) /\ WireFrom(r) /\ WireTo(r) BY DEF InOrder
<1>4. /\ AfterMail(r) \in Nat /\ sent[r] \in Nat
      /\ \A i \in 1..Len(wire) : wire[i].seq \in Nat
  BY PlacesTyped
<1>5. Expected(r)' = Expected(r) /\ AfterMail(r)' = AfterMail(r) BY <1>0 DEF Expected, AfterMail
<1>6. AfterHeld(r) = AfterMail(r) BY <1>0 DEF AfterHeld
<1>7. MailInOrder(r)' BY <1>0, <1>3, <1>5 DEF MailInOrder
<1>8. WireGrows(r)'
  <2> SUFFICES ASSUME NEW i \in 1..Len(wire'), NEW j \in 1..Len(wire'), i < j,
                      wire'[i].req = r, wire'[j].req = r
               PROVE  wire'[i].seq < wire'[j].seq
    BY DEF WireGrows
  <2>1. i + 1 < j + 1 OBVIOUS
  <2> QED BY <2>1, <1>1, <1>3 DEF WireGrows
<1>9. CASE wire[1].req = r
  <2>1. held' = wire[1] /\ wire[1].seq = AfterMail(r) BY <1>0, <1>1, <1>6, <1>9, WireHead
  <2>2. AfterHeld(r)' = AfterMail(r) + 1 BY <2>1, <1>2, <1>5, <1>9 DEF AfterHeld
  <2>3. HeldInOrder(r)' BY <2>1, <1>5 DEF HeldInOrder
  <2>4. ASSUME NEW p \in Nat, p > AfterMail(r), NEW j \in 1..Len(wire),
               wire[j].req = r, wire[j].seq = p
        PROVE  j - 1 \in 1..Len(wire') /\ wire'[j - 1] = wire[j]
    <3>1. j # 1 BY <2>1, <2>4, <1>4
    <3>2. j - 1 \in 1..Len(wire') BY <3>1, <1>1
    <3> QED BY <3>2, <1>1
  <2>5. WireFrom(r)'
    <3> SUFFICES ASSUME NEW i \in 1..Len(wire'), wire'[i].req = r
                 PROVE  /\ AfterMail(r) + 1 <= wire'[i].seq
                        /\ \A p \in AfterMail(r)+1..wire'[i].seq-1 :
                              \E j \in 1..i-1 : wire'[j].req = r /\ wire'[j].seq = p
      BY <2>2 DEF WireFrom
    <3>1. wire'[i] = wire[i + 1] /\ i + 1 \in 1..Len(wire) /\ 1 < i + 1 /\ 1 \in 1..Len(wire) BY <1>1
    <3>2. wire[1].seq < wire[i + 1].seq BY <3>1, <1>3, <1>9 DEF WireGrows
    <3>3. AfterMail(r) + 1 <= wire'[i].seq BY <3>1, <3>2, <2>1, <1>4
    <3>4. ASSUME NEW p \in AfterMail(r)+1..wire'[i].seq-1
          PROVE  \E j \in 1..i-1 : wire'[j].req = r /\ wire'[j].seq = p
      <4>1. p \in Nat /\ p > AfterMail(r) /\ p \in AfterHeld(r)..wire[i + 1].seq-1
        BY <3>1, <1>4, <1>6
      <4>2. PICK j \in 1..(i+1)-1 : wire[j].req = r /\ wire[j].seq = p
        BY <3>1, <4>1, <1>3 DEF WireFrom
      <4>3. j \in 1..Len(wire) BY <3>1, <1>1
      <4>4. j - 1 \in 1..Len(wire') /\ wire'[j - 1] = wire[j] BY <4>1, <4>2, <4>3, <2>4
      <4>5. j - 1 \in 1..i-1 BY <4>4, <4>2
      <4> QED BY <4>2, <4>4, <4>5
    <3> QED BY <3>3, <3>4
  <2>6. WireTo(r)'
    <3> SUFFICES ASSUME peer[r] = "streaming", ~done
                 PROVE  /\ AfterMail(r) + 1 <= sent[r] + 1
                        /\ \A p \in AfterMail(r)+1..sent[r] :
                              \E j \in 1..Len(wire') : wire'[j].req = r /\ wire'[j].seq = p
      BY <2>2, <1>0 DEF WireTo, done
    <3>1. SoundIn(wire[1], peer, sent, failed) BY <1>1 DEF FramesSound
    <3>2. wire[1].kind \in {"start", "chunk"}
      BY <3>1, <1>1, <1>9 DEF SoundIn, Frame, Kinds, Final
    <3>3. wire[1].seq <= sent[r] BY <3>1, <3>2, <1>4, <1>9 DEF SoundIn
    <3>4. AfterMail(r) + 1 <= sent[r] + 1 BY <3>3, <2>1, <1>4
    <3>5. ASSUME NEW p \in AfterMail(r)+1..sent[r]
          PROVE  \E j \in 1..Len(wire') : wire'[j].req = r /\ wire'[j].seq = p
      <4>1. p \in Nat /\ p > AfterMail(r) /\ p \in AfterHeld(r)..sent[r] BY <1>4, <1>6
      <4>2. PICK j \in 1..Len(wire) : wire[j].req = r /\ wire[j].seq = p
        BY <4>1, <1>3 DEF WireTo
      <4> QED BY <4>1, <4>2, <2>4
    <3> QED BY <3>4, <3>5
  <2> QED BY <2>3, <2>5, <2>6, <1>7, <1>8
<1>10. CASE wire[1].req # r
  <2>1. held' = NoFrame \/ held'.req # r BY <1>0, <1>1, <1>10
  <2>2. AfterHeld(r)' = AfterHeld(r) BY <2>1, <1>5, <1>6 DEF AfterHeld
  <2>3. HeldInOrder(r)' BY <2>1 DEF HeldInOrder
  <2>4. ASSUME NEW j \in 1..Len(wire), wire[j].req = r
        PROVE  j - 1 \in 1..Len(wire') /\ wire'[j - 1] = wire[j]
    <3>1. j - 1 \in 1..Len(wire') BY <2>4, <1>1, <1>10
    <3> QED BY <3>1, <1>1
  <2>5. WireFrom(r)'
    <3> SUFFICES ASSUME NEW i \in 1..Len(wire'), wire'[i].req = r
                 PROVE  /\ AfterHeld(r) <= wire'[i].seq
                        /\ \A p \in AfterHeld(r)..wire'[i].seq-1 :
                              \E j \in 1..i-1 : wire'[j].req = r /\ wire'[j].seq = p
      BY <2>2 DEF WireFrom
    <3>1. wire'[i] = wire[i + 1] /\ i + 1 \in 1..Len(wire) BY <1>1
    <3>2. AfterHeld(r) <= wire'[i].seq BY <3>1, <1>3 DEF WireFrom
    <3>3. ASSUME NEW p \in AfterHeld(r)..wire'[i].seq-1
          PROVE  \E j \in 1..i-1 : wire'[j].req = r /\ wire'[j].seq = p
      <4>1. PICK j \in 1..(i+1)-1 : wire[j].req = r /\ wire[j].seq = p
        BY <3>1, <1>3 DEF WireFrom
      <4>2. j \in 1..Len(wire) BY <3>1, <1>1
      <4>3. j - 1 \in 1..Len(wire') /\ wire'[j - 1] = wire[j] BY <4>1, <4>2, <2>4
      <4>4. j - 1 \in 1..i-1 BY <4>3, <4>1
      <4> QED BY <4>1, <4>3, <4>4
    <3> QED BY <3>2, <3>3
  <2>6. WireTo(r)'
    <3> SUFFICES ASSUME peer[r] = "streaming", ~done
                 PROVE  /\ AfterHeld(r) <= sent[r] + 1
                        /\ \A p \in AfterHeld(r)..sent[r] :
                              \E j \in 1..Len(wire') : wire'[j].req = r /\ wire'[j].seq = p
      BY <2>2, <1>0 DEF WireTo, done
    <3>1. ASSUME NEW p \in AfterHeld(r)..sent[r]
          PROVE  \E j \in 1..Len(wire') : wire'[j].req = r /\ wire'[j].seq = p
      <4>1. PICK j \in 1..Len(wire) : wire[j].req = r /\ wire[j].seq = p BY <1>3 DEF WireTo
      <4> QED BY <4>1, <2>4
    <3> QED BY <3>1, <1>3 DEF WireTo
  <2> QED BY <2>3, <2>5, <2>6, <1>7, <1>8
<1> QED BY <1>9, <1>10

(* The reader puts the frame it holds into the mailbox, or finds it over. *)
LEMMA OrderDeliver ==
  ASSUME TypeOK, InOrder, WireClosed, WokenLate, RouteDeliver, NEW r \in Requests, Listening(r)
  PROVE  MailInOrder(r)' /\ HeldInOrder(r)' /\ WireGrows(r)' /\ WireFrom(r)' /\ WireTo(r)'
<1>0. /\ held # NoFrame /\ held' = NoFrame
      /\ \/ mail' = [mail EXCEPT ![held.req] = Append(@, held)]
         \/ over[held.req] /\ UNCHANGED mail
      /\ UNCHANGED <<pc, got, wire, peer, sent, step>>
  BY DEF RouteDeliver, handlerVars, peerVars
<1>1. held \in Frame /\ held.req \in Requests /\ mail \in [Requests -> Seq(Frame)]
  BY <1>0, FramesTyped DEF Frame, TypeOK
<1>2. MailInOrder(r) /\ HeldInOrder(r) /\ WireGrows(r) /\ WireFrom(r) /\ WireTo(r)
  BY DEF InOrder
<1>3. Expected(r)' = Expected(r) BY <1>0 DEF Expected
<1>4. Expected(r) \in Nat /\ AfterMail(r) \in Nat /\ Len(mail[r]) \in Nat BY PlacesTyped
<1>5. HeldInOrder(r)' /\ WireGrows(r)' BY <1>0, <1>2 DEF HeldInOrder, WireGrows
<1>6. ASSUME AfterHeld(r)' = AfterHeld(r) PROVE WireFrom(r)' /\ WireTo(r)'
  BY <1>6, <1>0, <1>2 DEF WireFrom, WireTo, done
<1>7. CASE held.req # r
  <2>1. mail'[r] = mail[r] BY <1>0, <1>1, <1>7
  <2>2. AfterHeld(r)' = AfterHeld(r) BY <2>1, <1>0, <1>3, <1>7 DEF AfterHeld, AfterMail
  <2>3. MailInOrder(r)' BY <2>1, <1>2, <1>3 DEF MailInOrder
  <2> QED BY <2>2, <2>3, <1>5, <1>6
<1>8. CASE held.req = r /\ mail' = [mail EXCEPT ![held.req] = Append(@, held)]
  <2>1. mail'[r] = Append(mail[r], held) BY <1>1, <1>8
  <2>2. /\ Len(mail'[r]) = Len(mail[r]) + 1 /\ mail'[r][Len(mail[r]) + 1] = held
        /\ \A i \in 1..Len(mail[r]) : mail'[r][i] = mail[r][i]
    <3>1. mail[r] \in Seq(Frame) BY <1>1
    <3> QED BY <3>1, <2>1, <1>1, AppendFacts
  <2>3. AfterHeld(r)' = AfterHeld(r)
    BY <2>2, <1>0, <1>3, <1>4, <1>8 DEF AfterHeld, AfterMail
  <2>4. MailInOrder(r)'
    <3> SUFFICES ASSUME NEW i \in 1..Len(mail'[r])
                 PROVE  mail'[r][i].seq = Expected(r) + i - 1
      BY <1>3 DEF MailInOrder
    <3>1. CASE i \in 1..Len(mail[r]) BY <3>1, <2>2, <1>2 DEF MailInOrder
    <3>2. CASE i = Len(mail[r]) + 1
      <4>1. held.seq = Expected(r) + Len(mail[r])
        BY <1>0, <1>2, <1>8 DEF HeldInOrder, AfterMail
      <4> QED BY <4>1, <3>2, <2>2, <1>4
    <3> QED BY <3>1, <3>2, <2>2, <1>4
  <2> QED BY <2>3, <2>4, <1>5, <1>6
<1>9. CASE held.req = r /\ over[held.req] /\ UNCHANGED mail
  <2>1. done BY <1>9 DEF WokenLate, Detached, done
  <2>2. wire' = <<>> /\ done' BY <2>1, <1>0 DEF WireClosed, done
  <2>3. MailInOrder(r)' BY <1>2, <1>3, <1>9 DEF MailInOrder
  <2>4. WireFrom(r)' /\ WireTo(r)' BY <2>2 DEF WireFrom, WireTo
  <2> QED BY <2>3, <2>4, <1>5
<1> QED BY <1>0, <1>7, <1>8, <1>9

(* The place of the frame that the client sends next. *)
NextPlace(r) == IF peer[r] = "ready" THEN 0 ELSE sent[r] + 1

(* The next frame goes after all others, and no place before it is missing. *)
LEMMA PlaceIsNext ==
  ASSUME TypeOK, InOrder, FramesSound, ~done, NEW r \in Requests, Listening(r),
         peer[r] \in {"ready", "streaming"}
  PROVE  /\ NextPlace(r) \in Nat /\ AfterHeld(r) <= NextPlace(r)
         /\ \A i \in 1..Len(wire) : wire[i].req = r => wire[i].seq < NextPlace(r)
         /\ \A p \in AfterHeld(r)..NextPlace(r)-1 :
               \E j \in 1..Len(wire) : wire[j].req = r /\ wire[j].seq = p
<1>1. sent[r] \in Nat /\ AfterHeld(r) \in Nat /\ AfterMail(r) \in Nat /\ Len(mail[r]) \in Nat
  BY PlacesTyped
<1>2. \A i \in 1..Len(wire) : wire[i] \in Frame BY FramesTyped
<1>3. CASE peer[r] = "ready"
  <2>1. peer[r] \notin Answering BY <1>3 DEF Answering
  <2>2. \A i \in 1..Len(wire) : wire[i].req # r BY <2>1 DEF FramesSound, SoundIn
  <2>3. ~(held # NoFrame /\ held.req = r) BY <2>1 DEF FramesSound, SoundIn
  <2>4. \A i \in 1..Len(mail[r]) : FALSE BY <2>1 DEF FramesSound, SoundIn
  <2>5. Len(mail[r]) = 0 BY <2>4, <1>1
  <2>6. pc[r] \notin Streaming BY <2>1 DEF FramesSound
  <2>7. AfterHeld(r) = 0 BY <2>3, <2>5, <2>6 DEF AfterHeld, AfterMail, Expected
  <2>8. NextPlace(r) = 0 BY <1>3 DEF NextPlace
  <2>9. AfterHeld(r)..NextPlace(r)-1 = {} BY <2>7, <2>8
  <2> QED BY <2>2, <2>7, <2>8, <2>9
<1>4. CASE peer[r] = "streaming"
  <2>1. NextPlace(r) = sent[r] + 1 BY <1>4 DEF NextPlace
  <2>2. WireTo(r) BY DEF InOrder
  <2>3. ASSUME NEW i \in 1..Len(wire), wire[i].req = r PROVE wire[i].seq < sent[r] + 1
    <3>1. SoundIn(wire[i], peer, sent, failed) BY DEF FramesSound
    <3>2. wire[i].kind \in {"start", "chunk"}
      BY <3>1, <2>3, <1>2, <1>4 DEF SoundIn, Frame, Kinds, Final
    <3> QED BY <3>1, <3>2, <2>3, <1>1 DEF SoundIn
  <2>4. (sent[r] + 1) - 1 = sent[r] BY <1>1
  <2>5. NextPlace(r) - 1 = sent[r] BY <2>1, <2>4
  <2>6. /\ AfterHeld(r) <= sent[r] + 1
        /\ \A p \in AfterHeld(r)..sent[r] :
              \E j \in 1..Len(wire) : wire[j].req = r /\ wire[j].seq = p
    BY <2>2, <1>4 DEF WireTo
  <2>7. sent[r] + 1 \in Nat BY <1>1
  <2> QED BY <2>1, <2>3, <2>5, <2>6, <2>7
<1> QED BY <1>3, <1>4

(* The client sends a frame for r; x is any request. *)
LEMMA OrderEmit ==
  ASSUME TypeOK, InOrder, FramesSound, NEW r \in Requests, NEW k \in Kinds,
         NEW n \in 0..MaxChunks+1, Emit(r, k, n), n = NextPlace(r),
         peer[r] \in {"ready", "streaming"},
         peer'[r] = "streaming" => sent'[r] = n,
         \A y \in Requests \ {r} : peer'[y] = peer[y] /\ sent'[y] = sent[y],
         NEW x \in Requests, Listening(x)
  PROVE  MailInOrder(x)' /\ HeldInOrder(x)' /\ WireGrows(x)' /\ WireFrom(x)' /\ WireTo(x)'
<1> DEFINE f == [req |-> r, kind |-> k, seq |-> n]
           m == Len(wire) + 1
<1>0. /\ wire' = Append(wire, f) /\ ~done
      /\ UNCHANGED <<pc, got, mail, held, step>>
  BY DEF Emit, handlerVars, mailVars
<1>1. f \in Frame /\ f.req = r /\ f.seq = n BY DEF Frame
<1> HIDE DEF f
<1>2. /\ Len(wire) \in Nat /\ Len(wire') = m /\ wire'[m] = f
      /\ \A i \in 1..Len(wire) : wire'[i] = wire[i] /\ i \in 1..Len(wire')
  <2>1. wire \in Seq(Frame) BY DEF TypeOK
  <2> QED BY <2>1, <1>0, <1>1, AppendFacts
<1>3. MailInOrder(x) /\ HeldInOrder(x) /\ WireGrows(x) /\ WireFrom(x) /\ WireTo(x)
  BY DEF InOrder
<1>4. /\ Expected(x)' = Expected(x) /\ AfterMail(x)' = AfterMail(x)
      /\ AfterHeld(x)' = AfterHeld(x)
  BY <1>0 DEF Expected, AfterMail, AfterHeld
<1>5. MailInOrder(x)' /\ HeldInOrder(x)'
  BY <1>0, <1>3, <1>4 DEF MailInOrder, HeldInOrder
<1>6. \A i \in 1..Len(wire') : i \in 1..Len(wire) \/ i = m BY <1>2
<1>7. \A i \in 1..Len(wire) : wire[i].req = x =>
         /\ AfterHeld(x) <= wire[i].seq
         /\ \A p \in AfterHeld(x)..wire[i].seq-1 :
               \E j \in 1..i-1 : wire'[j].req = x /\ wire'[j].seq = p
  <2> SUFFICES ASSUME NEW i \in 1..Len(wire), wire[i].req = x
               PROVE  /\ AfterHeld(x) <= wire[i].seq
                      /\ \A p \in AfterHeld(x)..wire[i].seq-1 :
                            \E j \in 1..i-1 : wire'[j].req = x /\ wire'[j].seq = p
    OBVIOUS
  <2>1. \A j \in 1..i-1 : wire'[j] = wire[j] BY <1>2
  <2> QED BY <2>1, <1>3 DEF WireFrom
<1>8. CASE x # r
  <2>1. wire'[m].req # x BY <1>1, <1>2, <1>8
  <2>2. WireGrows(x)'
    <3> SUFFICES ASSUME NEW i \in 1..Len(wire'), NEW j \in 1..Len(wire'), i < j,
                        wire'[i].req = x, wire'[j].req = x
                 PROVE  wire'[i].seq < wire'[j].seq
      BY DEF WireGrows
    <3>1. i \in 1..Len(wire) /\ j \in 1..Len(wire) BY <2>1, <1>6
    <3> QED BY <3>1, <1>2, <1>3 DEF WireGrows
  <2>3. WireFrom(x)' BY <2>1, <1>2, <1>4, <1>6, <1>7 DEF WireFrom
  <2>4. WireTo(x)'
    <3>1. peer'[x] = peer[x] /\ sent'[x] = sent[x] BY <1>8
    <3> QED BY <3>1, <1>0, <1>2, <1>3, <1>4 DEF WireTo
  <2> QED BY <2>2, <2>3, <2>4, <1>5
<1>9. CASE x = r
  <2>1. /\ n \in Nat /\ AfterHeld(x) <= n
        /\ \A i \in 1..Len(wire) : wire[i].req = x => wire[i].seq < n
        /\ \A p \in AfterHeld(x)..n-1 : \E j \in 1..Len(wire) : wire[j].req = x /\ wire[j].seq = p
    BY <1>0, <1>9, PlaceIsNext
  <2>2. AfterHeld(x) \in Nat BY PlacesTyped
  <2>3. wire'[m].req = x /\ wire'[m].seq = n BY <1>1, <1>2, <1>9
  <2>4. WireGrows(x)'
    <3> SUFFICES ASSUME NEW i \in 1..Len(wire'), NEW j \in 1..Len(wire'), i < j,
                        wire'[i].req = x, wire'[j].req = x
                 PROVE  wire'[i].seq < wire'[j].seq
      BY DEF WireGrows
    <3>1. i \in 1..Len(wire) BY <1>2
    <3>2. CASE j \in 1..Len(wire) BY <3>1, <3>2, <1>2, <1>3 DEF WireGrows
    <3>3. CASE j = m BY <3>1, <3>3, <2>1, <2>3, <1>2
    <3> QED BY <3>2, <3>3, <1>6
  <2>5. WireFrom(x)'
    <3> SUFFICES ASSUME NEW i \in 1..Len(wire'), wire'[i].req = x
                 PROVE  /\ AfterHeld(x) <= wire'[i].seq
                        /\ \A p \in AfterHeld(x)..wire'[i].seq-1 :
                              \E j \in 1..i-1 : wire'[j].req = x /\ wire'[j].seq = p
      BY <1>4 DEF WireFrom
    <3>1. CASE i \in 1..Len(wire) BY <3>1, <1>2, <1>7
    <3>2. CASE i = m
      <4>1. m - 1 = Len(wire) BY <1>2
      <4> QED BY <4>1, <3>2, <2>1, <2>3, <1>2
    <3> QED BY <3>1, <3>2, <1>6
  <2>6. WireTo(x)'
    <3> SUFFICES ASSUME peer'[x] = "streaming"
                 PROVE  /\ AfterHeld(x) <= n + 1
                        /\ \A p \in AfterHeld(x)..n :
                              \E j \in 1..Len(wire') : wire'[j].req = x /\ wire'[j].seq = p
      BY <1>4, <1>9 DEF WireTo
    <3>1. AfterHeld(x) <= n + 1 BY <2>1, <2>2
    <3>2. ASSUME NEW p \in AfterHeld(x)..n
          PROVE  \E j \in 1..Len(wire') : wire'[j].req = x /\ wire'[j].seq = p
      <4>1. CASE p = n
        <5>1. m \in 1..Len(wire') BY <1>2
        <5> QED BY <5>1, <4>1, <2>3
      <4>2. CASE p # n
        <5>1. p \in AfterHeld(x)..n-1 BY <4>2, <2>1, <2>2
        <5> QED BY <5>1, <2>1, <1>2
      <4> QED BY <4>1, <4>2
    <3> QED BY <3>1, <3>2
  <2> QED BY <2>4, <2>5, <2>6, <1>5
<1> QED BY <1>8, <1>9

(* A frame of a handler that still listens finds its mailbox in the map. *)
LEMMA ListenersRouted ==
  ASSUME IInv, AskInv, FrameInv, RouteLookup,
         NEW r \in Requests, Listening(r), Head(wire).req = r
  PROVE  r \in pending
<1> SUFFICES ASSUME r \notin pending PROVE FALSE OBVIOUS
<1>1. ~over[r] BY DEF FrameInv, WokenLate, RouteLookup, Detached, done
<1>2. pc[r] \notin Engaged BY <1>1 DEF IInv, Registered
<1>3. Unasked(r)
  BY <1>2 DEF AskInv, Attentive, Uploading, Sending, Engaged
<1>4. peer[r] = "none" BY <1>3 DEF AskInv, AskedOnce
<1>5. Head(wire) = wire[1] /\ 1 \in 1..Len(wire)
  <2>1. wire \in Seq(Frame) /\ wire # <<>> BY DEF IInv, TypeOK, RouteLookup
  <2> QED BY <2>1, TailFacts
<1>6. SoundIn(wire[1], peer, sent, failed) BY <1>5 DEF FrameInv, FramesSound
<1> QED BY <1>4, <1>5, <1>6 DEF SoundIn, Answering

(* Every step keeps the frames in order. *)
LEMMA StepInOrder == IInv /\ AskInv /\ FrameInv /\ InOrder /\ [Next]_vars => InOrder'
<1> SUFFICES ASSUME IInv, AskInv, FrameInv, InOrder, [Next]_vars PROVE InOrder' OBVIOUS
<1> DEFINE Ordered(x) ==
      /\ pc[x] \notin Streaming => got[x] = <<>>
      /\ MailInOrder(x) /\ HeldInOrder(x) /\ WireGrows(x) /\ WireFrom(x) /\ WireTo(x)
<1>0. /\ TypeOK /\ FramesSound /\ WireClosed /\ WokenLate
      /\ pc \in [Requests -> PCs] /\ outcome \in [Requests -> Outcomes]
      /\ got \in [Requests -> Seq(0..MaxChunks+1)] /\ mail \in [Requests -> Seq(Frame)]
  BY DEF IInv, FrameInv, TypeOK
<1>a. \A x \in Requests : Listening(x) => Ordered(x) BY DEF InOrder
<1>b. ASSUME \A x \in Requests : Listening(x)' => Ordered(x)' PROVE InOrder'
  BY <1>b DEF InOrder
<1>c. ASSUME UNCHANGED <<held, wire, sent>>, NEW x \in Requests, Listening(x),
             got'[x] = got[x], mail'[x] = mail[x], pc'[x] \in Streaming <=> pc[x] \in Streaming,
             peer'[x] = "streaming" => peer[x] = "streaming", done => done'
      PROVE  Ordered(x)'
  BY <1>c, OrderKept
<1> HIDE DEF Ordered
<1>1. ASSUME UNCHANGED <<held, wire, sent, got, mail, pc, outcome>>, done => done',
             \A x \in Requests : peer'[x] = "streaming" => peer[x] = "streaming"
      PROVE  InOrder'
  BY <1>1, <1>b, <1>c DEF Listening
<1>2. ASSUME NEW r \in Requests, Handler(r) \/ Arrive(r) \/ Caller(r) \/ CallerLeaves(r)
      PROVE  InOrder'
  <2>1. UNCHANGED <<held, wire, sent, peer, step>>
    BY <1>2
    DEF Handler, Arrive, Caller, CallerLeaves, RegisterPending, SendCheck, SendEnqueue, SendAborts,
        UploadChunk, UploadEnds, FirstFrame, StreamFrame, WriteReturns, Dropped, TimesOut, Finish,
        peerVars
  <2>2. ASSUME UNCHANGED <<got, mail>>,
               \A x \in Requests \ {r} : pc'[x] = pc[x] /\ outcome'[x] = outcome[x],
               Listening(r)' => Listening(r) /\ (pc'[r] \in Streaming <=> pc[r] \in Streaming)
        PROVE  InOrder'
    BY <2>1, <2>2, <1>b, <1>c DEF Listening, done
  <2>3. ASSUME \A x \in Requests \ {r} : /\ pc'[x] = pc[x] /\ outcome'[x] = outcome[x]
                                         /\ got'[x] = got[x] /\ mail'[x] = mail[x],
               Listening(r)' => Ordered(r)'
        PROVE  InOrder'
    BY <2>1, <2>3, <1>b, <1>c DEF Listening, done
  <2>4. CASE FirstFrame(r)
    <3>1. /\ pc[r] = "first" /\ mail[r] # <<>> /\ mail'[r] = Tail(mail[r]) /\ UNCHANGED got
          /\ \A x \in Requests \ {r} : /\ pc'[x] = pc[x] /\ outcome'[x] = outcome[x]
                                        /\ mail'[x] = mail[x]
          /\ Listening(r)' => pc'[r] \in Streaming /\ Listening(r)
      BY <2>4, <1>0 DEF FirstFrame, Goto, Decide, Listening
    <3>2. ASSUME Listening(r)' PROVE Ordered(r)'
      <4>1. got[r] = <<>> BY <3>1, <3>2, <1>a DEF Ordered
      <4>2. Len(got[r]) = 0 BY <4>1
      <4>3. Expected(r)' = Expected(r) + 1 BY <3>1, <3>2, <4>2 DEF Expected
      <4> QED BY <3>1, <3>2, <4>3, <2>1, <1>0, OrderTaken DEF Ordered
    <3> QED BY <3>1, <3>2, <2>3
  <2>5. CASE StreamFrame(r)
    <3>1. /\ pc[r] \in Streaming /\ mail[r] # <<>> /\ mail'[r] = Tail(mail[r])
          /\ \A x \in Requests \ {r} : /\ pc'[x] = pc[x] /\ outcome'[x] = outcome[x]
                                        /\ got'[x] = got[x] /\ mail'[x] = mail[x]
      BY <2>5, <1>0 DEF StreamFrame, Goto, Decide
    <3>2. Listening(r)' => /\ pc'[r] \in Streaming /\ Listening(r)
                           /\ got'[r] = Append(got[r], Head(mail[r]).seq)
      BY <2>5, <1>0 DEF StreamFrame, Goto, Decide, Listening
    <3>3. ASSUME Listening(r)' PROVE Ordered(r)'
      <4>1. Head(mail[r]).seq \in 0..MaxChunks+1
        <5>1. Head(mail[r]) \in Frame BY <1>0, <3>1, Receive
        <5> QED BY <5>1 DEF Frame
      <4>2. Len(got'[r]) = Len(got[r]) + 1 /\ Len(got[r]) \in Nat
        <5>1. got[r] \in Seq(0..MaxChunks+1) BY <1>0
        <5> QED BY <5>1, <4>1, <3>2, <3>3, AppendFacts
      <4>3. Expected(r)' = Expected(r) + 1 BY <3>1, <3>2, <3>3, <4>2 DEF Expected
      <4> QED BY <3>1, <3>2, <3>3, <4>3, <2>1, <1>0, OrderTaken DEF Ordered
    <3> QED BY <3>1, <3>3, <2>3
  <2>6. CASE Arrive(r) \/ RegisterPending(r) \/ Caller(r) \/ SendEnqueue(r)
             \/ Finish(r) \/ CallerLeaves(r)
    BY <2>6, <2>2, <1>0
    DEF Arrive, RegisterPending, Caller, UploadChunk, UploadEnds, WriteReturns, SendEnqueue,
        Finish, CallerLeaves, Goto, Send, Sent, Decide, Listening, mailVars
  <2>7. CASE SendCheck(r) \/ SendAborts(r)
    BY <2>7, <2>2, <1>0
    DEF SendCheck, SendAborts, SendFailed, Goto, Send, Sent, Decide, Listening, mailVars
  <2>8. CASE Dropped(r) \/ TimesOut(r)
    BY <2>8, <2>2, <1>0 DEF Dropped, TimesOut, Goto, Send, Decide, Listening, mailVars
  <2> QED BY <1>2, <2>4, <2>5, <2>6, <2>7, <2>8 DEF Handler
<1>3. CASE RouteLookup
  <2>1. UNCHANGED <<outcome, pc, got>> BY <1>3 DEF RouteLookup, handlerVars
  <2>2. ASSUME NEW x \in Requests, Listening(x)' PROVE Ordered(x)'
    <3>1. Listening(x) BY <2>1, <2>2 DEF Listening
    <3>2. Head(wire).req = x => x \in pending BY <3>1, <1>3, ListenersRouted
    <3> QED BY <3>1, <3>2, <2>1, <1>0, <1>3, <1>a, OrderLookup DEF Ordered
  <2> QED BY <2>2, <1>b
<1>4. CASE RouteDeliver
  <2>1. UNCHANGED <<outcome, pc, got>> BY <1>4 DEF RouteDeliver, handlerVars
  <2>2. ASSUME NEW x \in Requests, Listening(x)' PROVE Ordered(x)'
    <3>1. Listening(x) BY <2>1, <2>2 DEF Listening
    <3> QED BY <3>1, <2>1, <1>0, <1>4, <1>a, OrderDeliver DEF Ordered
  <2> QED BY <2>2, <1>b
<1>5. CASE WriterWrites
  <2>1. /\ UNCHANGED <<held, wire, sent, got, mail, pc, outcome, step>>
        /\ \A x \in Requests : peer'[x] = "streaming" => peer[x] = "streaming"
    <3>1. peer \in [Requests -> {"none", "assembling", "ready", "streaming", "stopped"}]
      BY <1>0, FramesTyped
    <3> QED BY <3>1, <1>5 DEF WriterWrites, handlerVars, mailVars
  <2> QED BY <2>1, <1>1 DEF done
<1>6. CASE WriterEnds \/ CloseBegins \/ CloseMailboxes \/ CloseDetach
  <2>1. /\ UNCHANGED <<held, wire, sent, got, mail, pc, outcome, peer>>
        /\ done => done'
    BY <1>6
    DEF WriterEnds, CloseBegins, CloseMailboxes, CloseDetach, handlerVars, mailVars, peerVars, done
  <2> QED BY <2>1, <1>1
<1>7. CASE CloseConn
  <2>1. /\ UNCHANGED <<held, sent, got, mail, pc, outcome, peer>>
        /\ wire' = <<>> /\ done'
    BY <1>7 DEF CloseConn, handlerVars, mailVars, done
  <2>2. ASSUME NEW x \in Requests, Listening(x)' PROVE Ordered(x)'
    <3>1. Ordered(x) BY <2>1, <2>2, <1>a DEF Listening
    <3>2. Expected(x)' = Expected(x) /\ AfterMail(x)' = AfterMail(x)
      BY <2>1 DEF Expected, AfterMail
    <3>3. MailInOrder(x)' /\ HeldInOrder(x)'
      BY <3>1, <3>2, <2>1 DEF Ordered, MailInOrder, HeldInOrder
    <3>4. WireGrows(x)' /\ WireFrom(x)' /\ WireTo(x)'
      BY <2>1 DEF WireGrows, WireFrom, WireTo
    <3> QED BY <3>1, <3>3, <3>4, <2>1 DEF Ordered
  <2> QED BY <2>2, <1>b
<1>8. ASSUME NEW r \in Requests, Client(r) PROVE InOrder'
  <2>0. /\ peer \in [Requests -> {"none", "assembling", "ready", "streaming", "stopped"}]
        /\ sent \in [Requests -> 0..MaxChunks]
    BY <1>0, FramesTyped
  <2>1. ASSUME NEW k \in Kinds, NEW n \in 0..MaxChunks+1, Emit(r, k, n), n = NextPlace(r),
               peer[r] \in {"ready", "streaming"},
               peer'[r] = "streaming" => sent'[r] = n,
               \A y \in Requests \ {r} : peer'[y] = peer[y] /\ sent'[y] = sent[y]
        PROVE  InOrder'
    <3>1. UNCHANGED <<outcome, pc, got>> BY <2>1 DEF Emit, handlerVars
    <3>2. ASSUME NEW x \in Requests, Listening(x)' PROVE Ordered(x)'
      <4>1. Listening(x) BY <3>1, <3>2 DEF Listening
      <4> QED BY <4>1, <3>1, <2>1, <1>0, <1>a, OrderEmit DEF Ordered
    <3> QED BY <3>2, <1>b
  <2>2. CASE PeerStarts(r)
    <3>1. /\ Emit(r, "start", 0) /\ UNCHANGED sent /\ peer[r] = "ready"
          /\ peer' = [peer EXCEPT ![r] = "streaming"]
      BY <2>2 DEF PeerStarts
    <3>2. NextPlace(r) = 0 /\ sent[r] = 0
      BY <3>1, <1>0 DEF NextPlace, FramesSound, Answering
    <3>3. "start" \in Kinds /\ 0 \in 0..MaxChunks+1 BY RelayAssumption DEF Kinds
    <3> QED BY <3>1, <3>2, <3>3, <2>0, <2>1
  <2>3. CASE PeerSendsChunk(r)
    <3>1. /\ Emit(r, "chunk", sent[r] + 1) /\ UNCHANGED peer /\ peer[r] = "streaming"
          /\ sent[r] < MaxChunks /\ sent' = [sent EXCEPT ![r] = @ + 1]
      BY <2>3 DEF PeerSendsChunk
    <3>2. NextPlace(r) = sent[r] + 1 /\ sent'[r] = sent[r] + 1 BY <3>1, <2>0 DEF NextPlace
    <3>3. "chunk" \in Kinds /\ sent[r] + 1 \in 0..MaxChunks+1
      BY <2>0, RelayAssumption DEF Kinds
    <3> QED BY <3>1, <3>2, <3>3, <2>0, <2>1
  <2>4. CASE PeerEnds(r)
    <3>1. PICK k \in Final : Emit(r, k, NextPlace(r)) BY <2>4 DEF PeerEnds, Final, NextPlace
    <3>2. /\ UNCHANGED sent /\ peer' = [peer EXCEPT ![r] = "stopped"]
          /\ peer[r] \in {"ready", "streaming"}
      BY <2>4 DEF PeerEnds
    <3>3. k \in Kinds /\ NextPlace(r) \in 0..MaxChunks+1
      BY <2>0, RelayAssumption DEF Kinds, Final, NextPlace
    <3>4. peer'[r] # "streaming" /\ \A y \in Requests \ {r} : peer'[y] = peer[y] BY <3>2, <2>0
    <3> QED BY <3>1, <3>2, <3>3, <3>4, <2>1
  <2> QED BY <1>8, <2>2, <2>3, <2>4 DEF Client
<1>9. CASE UNCHANGED vars
  BY <1>9, <1>1 DEF vars, handlerVars, mailVars, peerVars, done
<1> QED BY <1>2, <1>3, <1>4, <1>5, <1>6, <1>7, <1>8, <1>9 DEF Next, Reader, CloseStep

(* Nothing is on its way at first. *)
LEMMA InitInOrder == Init => InOrder
<1> SUFFICES ASSUME Init, NEW r \in Requests
             PROVE  /\ got[r] = <<>> /\ MailInOrder(r) /\ HeldInOrder(r)
                    /\ WireGrows(r) /\ WireFrom(r) /\ WireTo(r)
  BY DEF InOrder
<1>1. /\ got[r] = <<>> /\ mail[r] = <<>> /\ wire = <<>> /\ held = NoFrame /\ peer[r] = "none"
  BY DEF Init
<1>2. Len(mail[r]) = 0 /\ Len(wire) = 0 BY <1>1
<1>3. MailInOrder(r) BY <1>2 DEF MailInOrder
<1>4. HeldInOrder(r) BY <1>1 DEF HeldInOrder
<1>5. WireGrows(r) BY <1>2 DEF WireGrows
<1>6. WireFrom(r) BY <1>2 DEF WireFrom
<1>7. WireTo(r) BY <1>1 DEF WireTo
<1> QED BY <1>1, <1>3, <1>4, <1>5, <1>6, <1>7

-----------------------------------------------------------------------------
Delivered == NoSilentGap /\ Ended

(* The client never takes anything back. *)
LEMMA StepPeersAdvance == IInv /\ AskInv /\ FrameInv /\ [Next]_vars => PeersAdvance
<1> SUFFICES ASSUME IInv, AskInv, FrameInv, [Next]_vars PROVE PeersAdvance OBVIOUS
<1>0. /\ TypeOK /\ sent \in [Requests -> 0..MaxChunks]
      /\ peer \in [Requests -> {"none", "assembling", "ready", "streaming", "stopped"}]
  BY FramesTyped DEF IInv
<1>a. \A x \in Requests : sent[x] \in Nat /\ (peer[x] \notin Answering => sent[x] = 0)
  BY <1>0 DEF FrameInv, FramesSound
<1>1. ASSUME UNCHANGED <<peer, sent, failed>> PROVE PeersAdvance BY <1>1, <1>a DEF PeersAdvance
<1>2. ASSUME NEW r \in Requests, Handler(r) \/ Arrive(r) \/ Caller(r) \/ CallerLeaves(r)
      PROVE  PeersAdvance
  BY <1>1, <1>2
  DEF Handler, Arrive, Caller, CallerLeaves, RegisterPending, SendCheck, SendEnqueue, SendAborts,
      UploadChunk, UploadEnds, FirstFrame, StreamFrame, WriteReturns, Dropped, TimesOut, Finish,
      peerVars
<1>3. CASE WriterWrites
  <2> DEFINE r == Head(sendQ).req
             k == Head(sendQ).kind
  <2>1. UNCHANGED <<sent, failed>> /\ sendQ # <<>> BY <1>3 DEF WriterWrites
  <2>2. /\ r \in Requests
        /\ k = "start" => peer[r] = "none"
        /\ k = "end" => peer[r] \in InUpload
    <3>1. sendQ \in Seq(QFrame) BY <1>0 DEF TypeOK
    <3>2. Head(sendQ) = sendQ[1] /\ 1 \in 1..Len(sendQ) BY <2>1, <3>1, TailFacts
    <3> QED BY <3>2, <1>0, QueueTyped DEF AskInv, QueueOrder
  <2>3. \/ UNCHANGED peer
        \/ k \in {"start", "end"} /\ \E l \in {"assembling", "ready"} : peer' = [peer EXCEPT ![r] = l]
        \/ peer' = [peer EXCEPT ![r] = "stopped"]
    BY <1>3 DEF WriterWrites
  <2> HIDE DEF r, k
  <2> QED BY <2>1, <2>2, <2>3, <1>0, <1>a DEF PeersAdvance, Answering, InUpload
<1>4. CASE Reader \/ WriterEnds \/ CloseBegins \/ CloseStep
  BY <1>4, <1>1
  DEF Reader, RouteLookup, RouteDeliver, WriterEnds, CloseBegins, CloseStep, CloseConn,
      CloseMailboxes, CloseDetach, peerVars
<1>5. ASSUME NEW r \in Requests, Client(r) PROVE PeersAdvance
  BY <1>5, <1>0, <1>a
  DEF Client, PeerStarts, PeerSendsChunk, PeerEnds, PeersAdvance, Answering
<1>6. CASE UNCHANGED vars BY <1>6, <1>1 DEF vars, peerVars
<1> QED BY <1>2, <1>3, <1>4, <1>5, <1>6 DEF Next

(* The frame at the head of a mailbox in mid-stream is the next one. *)
LEMMA NextInMail ==
  ASSUME TypeOK, Attentive, FramesSound, InOrder,
         NEW r \in Requests, pc[r] = "stream", mail[r] # <<>>
  PROVE  /\ Head(mail[r]).seq = Len(got[r]) + 1 /\ Len(got[r]) \in Nat /\ sent[r] \in Nat
         /\ Head(mail[r]).kind = "chunk" => Len(got[r]) < sent[r]
         /\ Head(mail[r]).kind = "end" => peer[r] = "stopped" /\ Len(got[r]) = sent[r]
         /\ Head(mail[r]).kind \in {"start", "bad", "fail"} => r \in failed
<1>1. Listening(r) BY DEF Attentive
<1>2. Head(mail[r]) = mail[r][1] /\ 1 \in 1..Len(mail[r])
  <2>1. mail[r] \in Seq(Frame) BY DEF TypeOK
  <2> QED BY <2>1, TailFacts
<1>3. Expected(r) = Len(got[r]) + 1 /\ Len(got[r]) \in Nat /\ sent[r] \in Nat
  BY PlacesTyped DEF Expected
<1>4. mail[r][1].seq = Len(got[r]) + 1 BY <1>1, <1>2, <1>3 DEF InOrder, MailInOrder
<1>5. SoundIn(mail[r][1], peer, sent, failed) /\ mail[r][1].req = r BY <1>2 DEF FramesSound
<1>6. mail[r][1].kind = "chunk" => Len(got[r]) + 1 \in 1..sent[r] BY <1>4, <1>5 DEF SoundIn
<1>7. mail[r][1].kind = "end" => peer[r] = "stopped" /\ Len(got[r]) + 1 \in {0, sent[r] + 1}
  BY <1>4, <1>5 DEF SoundIn, Final
<1>8. mail[r][1].kind \in {"start", "bad", "fail"} => r \in failed
  BY <1>3, <1>4, <1>5 DEF SoundIn
<1> QED BY <1>2, <1>3, <1>4, <1>6, <1>7, <1>8

(* What the caller has grows by the next chunk only, and ends complete. *)
LEMMA StepDelivered ==
  IInv /\ AskInv /\ FrameInv /\ InOrder /\ Delivered /\ [Next]_vars => Delivered'
<1> SUFFICES ASSUME IInv, AskInv, FrameInv, InOrder, Delivered, [Next]_vars
             PROVE  Delivered'
  OBVIOUS
<1>0. /\ TypeOK /\ FramesSound /\ Attentive /\ PeersAdvance
      /\ pc \in [Requests -> PCs] /\ outcome \in [Requests -> Outcomes]
      /\ got \in [Requests -> Seq(0..MaxChunks+1)]
  BY StepPeersAdvance DEF IInv, AskInv, FrameInv, TypeOK
<1>a. \A x \in Requests : /\ Len(got[x]) \in Nat /\ sent[x] \in Nat /\ sent'[x] \in Nat
                          /\ sent'[x] >= sent[x]
  <2>1. TypeOK' BY <1>0, StepTypeOK
  <2> QED BY <2>1, <1>0, PlacesTyped, FramesTyped DEF TypeOK, PeersAdvance
<1>b. \A x \in Requests : /\ Len(got[x]) <= sent[x]
                          /\ \A i \in 1..Len(got[x]) : got[x][i] = i
                          /\ outcome[x] = "end" => peer[x] = "stopped" /\ Len(got[x]) = sent[x]
  BY DEF Delivered, NoSilentGap, Ended
<1>1. ASSUME NEW x \in Requests, got'[x] = got[x], outcome'[x] = "end" => outcome[x] = "end"
      PROVE  /\ Len(got'[x]) <= sent'[x]
             /\ \A i \in 1..Len(got'[x]) : got'[x][i] = i
             /\ outcome'[x] = "end" => peer'[x] = "stopped" /\ Len(got'[x]) = sent'[x]
  BY <1>1, <1>0, <1>a, <1>b DEF PeersAdvance
<1>2. ASSUME UNCHANGED got, \A x \in Requests : outcome'[x] = "end" => outcome[x] = "end"
      PROVE  Delivered'
  BY <1>1, <1>2 DEF Delivered, NoSilentGap, Ended
<1>3. ASSUME NEW r \in Requests, Handler(r) \/ Arrive(r) \/ Caller(r) \/ CallerLeaves(r)
      PROVE  Delivered'
  <2>1. CASE StreamFrame(r)
    <3>1. /\ pc[r] = "stream" /\ mail[r] # <<>> /\ UNCHANGED <<peer, sent, failed>>
          /\ \A x \in Requests \ {r} : got'[x] = got[x] /\ outcome'[x] = outcome[x]
      BY <2>1, <1>0 DEF StreamFrame, Decide, peerVars
    <3>2. /\ Head(mail[r]).seq = Len(got[r]) + 1
          /\ Head(mail[r]).kind = "chunk" => Len(got[r]) < sent[r]
          /\ Head(mail[r]).kind = "end" => peer[r] = "stopped" /\ Len(got[r]) = sent[r]
      BY <3>1, <1>0, NextInMail
    <3>3. outcome[r] = "none" BY <3>1, <1>0 DEF Attentive, Listening
    <3>4. CASE Head(mail[r]).kind = "chunk"
      <4> DEFINE n == Len(got[r]) + 1
      <4>1. got'[r] = Append(got[r], n) /\ outcome'[r] = "none"
        BY <2>1, <3>2, <3>3, <3>4, <1>0 DEF StreamFrame
      <4>2. n \in 0..MaxChunks+1
        <5>1. Head(mail[r]) \in Frame BY <3>1, <1>0, Receive DEF TypeOK
        <5> QED BY <5>1, <3>2 DEF Frame
      <4>3. /\ Len(got'[r]) = n /\ got'[r][n] = n
            /\ \A i \in 1..Len(got[r]) : got'[r][i] = got[r][i]
        BY <4>1, <4>2, <1>0, AppendFacts
      <4>4. Len(got'[r]) <= sent[r] BY <4>3, <3>2, <3>4, <1>a
      <4>5. \A i \in 1..Len(got'[r]) : got'[r][i] = i BY <4>3, <1>a, <1>b
      <4> QED BY <4>1, <4>4, <4>5, <3>1, <1>1 DEF Delivered, NoSilentGap, Ended
    <3>5. CASE Head(mail[r]).kind # "chunk"
      <4>1. got'[r] = got[r] /\ (outcome'[r] = "end" => Head(mail[r]).kind = "end")
        BY <2>1, <3>5, <1>0 DEF StreamFrame, Decide
      <4> QED BY <4>1, <3>1, <3>2, <1>b, <1>1 DEF Delivered, NoSilentGap, Ended
    <3> QED BY <3>4, <3>5
  <2>2. CASE FirstFrame(r) BY <2>2, <1>0, <1>2 DEF FirstFrame, Decide
  <2>3. CASE Arrive(r) \/ RegisterPending(r) \/ Caller(r) \/ SendEnqueue(r)
             \/ Finish(r) \/ CallerLeaves(r)
    BY <2>3, <1>0, <1>2
    DEF Arrive, RegisterPending, Caller, UploadChunk, UploadEnds, WriteReturns, SendEnqueue,
        Finish, CallerLeaves, Decide
  <2>4. CASE SendCheck(r) \/ SendAborts(r)
    BY <2>4, <1>0, <1>2 DEF SendCheck, SendAborts, SendFailed, Decide
  <2>5. CASE Dropped(r) \/ TimesOut(r)
    BY <2>5, <1>0, <1>2 DEF Dropped, TimesOut, Decide
  <2> QED BY <1>3, <2>1, <2>2, <2>3, <2>4, <2>5 DEF Handler
<1>4. CASE Reader \/ WriterWrites \/ WriterEnds \/ CloseBegins \/ CloseStep
  BY <1>4, <1>2
  DEF Reader, RouteLookup, RouteDeliver, WriterWrites, WriterEnds, CloseBegins, CloseStep,
      CloseConn, CloseMailboxes, CloseDetach, handlerVars
<1>5. ASSUME NEW r \in Requests, Client(r) PROVE Delivered'
  BY <1>5, <1>2 DEF Client, PeerStarts, PeerSendsChunk, PeerEnds, Emit, handlerVars
<1>6. CASE UNCHANGED vars BY <1>6, <1>2 DEF vars, handlerVars
<1> QED BY <1>3, <1>4, <1>5, <1>6 DEF Next

(* A handler that just returns early has a reason, and it lasts. *)
LEMMA StepAccounted ==
  IInv /\ AskInv /\ FrameInv /\ InOrder /\ Accounted /\ [Next]_vars => Accounted'
<1> SUFFICES ASSUME IInv, AskInv, FrameInv, InOrder, Accounted, [Next]_vars
             PROVE  Accounted'
  OBVIOUS
<1>0. /\ TypeOK /\ FramesSound /\ WokenLate /\ Attentive /\ PeersAdvance
      /\ pc \in [Requests -> PCs] /\ outcome \in [Requests -> Outcomes]
      /\ gone \in [Requests -> BOOLEAN]
  BY StepPeersAdvance DEF IInv, AskInv, FrameInv, TypeOK
<1>a. \A x \in Requests : x \in failed => x \in failed' BY <1>0 DEF PeersAdvance
<1>1. ASSUME closed => closed',
             \A x \in Requests : outcome'[x] = outcome[x] \/ outcome'[x] \notin
                                    {"fail", "bad", "dropped", "left"},
             \A x \in Requests : gone[x] => gone'[x]
      PROVE  Accounted'
  BY <1>1, <1>a DEF Accounted
<1>2. ASSUME NEW r \in Requests, Handler(r) \/ Arrive(r) \/ Caller(r) \/ CallerLeaves(r)
      PROVE  Accounted'
  <2>1. ASSUME UNCHANGED <<gone, step>>, NEW o \in Outcomes, Decide(r, o),
               o \in {"fail", "bad"} => r \in failed,
               o = "dropped" => closed,
               o = "left" => gone[r]
        PROVE  Accounted'
    BY <2>1, <1>0, <1>a DEF Accounted, Decide, closed
  <2>2. CASE StreamFrame(r)
    <3>1. pc[r] = "stream" /\ mail[r] # <<>> /\ UNCHANGED <<gone, step>>
      BY <2>2 DEF StreamFrame
    <3>2. Head(mail[r]).kind \in {"start", "bad", "fail"} => r \in failed
      BY <3>1, <1>0, NextInMail
    <3>3. CASE UNCHANGED outcome BY <3>1, <3>3, <1>1 DEF closed
    <3>4. CASE Head(mail[r]).kind \in {"end", "fail"} /\ Decide(r, Head(mail[r]).kind)
      BY <3>1, <3>2, <3>4, <2>1 DEF Outcomes
    <3>5. CASE Head(mail[r]).kind \in {"start", "bad"} /\ Decide(r, "bad")
      BY <3>1, <3>2, <3>5, <2>1 DEF Outcomes
    <3> QED BY <2>2, <3>3, <3>4, <3>5 DEF StreamFrame
  <2>3. CASE Dropped(r)
    <3>1. pc[r] \in {"first", "stream"} /\ over[r] /\ UNCHANGED <<gone, step>>
      BY <2>3 DEF Dropped
    <3>2. Listening(r) BY <3>1, <1>0 DEF Attentive
    <3>3. closed BY <3>1, <3>2, <1>0 DEF WokenLate, Detached, closed
    <3> QED BY <3>1, <3>3, <2>1, <2>3 DEF Dropped, Outcomes
  <2>4. CASE TimesOut(r)
    <3>1. UNCHANGED <<gone, step>> BY <2>4 DEF TimesOut
    <3> QED BY <3>1, <2>1, <2>4 DEF TimesOut, Outcomes
  <2>5. CASE FirstFrame(r)
    BY <2>5, <1>0, <1>1 DEF FirstFrame, Decide, closed
  <2>6. CASE SendCheck(r) \/ SendAborts(r)
    BY <2>6, <1>0, <1>1 DEF SendCheck, SendAborts, SendFailed, Decide, closed
  <2>7. CASE Arrive(r) \/ RegisterPending(r) \/ Caller(r) \/ SendEnqueue(r)
             \/ Finish(r) \/ CallerLeaves(r)
    BY <2>7, <1>0, <1>1
    DEF Arrive, RegisterPending, Caller, UploadChunk, UploadEnds, WriteReturns, SendEnqueue,
        Finish, CallerLeaves, Decide, closed
  <2> QED BY <1>2, <2>2, <2>3, <2>4, <2>5, <2>6, <2>7 DEF Handler
<1>3. CASE Reader \/ WriterWrites \/ WriterEnds \/ CloseBegins \/ CloseStep
  BY <1>3, <1>1
  DEF Reader, RouteLookup, RouteDeliver, WriterWrites, WriterEnds, CloseBegins, CloseStep,
      CloseConn, CloseMailboxes, CloseDetach, handlerVars, closed
<1>4. ASSUME NEW r \in Requests, Client(r) PROVE Accounted'
  BY <1>4, <1>1 DEF Client, PeerStarts, PeerSendsChunk, PeerEnds, Emit, handlerVars, closed
<1>5. CASE UNCHANGED vars BY <1>5, <1>1 DEF vars, handlerVars, closed
<1> QED BY <1>2, <1>3, <1>4, <1>5 DEF Next

CInv == IInv /\ AskInv /\ FrameInv /\ InOrder /\ Delivered /\ Accounted

(* The inductive invariant holds of every reachable state. *)
THEOREM ContractInvariance == Spec => []CInv
<1>1. Init => CInv
  <2>1. Init => Delivered
    <3>1. Init => \A r \in Requests : got[r] = <<>> /\ sent[r] = 0 /\ outcome[r] = "none"
      BY DEF Init
    <3>2. Len(<<>>) = 0 OBVIOUS
    <3> QED BY <3>1, <3>2 DEF Delivered, NoSilentGap, Ended
  <2>2. Init => Accounted BY DEF Init, Accounted
  <2> QED BY <2>1, <2>2, InitIInv, InitAskInv, InitFrameInv, InitInOrder DEF CInv
<1>2. CInv /\ [Next]_vars => CInv'
  <2>1. CInv => IInv /\ TypeOK /\ AskInv /\ FrameInv /\ InOrder /\ Delivered /\ Accounted
    BY DEF CInv, IInv
  <2> QED BY <2>1, StepIInv, StepAskInv, StepFrameInv, StepInOrder, StepDelivered, StepAccounted
          DEF CInv
<1> QED BY <1>1, <1>2, PTL DEF Spec

(* At any time the caller has a prefix of what the client sent: no chunk   *)
(* is dropped, repeated or reordered by the queue, the reader and the      *)
(* mailbox, however slow the caller is and however the session ends        *)
(* (routeResponse, handleRelay, close).                                    *)
THEOREM CallerHasPrefix == Spec => []NoSilentGap
<1>1. CInv => NoSilentGap BY DEF CInv, Delivered
<1> QED BY <1>1, ContractInvariance, PTL

(* A response that ends with response_end without an error is complete:    *)
(* the caller has every chunk that the client sent (handleRelay).          *)
THEOREM CompleteAtEnd == Spec => []EndMeansComplete
<1>1. CInv => EndMeansComplete BY DEF CInv, Delivered, Ended, EndMeansComplete
<1> QED BY <1>1, ContractInvariance, PTL

-----------------------------------------------------------------------------
(* What the caller of r sees of a step of the relay that leaves it alone. *)
LEMMA Unseen ==
  ASSUME UNCHANGED <<pc, outcome, got, truncated, gone, sent, failed>>, closed' = closed,
         \A x \in Requests : peer'[x] = "stopped" <=> peer[x] = "stopped"
  PROVE  UNCHANGED Contract!vars
<1>1. \A x \in Requests : /\ (peer'[x] = "stopped") = (peer[x] = "stopped")
                          /\ StatusWritten(x)' = StatusWritten(x) /\ Verdict(x)' = Verdict(x)
  BY DEF StatusWritten, Verdict
<1> QED BY <1>1 DEF Contract!vars, Contract!callerVars, Contract!clientVars

(* A step of the handler of r maps to a step of the contract. *)
LEMMA HandlerKeepsContract ==
  ASSUME CInv, NEW r \in Requests, Handler(r) \/ Arrive(r) \/ Caller(r) \/ CallerLeaves(r)
  PROVE  [Contract!Next]_(Contract!vars)
<1>0. /\ TypeOK /\ Attentive /\ FramesSound /\ InOrder /\ NoSilentGap /\ Ended /\ Accounted
      /\ pc \in [Requests -> PCs] /\ op \in [Requests -> Ops]
      /\ outcome \in [Requests -> Outcomes] /\ got \in [Requests -> Seq(0..MaxChunks+1)]
      /\ truncated \in [Requests -> BOOLEAN] /\ gone \in [Requests -> BOOLEAN]
  BY DEF CInv, IInv, TypeOK, AskInv, FrameInv, Delivered
<1>1. UNCHANGED <<sent, peer, failed, step>>
  BY DEF Handler, Arrive, Caller, CallerLeaves, RegisterPending, SendCheck, SendEnqueue,
         SendAborts, UploadChunk, UploadEnds, FirstFrame, StreamFrame, WriteReturns, Dropped,
         TimesOut, Finish, peerVars
<1> DEFINE acc == [x \in Requests |-> pc[x] # "idle"]
           opd == [x \in Requests |-> StatusWritten(x)]
           ver == [x \in Requests |-> Verdict(x)]
           end == [x \in Requests |-> peer[x] = "stopped"]
           lef == {x \in Requests : gone[x]}
           onl == ~closed
           Same(x) == pc'[x] = pc[x] /\ outcome'[x] = outcome[x] /\ truncated'[x] = truncated[x]
<1>2. end' = end /\ onl' = onl BY <1>1 DEF closed
<1>a. ASSUME \A x \in Requests \ {r} : Same(x)
      PROVE  \A x \in Requests \ {r} : /\ (pc'[x] # "idle") = (pc[x] # "idle")
                                       /\ StatusWritten(x)' = StatusWritten(x)
                                       /\ Verdict(x)' = Verdict(x)
  BY <1>a DEF StatusWritten, Verdict
(* Most steps show the caller nothing. *)
<1>3. ASSUME \A x \in Requests \ {r} : Same(x), UNCHANGED <<got, gone>>,
             pc[r] \notin {"idle", "done"}, pc'[r] \notin {"idle", "done"},
             StatusWritten(r) <=> StatusWritten(r)'
      PROVE  UNCHANGED Contract!vars
  <2>1. /\ (pc'[r] # "idle") = (pc[r] # "idle")
        /\ StatusWritten(r)' = StatusWritten(r) /\ Verdict(r)' = Verdict(r)
    BY <1>3 DEF StatusWritten, Verdict
  <2>2. acc' = acc /\ opd' = opd /\ ver' = ver BY <2>1, <1>3, <1>a
  <2> QED BY <2>2, <1>1, <1>2, <1>3 DEF Contract!vars, Contract!callerVars, Contract!clientVars
<1> HIDE DEF acc, opd, ver, end, lef, onl
<1>4. CASE Arrive(r)
  <2>1. /\ pc[r] = "idle" /\ Listening(r) /\ UNCHANGED <<got, gone>>
        /\ \A x \in Requests \ {r} : Same(x)
    BY <1>4, <1>0 DEF Arrive, Attentive, Unasked, Early, Goto, Decide
  <2>2. CASE Goto(r, "register") /\ UNCHANGED outcome
    <3>0. /\ (pc'[r] # "idle") = TRUE /\ ~(pc[r] # "idle")
          /\ StatusWritten(r)' = StatusWritten(r) /\ Verdict(r)' = Verdict(r)
      BY <2>1, <2>2, <1>0 DEF StatusWritten, Verdict, Goto
    <3>1. acc' = [acc EXCEPT ![r] = TRUE] /\ opd' = opd /\ ver' = ver /\ ~acc[r]
      BY <3>0, <2>1, <1>a DEF acc, opd, ver
    <3>2. Contract!Accept(r)
      BY <3>1, <2>1, <1>1, <1>2
      DEF Contract!Accept, Contract!clientVars, acc, opd, ver, end, onl
    <3> QED BY <3>2 DEF Contract!Next
  <2>3. CASE Goto(r, "done") /\ Decide(r, "error")
    <3>0. /\ (pc'[r] # "idle") = TRUE /\ Verdict(r) = "none" /\ Verdict(r)' = "refused"
          /\ StatusWritten(r)' = StatusWritten(r) /\ ~StatusWritten(r)
      BY <2>1, <2>3, <1>0 DEF StatusWritten, Verdict, Goto, Decide, Listening
    <3>1. /\ acc' = [acc EXCEPT ![r] = TRUE] /\ opd' = opd /\ ~opd[r]
          /\ ver' = [ver EXCEPT ![r] = "refused"] /\ ver[r] = "none"
      BY <3>0, <2>1, <1>a DEF acc, opd, ver
    <3>2. Contract!Refuse(r)
      BY <3>1, <2>1, <1>1, <1>2
      DEF Contract!Refuse, Contract!Decide, Contract!clientVars, acc, opd, ver, end, onl
    <3> QED BY <3>2 DEF Contract!Next
  <2> QED BY <2>2, <2>3, <1>4 DEF Arrive
<1>5. CASE FirstFrame(r)
  <2>1. /\ pc[r] = "first" /\ Listening(r) /\ UNCHANGED <<got, gone>>
        /\ \A x \in Requests \ {r} : Same(x)
    BY <1>5, <1>0 DEF FirstFrame, Attentive, Goto, Decide
  <2>2. CASE Goto(r, "write") /\ UNCHANGED outcome
    <3>0. /\ (pc'[r] # "idle") = (pc[r] # "idle") /\ pc[r] # "idle"
          /\ StatusWritten(r)' = TRUE /\ Verdict(r)' = Verdict(r) /\ Verdict(r) = "none"
      BY <2>1, <2>2, <1>0 DEF StatusWritten, Verdict, Goto, Listening
    <3>1. acc' = acc /\ opd' = [opd EXCEPT ![r] = TRUE] /\ ver' = ver /\ acc[r] /\ ver[r] = "none"
      BY <3>0, <2>1, <1>a DEF acc, opd, ver
    <3>2. Contract!Open(r)
      BY <3>1, <2>1, <1>1, <1>2
      DEF Contract!Open, Contract!clientVars, acc, opd, ver, end, onl
    <3> QED BY <3>2 DEF Contract!Next
  <2>3. CASE Goto(r, "finish") /\ Decide(r, "error")
    <3>1. pc'[r] = "finish" /\ (StatusWritten(r) <=> StatusWritten(r)')
      BY <2>1, <2>3, <1>0 DEF Goto, Decide, StatusWritten, Listening
    <3> QED BY <3>1, <2>1, <1>3
  <2> QED BY <2>2, <2>3, <1>5 DEF FirstFrame
<1>6. CASE StreamFrame(r)
  <2>1. /\ pc[r] = "stream" /\ Listening(r) /\ mail[r] # <<>> /\ UNCHANGED gone
        /\ \A x \in Requests \ {r} : Same(x)
    BY <1>6, <1>0 DEF StreamFrame, Attentive, Goto, Decide
  <2>2. CASE /\ Head(mail[r]).kind = "chunk" /\ Goto(r, "write") /\ UNCHANGED outcome
             /\ got' = [got EXCEPT ![r] = Append(@, Head(mail[r]).seq)]
    <3>0. /\ (pc'[r] # "idle") = (pc[r] # "idle") /\ StatusWritten(r)' = StatusWritten(r)
          /\ Verdict(r)' = Verdict(r) /\ StatusWritten(r) /\ Verdict(r) = "none"
      BY <2>1, <2>2, <1>0 DEF StatusWritten, Verdict, Goto
    <3>1. acc' = acc /\ opd' = opd /\ ver' = ver /\ opd[r] /\ ver[r] = "none"
      BY <3>0, <2>1, <1>a DEF acc, opd, ver
    <3>2. /\ got' = [got EXCEPT ![r] = Append(@, Len(@) + 1)]
          /\ Len(got[r]) < sent[r]
      BY <2>1, <2>2, <1>0, NextInMail
    <3>3. Contract!Deliver(r)
      BY <3>1, <3>2, <2>1, <1>1, <1>2
      DEF Contract!Deliver, Contract!clientVars, acc, opd, ver, end, onl
    <3> QED BY <3>3 DEF Contract!Next
  <2>3. CASE /\ Goto(r, "finish") /\ UNCHANGED got
             /\ \E o \in {"end", "fail", "bad"} : Decide(r, o)
    <3>1. pc'[r] = "finish" /\ (StatusWritten(r) <=> StatusWritten(r)')
      BY <2>1, <2>3, <1>0 DEF Goto, Decide, StatusWritten
    <3> QED BY <3>1, <2>1, <2>3, <1>3
  <2> QED BY <2>2, <2>3, <1>6 DEF StreamFrame
<1>7. CASE Dropped(r) \/ TimesOut(r)
  <2>1. /\ pc[r] \in {"first", "stream"} /\ Listening(r) /\ UNCHANGED <<got, gone>>
        /\ \A x \in Requests \ {r} : Same(x)
        /\ pc'[r] \in {"finish", "check"}
        /\ IF pc[r] = "stream" THEN outcome'[r] \in {"dropped", "left", "idle"}
                               ELSE outcome'[r] = "error"
    BY <1>7, <1>0 DEF Dropped, TimesOut, Attentive, Goto, Send, Decide
  <2>2. StatusWritten(r) <=> StatusWritten(r)' BY <2>1 DEF StatusWritten, Listening
  <2> QED BY <2>1, <2>2, <1>3
<1>8. CASE UploadEnds(r)
  <2>1. /\ pc[r] = "upload" /\ pc'[r] = "check" /\ Listening(r) /\ UNCHANGED <<got, gone>>
        /\ \A x \in Requests \ {r} : Same(x)
        /\ outcome'[r] = outcome[r] \/ outcome'[r] = "error"
    BY <1>8, <1>0 DEF UploadEnds, Attentive, Uploading, Send, Decide
  <2>2. StatusWritten(r) <=> StatusWritten(r)' BY <2>1 DEF StatusWritten, Listening
  <2> QED BY <2>1, <2>2, <1>3
<1>9. CASE SendCheck(r) \/ SendAborts(r)
  <2>1. Sending(r) /\ UNCHANGED <<got, gone, truncated>>
    BY <1>9 DEF SendCheck, SendAborts, Sending
  <2>2. CASE SendFailed(r) /\ op[r] # "cancel"
    <3>1. /\ \A x \in Requests \ {r} : Same(x)
          /\ pc'[r] = "check" /\ outcome'[r] = "error"
      BY <2>1, <2>2, <1>0 DEF SendFailed, Send, Decide
    <3>2. Listening(r)
      BY <2>1, <2>2, <1>0 DEF Attentive, Unasked, Uploading, Ops
    <3>3. StatusWritten(r) <=> StatusWritten(r)'
      BY <3>1, <3>2, <2>1 DEF StatusWritten, Listening, Sending
    <3> QED BY <3>1, <3>3, <2>1, <1>3 DEF Sending
  <2>3. CASE SendFailed(r) /\ op[r] = "cancel"
    <3>1. /\ \A x \in Requests \ {r} : Same(x)
          /\ pc'[r] = "finish" /\ outcome'[r] = outcome[r]
      BY <2>1, <2>3, <1>0 DEF SendFailed, Sent, Goto
    <3>2. StatusWritten(r) <=> StatusWritten(r)' BY <3>1, <2>1 DEF StatusWritten, Sending
    <3> QED BY <3>1, <3>2, <2>1, <1>3 DEF Sending
  <2>4. CASE Goto(r, "select") /\ UNCHANGED outcome
    <3>1. /\ \A x \in Requests \ {r} : Same(x)
          /\ pc'[r] = "select" /\ outcome'[r] = outcome[r]
      BY <2>1, <2>4, <1>0 DEF Goto
    <3>2. StatusWritten(r) <=> StatusWritten(r)' BY <3>1, <2>1 DEF StatusWritten, Sending
    <3> QED BY <3>1, <3>2, <2>1, <1>3 DEF Sending
  <2> QED BY <2>2, <2>3, <2>4, <1>9 DEF SendCheck, SendAborts
<1>10. CASE RegisterPending(r) \/ UploadChunk(r) \/ SendEnqueue(r) \/ WriteReturns(r)
  <2>1. /\ \A x \in Requests \ {r} : Same(x)
        /\ UNCHANGED <<got, gone>> /\ outcome'[r] = outcome[r]
        /\ pc[r] \notin {"idle", "done"} /\ pc'[r] \notin {"idle", "done"}
        /\ pc[r] \in {"stream", "write"} <=> pc'[r] \in {"stream", "write"}
    BY <1>10, <1>0
    DEF RegisterPending, UploadChunk, SendEnqueue, WriteReturns, Goto, Send, Sent
  <2>2. StatusWritten(r) <=> StatusWritten(r)' BY <2>1 DEF StatusWritten
  <2> QED BY <2>1, <2>2, <1>3
<1>11. CASE CallerLeaves(r)
  <2>1. /\ UNCHANGED <<pc, outcome, got, truncated>> /\ pc[r] # "done"
        /\ gone' = [gone EXCEPT ![r] = TRUE]
    BY <1>11 DEF CallerLeaves
  <2>2. acc' = acc /\ opd' = opd /\ ver' = ver /\ ver[r] = "none"
    BY <2>1 DEF acc, opd, ver, StatusWritten, Verdict
  <2>3. lef' = lef \cup {r} BY <2>1, <1>0 DEF lef
  <2>4. Contract!Leave(r)
    BY <2>1, <2>2, <2>3, <1>1, <1>2
    DEF Contract!Leave, Contract!callerVars, Contract!clientVars, acc, opd, ver, end, lef, onl
  <2> QED BY <2>4 DEF Contract!Next
(* The handler returns: this is the end the caller sees. *)
<1>12. CASE Finish(r)
  <2>1. /\ pc[r] = "finish" /\ pc'[r] = "done" /\ UNCHANGED <<outcome, got, gone>>
        /\ truncated'[r] = truncateResponse(r)
        /\ \A x \in Requests \ {r} : Same(x)
    BY <1>12, <1>0 DEF Finish, Goto
  <2>2. outcome[r] # "none"
    BY <2>1, <1>0 DEF Attentive, Listening, Unasked, Uploading, Sending, Early
  <2>3. /\ (pc'[r] # "idle") = TRUE /\ Verdict(r) = "none"
        /\ StatusWritten(r)' = StatusWritten(r)
        /\ StatusWritten(r) <=> outcome[r] # "error"
    BY <2>1, <2>2 DEF StatusWritten, Verdict
  <2>4. ASSUME NEW v, Verdict(r)' = v PROVE Contract!Decide(r, v)
    <3>1. /\ acc' = [acc EXCEPT ![r] = TRUE] /\ opd' = opd
          /\ ver' = [ver EXCEPT ![r] = v] /\ ver[r] = "none"
      BY <2>1, <2>3, <2>4, <1>a DEF acc, opd, ver
    <3> QED BY <3>1, <2>1, <1>1, <1>2
            DEF Contract!Decide, Contract!clientVars, acc, opd, ver, end, onl
  <2>5. CASE outcome[r] = "error"
    <3>1. Verdict(r)' = "refused" BY <2>1, <2>5 DEF Verdict
    <3>2. Contract!Refuse(r) BY <3>1, <2>3, <2>4, <2>5 DEF Contract!Refuse
    <3> QED BY <3>2 DEF Contract!Next
  <2>6. CASE outcome[r] = "idle" /\ r \in Hijackable
    <3>1. Verdict(r)' = "broken" BY <2>1, <2>6 DEF Verdict, truncateResponse
    <3>2. Contract!Break(r) BY <3>1, <2>3, <2>4, <2>6 DEF Contract!Break
    <3> QED BY <3>2 DEF Contract!Next
  <2>7. CASE outcome[r] # "error" /\ ~(outcome[r] = "idle" /\ r \in Hijackable)
    <3>1. Verdict(r)' = "ended" BY <2>1, <2>7 DEF Verdict, truncateResponse
    <3>2. \/ peer[r] = "stopped" /\ Len(got[r]) = sent[r]
          \/ r \in failed \/ closed \/ gone[r] \/ r \notin Hijackable
      BY <2>2, <2>7, <1>0 DEF Ended, Accounted, Outcomes
    <3>3. Contract!Whole(r) \/ Contract!Excused(r)
      BY <3>2 DEF Contract!Whole, Contract!Excused
    <3>4. Contract!Finish(r) BY <3>1, <3>3, <2>3, <2>4, <2>7 DEF Contract!Finish
    <3> QED BY <3>4 DEF Contract!Next
  <2> QED BY <2>5, <2>6, <2>7
<1> QED BY <1>4, <1>5, <1>6, <1>7, <1>8, <1>9, <1>10, <1>11, <1>12 DEF Handler, Caller

(* A step of the session, the client or the teardown maps to one, too. *)
LEMMA SessionKeepsContract ==
  ASSUME CInv,
         \/ Reader \/ WriterWrites \/ WriterEnds \/ CloseBegins \/ CloseStep
         \/ \E r \in Requests : Client(r)
  PROVE  [Contract!Next]_(Contract!vars)
<1>0. /\ TypeOK /\ sent \in [Requests -> 0..MaxChunks]
      /\ peer \in [Requests -> {"none", "assembling", "ready", "streaming", "stopped"}]
  BY FramesTyped DEF CInv, IInv
<1>1. ASSUME NEW r \in Requests, UNCHANGED <<handlerVars, sent, step>>,
             failed' \in {failed, failed \cup {r}}, peer' = [peer EXCEPT ![r] = "stopped"]
      PROVE  Contract!EndOfStream(r)
  <2>1. \A x \in Requests : /\ StatusWritten(x)' = StatusWritten(x) /\ Verdict(x)' = Verdict(x)
                            /\ (pc'[x] # "idle") = (pc[x] # "idle")
    BY <1>1 DEF handlerVars, StatusWritten, Verdict
  <2>2. \A x \in Requests : (peer'[x] = "stopped") = (IF x = r THEN TRUE ELSE peer[x] = "stopped")
    BY <1>1, <1>0
  <2>3. [x \in Requests |-> peer'[x] = "stopped"]
          = [[x \in Requests |-> peer[x] = "stopped"] EXCEPT ![r] = TRUE]
    BY <2>2
  <2> QED BY <2>1, <2>3, <1>1 DEF Contract!EndOfStream, Contract!callerVars, handlerVars, closed
<1>2. ASSUME UNCHANGED <<handlerVars, sent, peer, failed>>, closed' = closed
      PROVE  UNCHANGED Contract!vars
  BY <1>2, Unseen DEF handlerVars
<1>3. CASE Reader \/ WriterEnds \/ CloseStep
  BY <1>3, <1>2
  DEF Reader, RouteLookup, RouteDeliver, WriterEnds, CloseStep, CloseConn,
      CloseMailboxes, CloseDetach, peerVars, closed
<1>4. CASE CloseBegins
  <2>1. closed' /\ UNCHANGED <<handlerVars, sent, peer, failed>>
    BY <1>4 DEF CloseBegins, closed, peerVars
  <2>2. \A x \in Requests : StatusWritten(x)' = StatusWritten(x) /\ Verdict(x)' = Verdict(x)
    BY <2>1 DEF handlerVars, StatusWritten, Verdict
  <2>3. Contract!Disconnect
    BY <2>1, <2>2
    DEF Contract!Disconnect, Contract!callerVars, Contract!clientVars, handlerVars
  <2> QED BY <2>3 DEF Contract!Next
<1>5. CASE WriterWrites
  <2> DEFINE r == Head(sendQ).req
             k == Head(sendQ).kind
  <2>1. UNCHANGED <<handlerVars, sent, failed, step>> /\ sendQ # <<>> BY <1>5 DEF WriterWrites
  <2>2. /\ r \in Requests
        /\ k = "start" => peer[r] = "none"
        /\ k = "end" => peer[r] \in InUpload
    <3>1. sendQ \in Seq(QFrame) BY <1>0 DEF TypeOK
    <3>2. Head(sendQ) = sendQ[1] /\ 1 \in 1..Len(sendQ) BY <2>1, <3>1, TailFacts
    <3> QED BY <3>2, <1>0, QueueTyped DEF CInv, AskInv, QueueOrder
  <2>3. \/ UNCHANGED peer
        \/ k \in {"start", "end"} /\ \E l \in {"assembling", "ready"} : peer' = [peer EXCEPT ![r] = l]
        \/ peer' = [peer EXCEPT ![r] = "stopped"]
    BY <1>5 DEF WriterWrites
  <2> HIDE DEF r, k
  <2>4. CASE UNCHANGED peer BY <2>1, <2>4, <1>2 DEF closed
  <2>5. CASE k \in {"start", "end"} /\ \E l \in {"assembling", "ready"} : peer' = [peer EXCEPT ![r] = l]
    <3>1. \A x \in Requests : peer'[x] = "stopped" <=> peer[x] = "stopped"
      BY <2>2, <2>5, <1>0 DEF InUpload
    <3> QED BY <3>1, <2>1, Unseen DEF handlerVars, closed
  <2>6. CASE peer' = [peer EXCEPT ![r] = "stopped"]
    <3>1. PICK x \in Requests : x = r BY <2>2
    <3>2. peer' = [peer EXCEPT ![x] = "stopped"] BY <3>1, <2>6
    <3>3. Contract!EndOfStream(x) BY <3>2, <2>1, <1>1
    <3> QED BY <3>3 DEF Contract!Next
  <2> QED BY <2>3, <2>4, <2>5, <2>6
<1>6. ASSUME NEW r \in Requests, Client(r) PROVE [Contract!Next]_(Contract!vars)
  <2>0. UNCHANGED <<handlerVars, step>>
    BY <1>6 DEF Client, PeerStarts, PeerSendsChunk, PeerEnds, Emit
  <2>1. CASE PeerStarts(r)
    <3>1. \A x \in Requests : peer'[x] = "stopped" <=> peer[x] = "stopped"
      BY <2>1, <1>0 DEF PeerStarts
    <3> QED BY <3>1, <2>0, <2>1, Unseen DEF PeerStarts, handlerVars, closed
  <2>2. CASE PeerSendsChunk(r)
    <3>1. /\ peer[r] = "streaming" /\ UNCHANGED <<peer, failed>> /\ sent[r] < MaxChunks
          /\ sent' = [sent EXCEPT ![r] = @ + 1]
      BY <2>2 DEF PeerSendsChunk
    <3>2. \A x \in Requests : StatusWritten(x)' = StatusWritten(x) /\ Verdict(x)' = Verdict(x)
      BY <2>0 DEF handlerVars, StatusWritten, Verdict
    <3>3. Contract!Produce(r)
      BY <3>1, <3>2, <2>0 DEF Contract!Produce, Contract!callerVars, handlerVars, closed
    <3> QED BY <3>3 DEF Contract!Next
  <2>3. CASE PeerEnds(r)
    <3>1. /\ UNCHANGED <<handlerVars, sent, step>> /\ peer' = [peer EXCEPT ![r] = "stopped"]
          /\ failed' \in {failed, failed \cup {r}}
      BY <2>0, <2>3 DEF PeerEnds
    <3>2. Contract!EndOfStream(r) BY <3>1, <1>1
    <3> QED BY <3>2 DEF Contract!Next
  <2> QED BY <1>6, <2>1, <2>2, <2>3 DEF Client
<1> QED BY <1>3, <1>4, <1>5, <1>6

(* The relay implements its contract: whatever the handlers, the reader,   *)
(* the writer, the client and close() do, the caller of every request sees *)
(* one of the contract's behaviours (handleRelay, truncateResponse,        *)
(* routeResponse, writeLoop, close).                                       *)
THEOREM RelayImplementsContract == Spec => ContractKept
<1>1. Init => Contract!Init
  <2> SUFFICES ASSUME Init PROVE Contract!Init OBVIOUS
  <2>1. /\ \A r \in Requests : /\ (pc[r] # "idle") = FALSE /\ (peer[r] = "stopped") = FALSE
                               /\ StatusWritten(r) = FALSE /\ Verdict(r) = "none"
        /\ {r \in Requests : gone[r]} = {} /\ (~closed) = TRUE
    BY DEF Init, StatusWritten, Verdict, closed
  <2> QED BY <2>1 DEF Init, Contract!Init
<1>2. CInv /\ [Next]_vars => [Contract!Next]_(Contract!vars)
  <2> SUFFICES ASSUME CInv, [Next]_vars PROVE [Contract!Next]_(Contract!vars) OBVIOUS
  <2>1. CASE UNCHANGED vars
    <3>1. UNCHANGED Contract!vars BY <2>1, Unseen DEF vars, handlerVars, peerVars, closed
    <3> QED BY <3>1
  <2>2. CASE Next BY <2>2, HandlerKeepsContract, SessionKeepsContract DEF Next
  <2> QED BY <2>1, <2>2
<1> QED BY <1>1, <1>2, ContractInvariance, PTL DEF Spec, Contract!Spec, ContractKept
=============================================================================
