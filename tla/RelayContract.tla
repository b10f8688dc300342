----------------------------- MODULE RelayContract -----------------------------
(***************************************************************************)
(* What the relay promises to the caller of each request, in terms of what *)
(* the caller can see (internal/server/relay.go, Spec 3.2).  The response  *)
(* is the one the tunnel client sends, from its first chunk on and without *)
(* gaps.  A body that ends normally is complete, with four exceptions that *)
(* the code makes: the client itself ended it with a failure, the session  *)
(* had gone, the caller had left, or the connection cannot be cut.         *)
(* Otherwise a response that stops short breaks the connection.            *)
(***************************************************************************)
EXTENDS Naturals, Sequences

CONSTANTS Requests,  \* HTTP requests for /t/{tunnelID}/
          Cuttable,  \* those whose connection can be cut
          MaxChunks  \* bound on the chunks of a response body

VARIABLES accepted,  \* accepted[r]: the handler of r has begun
          produced,  \* produced[r]: chunks the tunnel client has sent
          ended,     \* ended[r]: it sends no more
          failed,    \* the requests whose answer it ended with a failure
          online,    \* the session is not closed
          left,      \* the requests whose callers have left
          opened,    \* opened[r]: the caller is sent the status
          body,      \* body[r]: the chunks it is sent
          verdict    \* verdict[r]: how the caller sees the response end

clientVars == <<produced, ended, failed>>
callerVars == <<accepted, opened, body, verdict>>
vars == <<callerVars, clientVars, online, left>>

(* No end yet; an error status; a normal end; the connection cut. *)
Verdicts == {"none", "refused", "ended", "broken"}

Init ==
    /\ accepted = [r \in Requests |-> FALSE]
    /\ produced = [r \in Requests |-> 0]
    /\ ended = [r \in Requests |-> FALSE]
    /\ failed = {} /\ online = TRUE /\ left = {}
    /\ opened = [r \in Requests |-> FALSE]
    /\ body = [r \in Requests |-> <<>>]
    /\ verdict = [r \in Requests |-> "none"]

-----------------------------------------------------------------------------
Accept(r) ==
    /\ ~accepted[r]
    /\ accepted' = [accepted EXCEPT ![r] = TRUE]
    /\ UNCHANGED <<opened, body, verdict, clientVars, online, left>>

Produce(r) ==
    /\ ~ended[r] /\ produced[r] < MaxChunks
    /\ produced' = [produced EXCEPT ![r] = @ + 1]
    /\ UNCHANGED <<callerVars, ended, failed, online, left>>

EndOfStream(r) ==
    /\ ended' = [ended EXCEPT ![r] = TRUE]
    /\ failed' \in {failed, failed \cup {r}}
    /\ UNCHANGED <<callerVars, produced, online, left>>

Disconnect ==
    /\ online' = FALSE
    /\ UNCHANGED <<callerVars, clientVars, left>>

Leave(r) ==
    /\ verdict[r] = "none"
    /\ left' = left \cup {r}
    /\ UNCHANGED <<callerVars, clientVars, online>>

-----------------------------------------------------------------------------
Open(r) ==
    /\ accepted[r] /\ verdict[r] = "none"
    /\ opened' = [opened EXCEPT ![r] = TRUE]
    /\ UNCHANGED <<accepted, body, verdict, clientVars, online, left>>

(* The next chunk, never another one. *)
Deliver(r) ==
    /\ opened[r] /\ verdict[r] = "none" /\ Len(body[r]) < produced[r]
    /\ body' = [body EXCEPT ![r] = Append(@, Len(@) + 1)]
    /\ UNCHANGED <<accepted, opened, verdict, clientVars, online, left>>

Decide(r, v) ==
    /\ verdict[r] = "none"
    /\ verdict' = [verdict EXCEPT ![r] = v]
    /\ accepted' = [accepted EXCEPT ![r] = TRUE]
    /\ UNCHANGED <<opened, body, clientVars, online, left>>

(* An error status, before anything of the response was written. *)
Refuse(r) == ~opened[r] /\ Decide(r, "refused")

Whole(r)   == ended[r] /\ Len(body[r]) = produced[r]
Excused(r) == r \in failed \/ ~online \/ r \in left \/ r \notin Cuttable

(* The body ends normally. *)
Finish(r) == opened[r] /\ (Whole(r) \/ Excused(r)) /\ Decide(r, "ended")

(* The connection is cut. *)
Break(r) == opened[r] /\ r \in Cuttable /\ Decide(r, "broken")

Next ==
    \/ Disconnect
    \/ \E r \in Requests :
          \/ Accept(r) \/ Produce(r) \/ EndOfStream(r) \/ Leave(r)
          \/ Open(r) \/ Deliver(r) \/ Refuse(r) \/ Finish(r) \/ Break(r)

Spec == Init /\ [][Next]_vars
=============================================================================
