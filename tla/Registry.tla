------------------------------ MODULE Registry ------------------------------
(***************************************************************************)
(* The tunnel registry of the relay server (internal/server/registry.go):  *)
(* the in-memory map of tunnels, its mutex, the file data/tunnels.json it  *)
(* is saved to, and the session handlers that call Register and, for each  *)
(* stats frame, SetTarget followed by Save.                                *)
(*                                                                         *)
(* A registry belongs to one generation of the server.  The GUI server     *)
(* creates a new one over the same file each time its operator presses     *)
(* Stop and Start without ending the process, so a handler of an earlier   *)
(* generation may still be running when a later one has loaded the file.   *)
(***************************************************************************)
EXTENDS Naturals

CONSTANTS Ids,        \* the well-formed tunnel IDs (idRe)
          Secrets,    \* what generateSecret may return
          Targets,    \* the target URLs a stats frame may carry
          Handlers,   \* goroutines serving /ws/tunnel
          MaxGen,     \* bound on the servers started in one process
          NoId, NoSecret, NoTarget, Nobody, Absent, NoFile

ASSUME RegistryAssumption ==
    /\ MaxGen \in Nat \ {0}
    /\ NoId \notin Ids
    /\ NoSecret \notin Secrets
    /\ NoTarget \notin Targets
    /\ Nobody \notin Handlers

VARIABLES tunnels,   \* tunnels[g][id]: Registry.tunnels of generation g
          mu,        \* mu[g]: the handler holding r.mu, or Nobody
          disk,      \* data/tunnels.json
          tmp,       \* data/tunnels.json.tmp
          cur,       \* the generation that serves new connections
          issued,    \* every secret generateSecret has returned
          pc,        \* where each handler is
          gen,       \* the generation each handler belongs to
          hello,     \* the desired ID and the secret of its hello frame
          bound,     \* the ID and the new secret Register answered
          closed,    \* handlers whose session somebody else has closed
          lag        \* lag[g]: the last save of generation g failed

registryVars == <<tunnels, mu, disk, tmp, cur, issued, pc, gen, hello, bound,
                  closed, lag>>

Gens  == 1..MaxGen
None  == [id \in Ids |-> Absent]          \* an empty registry
NoHash  == <<>>
NoHello  == [desired |-> NoId, secret |-> NoSecret]
NoAnswer == [id |-> NoId, secret |-> NoSecret]

(***************************************************************************)
(* hashSecret: SHA-256 is modelled as an injection whose values are never  *)
(* the empty string a record without a hash holds.                         *)
(***************************************************************************)
Hash(s) == <<s>>

Entry == [hash : {NoHash} \cup {Hash(s) : s \in Secrets},
          target : Targets \cup {NoTarget}]
Records == [Ids -> Entry \cup {Absent}]

ASSUME RecordAssumption == Absent \notin Entry /\ NoFile \notin Records

(* Variant: any secret proves ownership. *)
TrustAnySecret(t, secret) == TRUE

verifySecret(t, secret) ==
    IF t.hash = NoHash THEN secret = NoSecret ELSE t.hash = Hash(secret)

(* Variant: the secret itself is stored. *)
PlainEntry(s) == [hash |-> s, target |-> NoTarget]

NewEntry(s) == [hash |-> Hash(s), target |-> NoTarget]

(* Load: the records of the file; a missing file is a fresh install. *)
Load(file) == IF file = NoFile THEN None ELSE file

-----------------------------------------------------------------------------
InitRegistry ==
    /\ tunnels = [g \in Gens |-> None]
    /\ mu = [g \in Gens |-> Nobody]
    /\ disk = NoFile
    /\ tmp = NoFile
    /\ cur = 1
    /\ issued = {}
    /\ pc = [p \in Handlers |-> "idle"]
    /\ gen = [p \in Handlers |-> 1]
    /\ hello = [p \in Handlers |-> NoHello]
    /\ bound = [p \in Handlers |-> NoAnswer]
    /\ closed = [p \in Handlers |-> FALSE]
    /\ lag = [g \in Gens |-> FALSE]

(* A client connects to the current server and sends its hello frame. *)
Accept(p, desired, secret) ==
    /\ pc[p] = "idle"
    /\ pc' = [pc EXCEPT ![p] = "hello"]
    /\ gen' = [gen EXCEPT ![p] = cur]
    /\ hello' = [hello EXCEPT ![p] = [desired |-> desired, secret |-> secret]]
    /\ UNCHANGED <<tunnels, mu, disk, tmp, cur, issued, bound, closed, lag>>

(* The desired ID is registered and the secret proves its ownership. *)
Owns(p) ==
    LET d == hello[p].desired IN
    /\ d # NoId
    /\ tunnels[gen[p]][d] # Absent
    /\ verifySecret(tunnels[gen[p]][d], hello[p].secret)

(* The desired ID if it is free, otherwise any ID generateID may draw. *)
Free(p) == {id \in Ids : tunnels[gen[p]][id] = Absent}
(* Variant: a denied ID is handed out again. *)
OverwriteTaken(p) ==
    IF hello[p].desired # NoId THEN {hello[p].desired} ELSE Free(p)

Allocatable(p) ==
    IF hello[p].desired \in Free(p) THEN {hello[p].desired} ELSE Free(p)

(* Register, the desired ID is taken and the secret matches: nothing to save. *)
RegisterReuse(p) ==
    /\ pc[p] = "hello" /\ mu[gen[p]] = Nobody
    /\ Owns(p)
    /\ bound' = [bound EXCEPT ![p] = [id |-> hello[p].desired, secret |-> NoSecret]]
    /\ hello' = [hello EXCEPT ![p] = NoHello]
    /\ pc' = [pc EXCEPT ![p] = "bound"]
    /\ UNCHANGED <<tunnels, mu, disk, tmp, cur, issued, gen, closed, lag>>

(***************************************************************************)
(* Register, any other case: a new entry with a fresh secret goes into the *)
(* map, and the mutex stays with the handler until saveLocked has ended.   *)
(***************************************************************************)
RegisterFresh(p) ==
    /\ pc[p] = "hello" /\ mu[gen[p]] = Nobody
    /\ ~Owns(p)
    /\ \E id \in Allocatable(p), s \in Secrets \ issued :
          /\ tunnels' = [tunnels EXCEPT ![gen[p]][id] = NewEntry(s)]
          /\ bound' = [bound EXCEPT ![p] = [id |-> id, secret |-> s]]
          /\ issued' = issued \cup {s}
    /\ mu' = [mu EXCEPT ![gen[p]] = p]
    /\ hello' = [hello EXCEPT ![p] = NoHello]
    /\ pc' = [pc EXCEPT ![p] = "registerWrite"]
    /\ UNCHANGED <<disk, tmp, cur, gen, closed, lag>>

(***************************************************************************)
(* A stats frame: the target changes at once, without the mutex.  The      *)
(* reader of a session that has been closed still handles what it has read *)
(* or buffered ...                                                         *)
(***************************************************************************)
StatsSetTarget(p) ==
    /\ pc[p] = "online"
    /\ \E t \in Targets :
          tunnels' = [tunnels EXCEPT ![gen[p]][bound[p].id].target = t]
    /\ pc' = [pc EXCEPT ![p] = "stats"]
    /\ UNCHANGED <<mu, disk, tmp, cur, issued, gen, hello, bound, closed, lag>>

(* Variant: the target is changed and never saved. *)
StatsForgetsSave(p) ==
    /\ pc[p] = "stats" /\ mu[gen[p]] = Nobody
    /\ pc' = [pc EXCEPT ![p] = "online"]
    /\ UNCHANGED <<tunnels, mu, disk, tmp, cur, issued, gen, hello, bound, closed, lag>>

(* ... and Save takes the mutex afterwards. *)
StatsSave(p) ==
    /\ pc[p] = "stats" /\ mu[gen[p]] = Nobody
    /\ mu' = [mu EXCEPT ![gen[p]] = p]
    /\ pc' = [pc EXCEPT ![p] = "statsWrite"]
    /\ UNCHANGED <<tunnels, disk, tmp, cur, issued, gen, hello, bound, closed, lag>>

(* saveLocked, first half: collect the records, os.WriteFile them. *)
WriteTmp(p) ==
    /\ \/ pc[p] = "registerWrite" /\ pc' = [pc EXCEPT ![p] = "registerRename"]
       \/ pc[p] = "statsWrite"    /\ pc' = [pc EXCEPT ![p] = "statsRename"]
    /\ tmp' = tunnels[gen[p]]
    /\ UNCHANGED <<tunnels, mu, disk, cur, issued, gen, hello, bound, closed, lag>>

(* saveLocked, second half: os.Rename; the deferred Unlock follows. *)
Rename(p) ==
    /\ tmp # NoFile
    /\ \/ pc[p] = "registerRename" /\ pc' = [pc EXCEPT ![p] = "bound"]
       \/ pc[p] = "statsRename"    /\ pc' = [pc EXCEPT ![p] = "online"]
    /\ disk' = tmp
    /\ tmp' = NoFile
    /\ mu' = [mu EXCEPT ![gen[p]] = Nobody]
    /\ lag' = [lag EXCEPT ![gen[p]] = FALSE]
    /\ UNCHANGED <<tunnels, cur, issued, gen, hello, bound, closed>>

(* Variant: Register ignores the error of saveLocked. *)
SaveFailsUnnoticed(p) ==
    /\ \/ /\ pc[p] \in {"registerWrite", "registerRename"}
          /\ pc' = [pc EXCEPT ![p] = "bound"]
       \/ /\ pc[p] \in {"statsWrite", "statsRename"}
          /\ pc' = [pc EXCEPT ![p] = "online"]
    /\ mu' = [mu EXCEPT ![gen[p]] = Nobody]
    /\ lag' = [lag EXCEPT ![gen[p]] = TRUE]
    /\ UNCHANGED <<tunnels, disk, tmp, cur, issued, gen, hello, bound, closed>>

(***************************************************************************)
(* Either half fails.  Register returns the error and leaves the new entry *)
(* in the map; the stats handler only logs it.                             *)
(***************************************************************************)
SaveFails(p) ==
    /\ \/ /\ pc[p] \in {"registerWrite", "registerRename"}
          /\ pc' = [pc EXCEPT ![p] = "rejected"]
       \/ /\ pc[p] \in {"statsWrite", "statsRename"}
          /\ pc' = [pc EXCEPT ![p] = "online"]
    /\ mu' = [mu EXCEPT ![gen[p]] = Nobody]
    /\ lag' = [lag EXCEPT ![gen[p]] = TRUE]
    /\ UNCHANGED <<tunnels, disk, tmp, cur, issued, gen, hello, bound, closed>>

(***************************************************************************)
(* The process dies and is started again: Load reads what was renamed.  A  *)
(* temporary file left behind is rewritten before anybody renames it.      *)
(***************************************************************************)
Crash ==
    /\ cur' = 1
    /\ tunnels' = [g \in Gens |-> IF g = 1 THEN Load(disk) ELSE None]
    /\ tmp' = NoFile
    /\ mu' = [g \in Gens |-> Nobody]
    /\ pc' = [p \in Handlers |-> "idle"]
    /\ gen' = [p \in Handlers |-> 1]
    /\ hello' = [p \in Handlers |-> NoHello]
    /\ bound' = [p \in Handlers |-> NoAnswer]
    /\ closed' = [p \in Handlers |-> FALSE]
    /\ lag' = [g \in Gens |-> FALSE]
    /\ UNCHANGED <<disk, issued>>

(* The handler returns; what its goroutine held is gone. *)
Return(p) ==
    /\ pc' = [pc EXCEPT ![p] = "idle"]
    /\ gen' = [gen EXCEPT ![p] = 1]
    /\ bound' = [bound EXCEPT ![p] = NoAnswer]
    /\ closed' = [closed EXCEPT ![p] = FALSE]
    /\ UNCHANGED <<tunnels, mu, disk, tmp, cur, issued, hello, lag>>

(* Handlers that Stop does not reach: their session is not published yet. *)
Binding == {p \in Handlers : pc[p] \in {"hello", "registerWrite", "registerRename", "bound"}}
Saving  == {p \in Handlers : pc[p] \in {"stats", "statsWrite", "statsRename"}}

(***************************************************************************)
(* GUI Stop and then Start: the published sessions are closed, a new       *)
(* Registry loads the file.  An older one is garbage once the last of its  *)
(* handlers has returned.                                                  *)
(***************************************************************************)
StopStart ==
    /\ cur < MaxGen
    /\ cur' = cur + 1
    /\ tunnels' = [g \in Gens |->
                      IF g = cur + 1 THEN Load(disk)
                      ELSE IF \E p \in Handlers : pc[p] # "idle" /\ gen[p] = g
                      THEN tunnels[g]
                      ELSE None]
    /\ closed' = [p \in Handlers |-> pc[p] # "idle" /\ p \notin Binding]
    /\ UNCHANGED <<mu, disk, tmp, issued, pc, gen, hello, bound, lag>>

=============================================================================
