------------------------------ MODULE Ownership ------------------------------
(***************************************************************************)
(* Who owns a tunnel ID: the registry composed with the clients, their     *)
(* config.json and the handshake between them (internal/client/client.go   *)
(* connect, internal/server/server.go handleHello).  Connections break at  *)
(* any moment, so an answer may be lost after the server has acted on the  *)
(* hello; clients and the server restart; files may fail to be written.    *)
(***************************************************************************)
EXTENDS Registry

CONSTANTS Clients,     \* running clients, each with its own config.json
          CustomIds,   \* the IDs a user may ask for
          RestartWhileBusy  \* may the operator restart while a handshake or a
                            \* save is running, or a stats frame is unread?

ASSUME OwnershipAssumption ==
    /\ CustomIds \subseteq Ids
    /\ RestartWhileBusy \in BOOLEAN

VARIABLES cfg,       \* the Config a client holds in memory
          cfgFile,   \* its config.json
          link,      \* "off", "wait" (for hello_ack) or "on"
          conn,      \* the handler at the other end of its connection
          inbox      \* the hello_ack on its way to the client

clientVars == <<cfg, cfgFile, link, conn, inbox>>
vars == <<registryVars, clientVars>>

Config == [customId : CustomIds \cup {NoId}, tunnelId : Ids \cup {NoId},
           secret : Secrets \cup {NoSecret}]

Init ==
    /\ InitRegistry
    /\ cfg \in [Clients -> [customId : CustomIds \cup {NoId}, tunnelId : {NoId},
                            secret : {NoSecret}]]
    /\ cfgFile = cfg
    /\ link = [c \in Clients |-> "off"]
    /\ conn = [c \in Clients |-> Nobody]
    /\ inbox = [c \in Clients |-> NoAnswer]

-----------------------------------------------------------------------------
(* connect: hello carries the CustomID and the secret last stored. *)
Connect(c, p) ==
    /\ link[c] = "off"
    /\ Accept(p, cfg[c].customId, cfg[c].secret)
    /\ link' = [link EXCEPT ![c] = "wait"]
    /\ conn' = [conn EXCEPT ![c] = p]
    /\ UNCHANGED <<cfg, cfgFile, inbox>>

(***************************************************************************)
(* handleHello after Register: the session takes over the tunnel, an older *)
(* session of the same tunnel is closed, and hello_ack is sent.            *)
(***************************************************************************)
Publish(p) ==
    /\ pc[p] = "bound"
    /\ pc' = [pc EXCEPT ![p] = "online"]
    /\ closed' = [q \in Handlers |->
                    \/ closed[q]
                    \/ /\ q # p /\ pc[q] # "idle" /\ q \notin Binding
                       /\ gen[q] = gen[p] /\ bound[q].id = bound[p].id]
    /\ inbox' = [c \in Clients |-> IF conn[c] = p THEN bound[p] ELSE inbox[c]]
    /\ UNCHANGED <<tunnels, mu, disk, tmp, cur, issued, gen, hello, bound,
                   lag, cfg, cfgFile, link, conn>>

(* A rejected hello: the server answers with an error and closes. *)
Reject(p) ==
    /\ pc[p] = "rejected"
    /\ Return(p)
    /\ link' = [c \in Clients |-> IF conn[c] = p THEN "off" ELSE link[c]]
    /\ conn' = [c \in Clients |-> IF conn[c] = p THEN Nobody ELSE conn[c]]
    /\ UNCHANGED <<cfg, cfgFile, inbox>>

(* connect after hello_ack: the answer goes into the Config and its file. *)
Acknowledge(c) ==
    LET ack == inbox[c]
        new == [cfg[c] EXCEPT !.tunnelId = ack.id,
                              !.secret = IF ack.secret # NoSecret THEN ack.secret ELSE @]
    IN  /\ link[c] = "wait" /\ ack # NoAnswer
        /\ cfg' = [cfg EXCEPT ![c] = new]
        /\ cfgFile' \in {cfgFile, [cfgFile EXCEPT ![c] = new]} \* SaveConfig may fail
        /\ link' = [link EXCEPT ![c] = "on"]
        /\ inbox' = [inbox EXCEPT ![c] = NoAnswer]
        /\ UNCHANGED <<registryVars, conn>>

(* The connection is lost, or the client gives up waiting for hello_ack. *)
Drop(c) ==
    /\ link[c] # "off"
    /\ link' = [link EXCEPT ![c] = "off"]
    /\ conn' = [conn EXCEPT ![c] = Nobody]
    /\ inbox' = [inbox EXCEPT ![c] = NoAnswer]
    /\ UNCHANGED <<registryVars, cfg, cfgFile>>

(* The client process restarts from its config.json. *)
ClientRestart(c) ==
    /\ cfg' = [cfg EXCEPT ![c] = cfgFile[c]]
    /\ link' = [link EXCEPT ![c] = "off"]
    /\ conn' = [conn EXCEPT ![c] = Nobody]
    /\ inbox' = [inbox EXCEPT ![c] = NoAnswer]
    /\ UNCHANGED <<registryVars, cfgFile>>

(* The user of the GUI client asks for another ID and presses Connect: the *)
(* new Config is saved before the client runs.                             *)
SetCustomID(c) ==
    /\ link[c] = "off"
    /\ \E id \in CustomIds : cfg' = [cfg EXCEPT ![c].customId = id]
    /\ cfgFile' = [cfgFile EXCEPT ![c] = cfg'[c]]
    /\ UNCHANGED <<registryVars, link, conn, inbox>>

(* The session of a closed or abandoned connection ends. *)
End(p) ==
    /\ pc[p] = "online"
    /\ closed[p] \/ \A c \in Clients : conn[c] # p
    /\ Return(p)
    /\ conn' = [c \in Clients |-> IF conn[c] = p THEN Nobody ELSE conn[c]]
    /\ UNCHANGED <<cfg, cfgFile, link, inbox>>

(***************************************************************************)
(* A client answers get_stats only once it is online.  An operator who     *)
(* restarts an idle server leaves no frame unread in a session of the old  *)
(* one.                                                                    *)
(***************************************************************************)
Stats(c) ==
    /\ link[c] = "on" /\ conn[c] # Nobody
    /\ RestartWhileBusy \/ gen[conn[c]] = cur
    /\ StatsSetTarget(conn[c])
    /\ UNCHANGED clientVars

ServerCrash ==
    /\ Crash
    /\ conn' = [c \in Clients |-> Nobody]
    /\ UNCHANGED <<cfg, cfgFile, link, inbox>>

ServerStopStart ==
    /\ RestartWhileBusy \/ Binding \cup Saving = {}
    /\ StopStart
    /\ UNCHANGED clientVars

Next ==
    \/ \E p \in Handlers :
          \/ \E c \in Clients : Connect(c, p)
          \/ RegisterReuse(p) /\ UNCHANGED clientVars
          \/ RegisterFresh(p) /\ UNCHANGED clientVars
          \/ StatsSave(p) /\ UNCHANGED clientVars
          \/ WriteTmp(p) /\ UNCHANGED clientVars
          \/ Rename(p) /\ UNCHANGED clientVars
          \/ SaveFails(p) /\ UNCHANGED clientVars
          \/ Publish(p)
          \/ Reject(p)
          \/ End(p)
    \/ \E c \in Clients :
          \/ Acknowledge(c)
          \/ Drop(c)
          \/ ClientRestart(c)
          \/ SetCustomID(c)
          \/ Stats(c)
    \/ ServerCrash
    \/ ServerStopStart

Spec == Init /\ [][Next]_vars

-----------------------------------------------------------------------------
TypeOK ==
    /\ tunnels \in [Gens -> Records]
    /\ mu \in [Gens -> Handlers \cup {Nobody}]
    /\ disk \in Records \cup {NoFile}
    /\ tmp \in Records \cup {NoFile}
    /\ cur \in Gens
    /\ issued \subseteq Secrets
    /\ pc \in [Handlers -> {"idle", "hello", "registerWrite", "registerRename", "bound",
                            "rejected", "online", "stats", "statsWrite", "statsRename"}]
    /\ gen \in [Handlers -> Gens]
    /\ hello \in [Handlers -> [desired : CustomIds \cup {NoId},
                               secret : Secrets \cup {NoSecret}]]
    /\ bound \in [Handlers -> [id : Ids \cup {NoId}, secret : Secrets \cup {NoSecret}]]
    /\ closed \in [Handlers -> BOOLEAN]
    /\ lag \in [Gens -> BOOLEAN]
    /\ cfg \in [Clients -> Config]
    /\ cfgFile \in [Clients -> Config]
    /\ link \in [Clients -> {"off", "wait", "on"}]
    /\ conn \in [Clients -> Handlers \cup {Nobody}]
    /\ inbox \in [Clients -> [id : Ids \cup {NoId}, secret : Secrets \cup {NoSecret}]]

(* The configuration k would be answered idReused for its tunnelId. *)
Honoured(k) == /\ disk # NoFile
               /\ disk[k.tunnelId] # Absent
               /\ verifySecret(disk[k.tunnelId], k.secret)

(***************************************************************************)
(* The server never forgets what it acknowledged: an ID and secret that    *)
(* reached a client, in memory or in config.json, stay in tunnels.json, so *)
(* no crash of the server between the save, the ack and its delivery takes *)
(* the ID away from its owner (Register, connect).                         *)
(***************************************************************************)
AckedCredentialsSurvive ==
    \A c \in Clients : \A k \in {cfg[c], cfgFile[c]} :
        k.tunnelId # NoId => Honoured(k)

(***************************************************************************)
(* No two clients ever hold the same tunnel ID, whatever they ask for and  *)
(* whatever is lost between them and the server (Register's ownership      *)
(* check, last-connect-wins only for the owner).                           *)
(***************************************************************************)
SoleOwner ==
    \A a, b \in Clients :
        a # b => \A k \in {cfg[a], cfgFile[a]}, l \in {cfg[b], cfgFile[b]} :
                    k.tunnelId # NoId => k.tunnelId # l.tunnelId

(***************************************************************************)
(* Once every save has ended and none has failed since the last one that   *)
(* succeeded, the file agrees with the map, although targets change        *)
(* without the mutex while another handler is saving (stats, saveLocked).  *)
(***************************************************************************)
MemoryReachesDisk ==
    \/ lag[cur]
    \/ \E p \in Handlers : gen[p] = cur /\ (mu[cur] = p \/ pc[p] = "stats")
    \/ Load(disk) = tunnels[cur]

(***************************************************************************)
(* Registry entries are kept forever: a saved ID is never dropped from the *)
(* file and its secret hash never changes.                                 *)
(***************************************************************************)
EntriesKept ==
    [][\A id \in Ids : Load(disk)[id] # Absent =>
          /\ Load(disk')[id] # Absent
          /\ Load(disk')[id].hash = Load(disk)[id].hash]_disk
=============================================================================
