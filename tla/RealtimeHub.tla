------------------------------- MODULE RealtimeHub -------------------------------
(***************************************************************************)
(* infrastructure/realtime: the websocket hub.  Connections register under *)
(* their user, a publisher copies the user's connections while it holds    *)
(* the mutex and sends to the copies one by one without it.  A goroutine   *)
(* per connection waits for the peer to go and a publisher drops the       *)
(* connections it cannot send to, so both may clean up the same one while  *)
(* new connections of the user arrive.                                     *)
(***************************************************************************)
EXTENDS Naturals

CONSTANTS
  Users,
  Clients,      \* the connections ever made
  UserOf,       \* the user a connection was authenticated for
  Publishers    \* the goroutines that may be publishing at the same time

ASSUME UserOfAssumption == UserOf \in [Clients -> Users]

VARIABLES
  clients,   \* the hub's map from a user to the connections registered
  reader,    \* where the goroutine of each connection is
  socket,    \* the connection itself: up, down (the peer is gone), closed
  publish    \* where each publisher is

hub == <<clients, reader, socket, publish>>

\* len(h.clients[userID]) and its keys: nothing for a missing entry.
Listed(u) == IF u \in DOMAIN clients THEN clients[u] ELSE {}

\* register: the entry of the user is made if it is missing.
Registered(c) ==
  [u \in DOMAIN clients \cup {UserOf[c]} |->
     IF u = UserOf[c] THEN Listed(u) \cup {c} ELSE clients[u]]

\* Mutant: an entry that became empty stays.
UnregisteredOnly(c) == [u \in DOMAIN clients |-> clients[u] \ {c}]

\* Mutant: the entry goes with the connection, whoever else is in it.
UnregisteredWithEntry(c) == [u \in DOMAIN clients \ {UserOf[c]} |-> clients[u]]

\* unregister: an entry that became empty is deleted, a missing one is fine.
Unregistered(c) ==
  LET left == Listed(UserOf[c]) \ {c} IN
  [u \in IF left = {} THEN DOMAIN clients \ {UserOf[c]} ELSE DOMAIN clients |->
     IF u = UserOf[c] THEN left ELSE clients[u]]

-----------------------------------------------------------------------------
(* The goroutine of a connection: ServeHTTP *)

\* The handshake: the connection is up and not registered yet.
Connect(c) ==
  /\ reader[c] = "none"
  /\ reader' = [reader EXCEPT ![c] = "accepted"]
  /\ socket' = [socket EXCEPT ![c] = "up"]
  /\ UNCHANGED <<clients, publish>>

Register(c) ==
  /\ reader[c] = "accepted"
  /\ reader' = [reader EXCEPT ![c] = "reading"]
  /\ clients' = Registered(c)
  /\ UNCHANGED <<socket, publish>>

\* External: the peer closes the connection or its network is gone.
PeerLeaves(c) ==
  /\ socket[c] = "up"
  /\ socket' = [socket EXCEPT ![c] = "down"]
  /\ UNCHANGED <<clients, reader, publish>>

\* Mutant: the goroutine waits until somebody else closes the connection.
ReceiveEndsOnClose(c) ==
  /\ reader[c] = "reading" /\ socket[c] = "closed"
  /\ reader' = [reader EXCEPT ![c] = "leaving"]
  /\ UNCHANGED <<clients, socket, publish>>

\* Receive fails: the deferred calls run, conn.Close before unregister.
ReceiveFails(c) ==
  /\ reader[c] = "reading" /\ socket[c] # "up"
  /\ reader' = [reader EXCEPT ![c] = "leaving"]
  /\ socket' = [socket EXCEPT ![c] = "closed"]
  /\ UNCHANGED <<clients, publish>>

Leave(c) ==
  /\ reader[c] = "leaving"
  /\ reader' = [reader EXCEPT ![c] = "gone"]
  /\ clients' = Unregistered(c)
  /\ UNCHANGED <<socket, publish>>

-----------------------------------------------------------------------------
(* PublishToUser *)

Quiet == [at |-> "quiet"]

\* Mutant: the loop does not end with the copy.
SendingOn(to, event) == [at |-> "send", to |-> to, event |-> event]

\* The loop goes on with the connections that are left of the copy.
Sending(to, event) ==
  IF to = {} THEN Quiet ELSE [at |-> "send", to |-> to, event |-> event]

\* Mutant: the connections of everybody.
PublishToAll(p, u, event) ==
  publish' = [publish EXCEPT ![p] = Sending(UNION {clients[x] : x \in DOMAIN clients}, event)]

\* The connections of the user are copied under the read lock.
PublishToUser(p, u, event) == publish' = [publish EXCEPT ![p] = Sending(Listed(u), event)]

\* A send to a peer that is gone may still succeed: the frame is buffered.
Send(p, c) ==
  /\ publish[p].at = "send" /\ c \in publish[p].to
  /\ socket[c] # "closed"
  /\ publish' = [publish EXCEPT ![p] = Sending(@.to \ {c}, @.event)]
  /\ UNCHANGED <<clients, reader, socket>>

SendFails(p, c) ==
  /\ publish[p].at = "send" /\ c \in publish[p].to
  /\ socket[c] # "up"
  /\ publish' = [publish EXCEPT ![p] =
       [at |-> "drop", client |-> c, to |-> @.to \ {c}, event |-> @.event]]
  /\ UNCHANGED <<clients, reader, socket>>

\* The publisher unregisters the connection, then closes it.
Drop(p) ==
  /\ publish[p].at = "drop"
  /\ clients' = Unregistered(publish[p].client)
  /\ publish' = [publish EXCEPT ![p].at = "close"]
  /\ UNCHANGED <<reader, socket>>

Close(p) ==
  /\ publish[p].at = "close"
  /\ socket' = [socket EXCEPT ![publish[p].client] = "closed"]
  /\ publish' = [publish EXCEPT ![p] = Sending(@.to, @.event)]
  /\ UNCHANGED <<clients, reader>>

Connections == \E c \in Clients :
  Connect(c) \/ Register(c) \/ PeerLeaves(c) \/ ReceiveFails(c) \/ Leave(c)

Deliver(p) == (\E c \in Clients : Send(p, c) \/ SendFails(p, c)) \/ Drop(p) \/ Close(p)

\* Anybody may publish: the services do, here with an event of no interest.
Publish(p, u) ==
  /\ publish[p] = Quiet
  /\ PublishToUser(p, u, "event")
  /\ UNCHANGED <<clients, reader, socket>>

HubInit ==
  /\ clients = [u \in {} |-> {}]
  /\ reader = [c \in Clients |-> "none"]
  /\ socket = [c \in Clients |-> "closed"]
  /\ publish = [p \in Publishers |-> Quiet]

HubNext == Connections \/ \E p \in Publishers : Deliver(p) \/ \E u \in Users : Publish(p, u)

\* The scheduler runs every goroutine, and a lost peer is noticed: the http
\* server keeps TCP keep-alive on, and a half-open connection times out.
HubFairness ==
  /\ \A c \in Clients : WF_hub(Register(c)) /\ WF_hub(ReceiveFails(c)) /\ WF_hub(Leave(c))
  /\ \A p \in Publishers : WF_hub(Deliver(p))

HubSpec == HubInit /\ [][HubNext]_hub

HubFairSpec == HubSpec /\ HubFairness

-----------------------------------------------------------------------------
(* Properties *)

\* The shape of the hub's state, whatever the events are.
HubTypeOK ==
  /\ DOMAIN clients \subseteq Users /\ \A u \in DOMAIN clients : clients[u] \subseteq Clients
  /\ reader \in [Clients -> {"none", "accepted", "reading", "leaving", "gone"}]
  /\ socket \in [Clients -> {"up", "down", "closed"}]
  /\ DOMAIN publish = Publishers
  /\ \A p \in Publishers :
       \/ publish[p] = Quiet
       \/ publish[p].at = "send" /\ publish[p].to \in (SUBSET Clients) \ {{}}
       \/ publish[p].at \in {"drop", "close"} /\ publish[p].to \subseteq Clients /\ publish[p].client \in Clients


\* A connection whose goroutine waits for messages and whose peer is there is
\* listed under its user, and so gets what is published: no clean-up of another
\* connection, by its goroutine or by a publisher, takes it away.
LiveClientsAreListed ==
  \A c \in Clients : reader[c] = "reading" /\ socket[c] = "up" => c \in Listed(UserOf[c])

\* The map holds nothing of a connection whose goroutine has ended, no
\* connection of another user, and no empty entry: it does not grow for ever.
GoneIsForgotten ==
  \A u \in DOMAIN clients :
    /\ clients[u] # {}
    /\ \A c \in clients[u] : UserOf[c] = u /\ reader[c] \in {"reading", "leaving"}

\* A connection whose peer is gone leaves the map, and its goroutine ends.
LostClientsLeave == \A c \in Clients :
  (reader[c] = "reading" /\ socket[c] # "up") ~> (reader[c] = "gone" /\ c \notin Listed(UserOf[c]))

=============================================================================
