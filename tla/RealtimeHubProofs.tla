--------------------------- MODULE RealtimeHubProofs ---------------------------
(***************************************************************************)
(* The hub keeps every live connection and forgets every lost one, for any *)
(* number of users, connections and publishers.  The argument: a           *)
(* connection that a publisher is about to drop was registered once and    *)
(* has lost its peer for good, so no clean-up is ever of a live one, and   *)
(* a clean-up of one connection leaves the others of its user in the map.  *)
(***************************************************************************)
EXTENDS RealtimeHub, TLAPS

ReaderStates == {"none", "accepted", "reading", "leaving", "gone"}

Sender == [at : {"send"}, to : (SUBSET Clients) \ {{}}, event : {"event"}]

Dropper == [at : {"drop", "close"}, client : Clients, to : SUBSET Clients, event : {"event"}]

HubTypes ==
  /\ DOMAIN clients \subseteq Users /\ \A u \in DOMAIN clients : clients[u] \subseteq Clients
  /\ reader \in [Clients -> ReaderStates]
  /\ socket \in [Clients -> {"up", "down", "closed"}]
  /\ publish \in [Publishers -> {Quiet} \cup Sender \cup Dropper]

\* Registered at some time.
Began(c) == reader[c] \in {"reading", "leaving", "gone"}

\* Publishers hold connections that were registered, and drop lost ones only.
PublishersKnow == \A p \in Publishers :
  /\ publish[p].at \in {"send", "drop", "close"} => \A c \in publish[p].to : Began(c)
  /\ publish[p].at \in {"drop", "close"} => Began(publish[p].client) /\ socket[publish[p].client] # "up"

HubInv == HubTypes /\ PublishersKnow /\ LiveClientsAreListed /\ GoneIsForgotten

\* Whoever began stays so, and a lost peer does not come back.
Onward == \A c \in Clients : Began(c) => Began(c)' /\ (socket[c] # "up" => socket'[c] # "up")

-----------------------------------------------------------------------------
(* The map *)

LEMMA RegisteredMap ==
  ASSUME HubTypes, NEW c \in Clients, clients' = Registered(c)
  PROVE  /\ DOMAIN clients' = DOMAIN clients \cup {UserOf[c]} /\ UserOf[c] \in Users
         /\ clients'[UserOf[c]] = Listed(UserOf[c]) \cup {c}
         /\ \A u \in DOMAIN clients \ {UserOf[c]} : clients'[u] = clients[u]
  BY UserOfAssumption DEF Registered

LEMMA UnregisteredMap ==
  ASSUME HubTypes, NEW c \in Clients, clients' = Unregistered(c)
  PROVE  /\ DOMAIN clients' \subseteq DOMAIN clients
         /\ \A u \in DOMAIN clients \ {UserOf[c]} : u \in DOMAIN clients' /\ clients'[u] = clients[u]
         /\ UserOf[c] \in DOMAIN clients' <=> Listed(UserOf[c]) \ {c} # {}
         /\ UserOf[c] \in DOMAIN clients' => clients'[UserOf[c]] = Listed(UserOf[c]) \ {c}
<1> DEFINE left == Listed(UserOf[c]) \ {c}
<1>1. CASE left = {}
  <2>1. clients' = [u \in DOMAIN clients \ {UserOf[c]} |-> IF u = UserOf[c] THEN left ELSE clients[u]]
    BY <1>1 DEF Unregistered
  <2> QED
    BY <1>1, <2>1
<1>2. CASE left # {}
  <2>1. clients' = [u \in DOMAIN clients |-> IF u = UserOf[c] THEN left ELSE clients[u]]
    BY <1>2 DEF Unregistered
  <2>2. UserOf[c] \in DOMAIN clients
    BY <1>2 DEF Listed
  <2> QED
    BY <1>2, <2>1, <2>2
<1> QED
  BY <1>1, <1>2

\* The clean-up of one connection keeps the others, and nothing of it.
LEMMA CleanUp ==
  ASSUME HubInv, NEW c \in Clients, clients' = Unregistered(c)
  PROVE  /\ DOMAIN clients' \subseteq Users /\ \A u \in DOMAIN clients' : clients'[u] \subseteq Clients
         /\ \A d \in Clients \ {c} : d \in Listed(UserOf[d]) => d \in Listed(UserOf[d])'
         /\ \A u \in DOMAIN clients' :
              /\ clients'[u] # {}
              /\ \A d \in clients'[u] : d # c /\ u \in DOMAIN clients /\ d \in clients[u]
<1>1. HubTypes /\ GoneIsForgotten
  BY DEF HubInv
<1>2. \A u \in DOMAIN clients' : u \in DOMAIN clients /\ clients'[u] \subseteq clients[u] /\ clients'[u] # {} /\ c \notin clients'[u]
  <2> TAKE u \in DOMAIN clients'
  <2>1. CASE u = UserOf[c]
    BY <1>1, <2>1, UnregisteredMap DEF Listed
  <2>2. CASE u # UserOf[c]
    BY <1>1, <2>2, UnregisteredMap DEF GoneIsForgotten
  <2> QED
    BY <2>1, <2>2
<1>3. ASSUME NEW d \in Clients \ {c}, d \in Listed(UserOf[d]) PROVE d \in Listed(UserOf[d])'
  <2>1. UserOf[d] \in DOMAIN clients /\ d \in clients[UserOf[d]]
    BY <1>3 DEF Listed
  <2>2. UserOf[d] \in DOMAIN clients' /\ d \in clients'[UserOf[d]]
    <3>1. CASE UserOf[d] = UserOf[c]
      BY <1>1, <1>3, <3>1, UnregisteredMap
    <3>2. CASE UserOf[d] # UserOf[c]
      BY <1>1, <2>1, <3>2, UnregisteredMap
    <3> QED
      BY <3>1, <3>2
  <2> QED
    BY <2>2 DEF Listed
<1> QED
  BY <1>1, <1>2, <1>3 DEF HubTypes

-----------------------------------------------------------------------------
(* Connections *)

\* Publishers keep what they know while others move on.
LEMMA KnowledgeStays ==
  ASSUME HubInv, Onward, UNCHANGED publish
  PROVE  PublishersKnow'
<1>1. ASSUME NEW p \in Publishers
      PROVE  /\ publish[p].at \in {"send", "drop", "close"} => publish[p].to \subseteq Clients
             /\ publish[p].at \in {"drop", "close"} => publish[p].client \in Clients
  BY DEF HubInv, HubTypes, Quiet, Sender, Dropper
<1> QED
  BY <1>1 DEF HubInv, PublishersKnow, Onward

LEMMA ConnectionKeeps ==
  ASSUME HubInv, NEW c \in Clients,
         Connect(c) \/ Register(c) \/ PeerLeaves(c) \/ ReceiveFails(c) \/ Leave(c)
  PROVE  HubInv'
<1>1. HubTypes /\ LiveClientsAreListed /\ GoneIsForgotten
  BY DEF HubInv
<1>2. Onward
  BY <1>1 DEF Onward, Began, HubTypes, Connect, Register, PeerLeaves, ReceiveFails, Leave
<1>3. PublishersKnow'
  BY <1>2, KnowledgeStays DEF Connect, Register, PeerLeaves, ReceiveFails, Leave
<1>4. CASE Connect(c) \/ PeerLeaves(c) \/ ReceiveFails(c)
  <2>1. HubTypes'
    BY <1>1, <1>4 DEF HubTypes, Connect, PeerLeaves, ReceiveFails, ReaderStates
  <2>2. LiveClientsAreListed'
    BY <1>1, <1>4 DEF HubTypes, LiveClientsAreListed, Listed, Connect, PeerLeaves, ReceiveFails
  <2>3. GoneIsForgotten'
    BY <1>1, <1>4 DEF HubTypes, GoneIsForgotten, Connect, PeerLeaves, ReceiveFails
  <2> QED
    BY <1>3, <2>1, <2>2, <2>3 DEF HubInv
<1>5. CASE Register(c)
  <2>1. clients' = Registered(c) /\ reader' = [reader EXCEPT ![c] = "reading"] /\ UNCHANGED <<socket, publish>>
    BY <1>5 DEF Register
  <2>5. /\ DOMAIN clients' = DOMAIN clients \cup {UserOf[c]} /\ UserOf[c] \in Users
        /\ clients'[UserOf[c]] = Listed(UserOf[c]) \cup {c}
        /\ \A u \in DOMAIN clients \ {UserOf[c]} : clients'[u] = clients[u]
    BY <1>1, <2>1, RegisteredMap
  <2>6. Listed(UserOf[c]) \subseteq Clients
    BY <1>1 DEF HubTypes, Listed
  <2>2. HubTypes'
    <3>1. reader' \in [Clients -> ReaderStates]
      BY <1>1, <2>1 DEF HubTypes, ReaderStates
    <3>2. DOMAIN clients' \subseteq Users /\ \A u \in DOMAIN clients' : clients'[u] \subseteq Clients
      BY <1>1, <2>5, <2>6 DEF HubTypes
    <3> QED
      BY <1>1, <2>1, <3>1, <3>2 DEF HubTypes
  <2>3. LiveClientsAreListed'
    <3>1. \A d \in Clients : d = c \/ d \in Listed(UserOf[d]) => d \in Listed(UserOf[d])'
      BY <2>5 DEF Listed
    <3> QED
      BY <1>1, <2>1, <3>1 DEF HubTypes, LiveClientsAreListed
  <2>4. GoneIsForgotten'
    <3> SUFFICES ASSUME NEW u \in DOMAIN clients'
                 PROVE  clients'[u] # {} /\ \A d \in clients'[u] : UserOf[d] = u /\ reader'[d] \in {"reading", "leaving"}
      BY DEF GoneIsForgotten
    <3>1. reader'[c] = "reading" /\ \A d \in Clients \ {c} : reader'[d] = reader[d]
      BY <1>1, <2>1 DEF HubTypes
    <3>2. CASE u = UserOf[c]
      BY <1>1, <2>5, <2>6, <3>1, <3>2 DEF GoneIsForgotten, Listed
    <3>3. CASE u # UserOf[c]
      BY <1>1, <2>5, <3>1, <3>3 DEF GoneIsForgotten, HubTypes
    <3> QED
      BY <3>2, <3>3
  <2> QED
    BY <1>3, <2>2, <2>3, <2>4 DEF HubInv
<1>6. CASE Leave(c)
  <2>1. clients' = Unregistered(c) /\ reader' = [reader EXCEPT ![c] = "gone"] /\ UNCHANGED <<socket, publish>>
    BY <1>6 DEF Leave
  <2>2. HubTypes'
    BY <1>1, <2>1, CleanUp DEF HubTypes, ReaderStates
  <2>3. LiveClientsAreListed'
    BY <1>1, <2>1, CleanUp DEF HubTypes, LiveClientsAreListed
  <2>4. GoneIsForgotten'
    BY <1>1, <2>1, CleanUp DEF HubTypes, GoneIsForgotten
  <2> QED
    BY <1>3, <2>2, <2>3, <2>4 DEF HubInv
<1> QED
  BY <1>4, <1>5, <1>6

-----------------------------------------------------------------------------
(* Publishers *)

\* A publisher that goes on with what is left of its copy.
LEMMA SendingOnKeeps ==
  ASSUME NEW to \in SUBSET Clients
  PROVE  Sending(to, "event") \in {Quiet} \cup Sender
<1>1. CASE to = {}
  BY <1>1 DEF Sending
<1>2. CASE to # {}
  <2>2. to \in (SUBSET Clients) \ {{}}
    BY <1>2
  <2>1. [at |-> "send", to |-> to, event |-> "event"] \in Sender
    BY <2>2 DEF Sender
  <2> QED
    BY <1>2, <2>1 DEF Sending
<1> QED
  BY <1>1, <1>2

LEMMA PublisherKeeps ==
  ASSUME HubInv, NEW p \in Publishers, UNCHANGED reader,
         publish' \in [Publishers -> {Quiet} \cup Sender \cup Dropper],
         \A q \in Publishers \ {p} : publish'[q] = publish[q],
         publish'[p].at \in {"send", "drop", "close"} => \A c \in publish'[p].to : Began(c),
         publish'[p].at \in {"drop", "close"} => Began(publish'[p].client) /\ socket'[publish'[p].client] # "up",
         \A c \in Clients : socket[c] # "up" => socket'[c] # "up"
  PROVE  PublishersKnow'
<1>1. ASSUME NEW q \in Publishers
      PROVE  publish[q].at \in {"drop", "close"} => publish[q].client \in Clients
  BY DEF HubInv, HubTypes, Quiet, Sender, Dropper
<1>2. \A c : Began(c)' <=> Began(c)
  BY DEF Began
<1> QED
  BY <1>1, <1>2 DEF HubInv, PublishersKnow

LEMMA SendKeeps ==
  ASSUME HubInv, NEW p \in Publishers, NEW c \in Clients, Send(p, c) \/ SendFails(p, c)
  PROVE  HubInv'
<1>1. HubTypes /\ LiveClientsAreListed /\ GoneIsForgotten /\ PublishersKnow
  BY DEF HubInv
<1>2. publish[p] \in Sender /\ c \in publish[p].to
  BY <1>1 DEF Send, SendFails, HubTypes, Quiet, Dropper
<1>3. UNCHANGED <<clients, reader, socket>>
  BY DEF Send, SendFails
<1>4. publish[p].to \subseteq Clients /\ publish[p].event = "event" /\ publish[p].at = "send"
  BY <1>2 DEF Sender
<1>5. \/ publish'[p] = Sending(publish[p].to \ {c}, "event")
      \/ /\ publish'[p] = [at |-> "drop", client |-> c, to |-> publish[p].to \ {c}, event |-> "event"]
         /\ socket[c] # "up"
  BY <1>1, <1>4 DEF Send, SendFails, HubTypes
<1>6. \A q \in Publishers \ {p} : publish'[q] = publish[q]
  BY <1>1 DEF Send, SendFails, HubTypes
<1>7. publish'[p] \in {Quiet} \cup Sender \cup Dropper
  BY <1>4, <1>5, SendingOnKeeps DEF Dropper
<1>8. publish' \in [Publishers -> {Quiet} \cup Sender \cup Dropper]
  BY <1>1, <1>6, <1>7 DEF HubTypes, Send, SendFails
<1>9. PublishersKnow'
  <2>1. \A d \in publish[p].to : Began(d)
    BY <1>1, <1>4 DEF PublishersKnow
  <2>2. CASE publish'[p] = Sending(publish[p].to \ {c}, "event")
    BY <1>3, <1>6, <1>8, <2>1, <2>2, PublisherKeeps DEF Sending, Quiet
  <2>3. CASE publish'[p] = [at |-> "drop", client |-> c, to |-> publish[p].to \ {c}, event |-> "event"] /\ socket[c] # "up"
    <3>1. /\ publish'[p].at = "drop" /\ publish'[p].client = c /\ publish'[p].to = publish[p].to \ {c}
      BY <2>3
    <3> QED
      BY <1>2, <1>3, <1>6, <1>8, <2>1, <2>3, <3>1, PublisherKeeps
  <2> QED
    BY <1>5, <2>2, <2>3
<1>10. HubTypes'
  BY <1>1, <1>3, <1>8 DEF HubTypes
<1>11. LiveClientsAreListed' /\ GoneIsForgotten'
  BY <1>1, <1>3 DEF LiveClientsAreListed, GoneIsForgotten, Listed
<1> QED
  BY <1>9, <1>10, <1>11 DEF HubInv

LEMMA DropKeeps ==
  ASSUME HubInv, NEW p \in Publishers, Drop(p)
  PROVE  HubInv'
<1>1. HubTypes /\ LiveClientsAreListed /\ GoneIsForgotten /\ PublishersKnow
  BY DEF HubInv
<1> DEFINE c == publish[p].client
<1>2. publish[p] \in Dropper
  BY <1>1 DEF Drop, HubTypes, Quiet, Sender
<1>3. c \in Clients /\ Began(c) /\ socket[c] # "up" /\ \A d \in publish[p].to : Began(d)
  BY <1>1, <1>2 DEF Dropper, PublishersKnow
<1>4. UNCHANGED <<reader, socket>> /\ clients' = Unregistered(c)
  BY DEF Drop
<1>5. publish'[p] = [publish[p] EXCEPT !.at = "close"] /\ \A q \in Publishers \ {p} : publish'[q] = publish[q]
  BY <1>1 DEF Drop, HubTypes
<1>6. publish'[p] \in Dropper /\ publish'[p].at = "close" /\ publish'[p].client = c /\ publish'[p].to = publish[p].to
  BY <1>2, <1>5 DEF Dropper
<1>7. publish' \in [Publishers -> {Quiet} \cup Sender \cup Dropper]
  BY <1>1, <1>5, <1>6 DEF HubTypes, Drop
<1> HIDE DEF c
<1>8. PublishersKnow'
  BY <1>3, <1>4, <1>5, <1>6, <1>7, PublisherKeeps
<1>9. HubTypes'
  BY <1>1, <1>3, <1>4, <1>7, CleanUp DEF HubTypes
<1>10. LiveClientsAreListed'
  BY <1>1, <1>3, <1>4, CleanUp DEF LiveClientsAreListed
<1>11. GoneIsForgotten'
  BY <1>1, <1>3, <1>4, CleanUp DEF GoneIsForgotten
<1> QED
  BY <1>8, <1>9, <1>10, <1>11 DEF HubInv

LEMMA CloseKeeps ==
  ASSUME HubInv, NEW p \in Publishers, Close(p)
  PROVE  HubInv'
<1>1. HubTypes /\ LiveClientsAreListed /\ GoneIsForgotten /\ PublishersKnow
  BY DEF HubInv
<1>2. publish[p] \in Dropper
  BY <1>1 DEF Close, HubTypes, Quiet, Sender
<1>3. /\ publish[p].to \subseteq Clients /\ publish[p].event = "event" /\ publish[p].client \in Clients
      /\ \A d \in publish[p].to : Began(d)
  BY <1>1, <1>2 DEF Dropper, PublishersKnow
<1>4. UNCHANGED <<clients, reader>> /\ socket' = [socket EXCEPT ![publish[p].client] = "closed"]
  BY DEF Close
<1>5. publish'[p] = Sending(publish[p].to, "event") /\ \A q \in Publishers \ {p} : publish'[q] = publish[q]
  BY <1>1, <1>3 DEF Close, HubTypes
<1>6. publish'[p] \in {Quiet} \cup Sender
  BY <1>3, <1>5, SendingOnKeeps
<1>7. publish' \in [Publishers -> {Quiet} \cup Sender \cup Dropper]
  BY <1>1, <1>5, <1>6 DEF HubTypes, Close
<1>8. \A c \in Clients : socket'[c] = "up" => socket[c] = "up"
  BY <1>1, <1>4 DEF HubTypes
<1>9. PublishersKnow'
  BY <1>3, <1>4, <1>5, <1>7, <1>8, PublisherKeeps DEF Sending, Quiet
<1>10. HubTypes'
  BY <1>1, <1>3, <1>4, <1>7 DEF HubTypes
<1>11. LiveClientsAreListed' /\ GoneIsForgotten'
  BY <1>1, <1>4, <1>8 DEF LiveClientsAreListed, GoneIsForgotten, Listed
<1> QED
  BY <1>9, <1>10, <1>11 DEF HubInv

LEMMA PublishKeeps ==
  ASSUME HubInv, NEW p \in Publishers, NEW u \in Users, Publish(p, u)
  PROVE  HubInv'
<1>1. HubTypes /\ LiveClientsAreListed /\ GoneIsForgotten /\ PublishersKnow
  BY DEF HubInv
<1>2. Listed(u) \subseteq Clients /\ \A c \in Listed(u) : Began(c)
  BY <1>1 DEF HubTypes, GoneIsForgotten, Listed, Began
<1>3. UNCHANGED <<clients, reader, socket>>
  BY DEF Publish
<1>4. publish'[p] = Sending(Listed(u), "event") /\ \A q \in Publishers \ {p} : publish'[q] = publish[q]
  BY <1>1 DEF Publish, PublishToUser, HubTypes
<1>5. publish'[p] \in {Quiet} \cup Sender
  BY <1>2, <1>4, SendingOnKeeps
<1>6. publish' \in [Publishers -> {Quiet} \cup Sender \cup Dropper]
  BY <1>1, <1>4, <1>5 DEF HubTypes, Publish, PublishToUser
<1>7. PublishersKnow'
  BY <1>2, <1>3, <1>4, <1>6, PublisherKeeps DEF Sending, Quiet
<1>8. HubTypes'
  BY <1>1, <1>3, <1>6 DEF HubTypes
<1>9. LiveClientsAreListed' /\ GoneIsForgotten'
  BY <1>1, <1>3 DEF LiveClientsAreListed, GoneIsForgotten, Listed
<1> QED
  BY <1>7, <1>8, <1>9 DEF HubInv

-----------------------------------------------------------------------------
(* Theorems *)

LEMMA HubNextKeeps == HubInv /\ [HubNext]_hub => HubInv'
<1> SUFFICES ASSUME HubInv, [HubNext]_hub PROVE HubInv'
  OBVIOUS
<1>1. CASE Connections
  BY <1>1, ConnectionKeeps DEF Connections
<1>2. ASSUME NEW p \in Publishers, Deliver(p) PROVE HubInv'
  BY <1>2, SendKeeps, DropKeeps, CloseKeeps DEF Deliver
<1>3. ASSUME NEW p \in Publishers, NEW u \in Users, Publish(p, u) PROVE HubInv'
  BY <1>3, PublishKeeps
<1>4. CASE UNCHANGED hub
  BY <1>4 DEF hub, HubInv, HubTypes, PublishersKnow, Began, LiveClientsAreListed, GoneIsForgotten, Listed
<1> QED
  BY <1>1, <1>2, <1>3, <1>4 DEF HubNext

\* The invariant that the others are read off, which says what the publishers of
\* PublishToUser know of the connections in their copies.
THEOREM HubInvariance == HubSpec => []HubInv
<1>1. HubInit => HubInv
  <2> SUFFICES ASSUME HubInit PROVE HubInv
    OBVIOUS
  <2>1. HubTypes
    BY DEF HubInit, HubTypes, ReaderStates
  <2>2. PublishersKnow /\ LiveClientsAreListed /\ GoneIsForgotten
    BY DEF HubInit, PublishersKnow, LiveClientsAreListed, GoneIsForgotten, Quiet
  <2> QED
    BY <2>1, <2>2 DEF HubInv
<1> QED
  BY <1>1, HubNextKeeps, PTL DEF HubSpec

\* The map, the goroutines and the publishers' copies have their shape; a copy
\* that is being sent to is never empty.
THEOREM HubTypesAlways == HubSpec => []HubTypeOK
<1>1. ASSUME HubInv PROVE HubTypeOK
  <2>1. HubTypes
    BY <1>1 DEF HubInv
  <2>2. \A p \in Publishers :
          \/ publish[p] = Quiet
          \/ publish[p].at = "send" /\ publish[p].to \in (SUBSET Clients) \ {{}}
          \/ publish[p].at \in {"drop", "close"} /\ publish[p].to \subseteq Clients /\ publish[p].client \in Clients
    BY <2>1 DEF HubTypes, Sender, Dropper
  <2> QED
    BY <2>1, <2>2 DEF HubTypes, HubTypeOK, ReaderStates
<1> QED
  BY <1>1, HubInvariance, PTL

\* No clean-up, by the goroutine of another connection or by any number of
\* publishers, takes a live connection out of the map.
THEOREM LiveClientsStayListed == HubSpec => []LiveClientsAreListed
<1>1. HubInv => LiveClientsAreListed
  BY DEF HubInv
<1> QED
  BY <1>1, HubInvariance, PTL

\* The map holds nothing of a connection that has gone, and no empty entry.
THEOREM GoneStaysForgotten == HubSpec => []GoneIsForgotten
<1>1. HubInv => GoneIsForgotten
  BY DEF HubInv
<1> QED
  BY <1>1, HubInvariance, PTL

=============================================================================
