------------------------------- MODULE UdpTunnel -------------------------------
(* One tunnel end to end.  The client gives each source an id, the server gives *)
(* each id it meets an UDP socket towards the endpoint, and what the endpoint   *)
(* sends to that socket travels back under the id, to whichever source holds it *)
(* by then.  Each side closes its pairs when they have been silent, neither     *)
(* tells the other, and the client gives an id out again at once: this module   *)
(* asks whose replies a source gets.                                            *)
(*                                                                              *)
(* The tunnel is connected throughout (another connection is another server     *)
(* tunnel with tables of its own) and carries what it accepted in order; a      *)
(* message is refused, and lost, while earlier ones are still being written.    *)
(* A handler of either side is one action: how the server's threads meet inside *)
(* one is the business of ServerPairManager.                                    *)

EXTENDS Integers, Sequences, FiniteSets

CONSTANTS
  Source,       \* source addresses
  PairID,       \* the valid pair ids
  UdpSocket,    \* the server's sockets, each a local port of its own
  NoSource, NoSocket,
  MaxUnwritten  \* messages a side takes before its channel is not write complete

ASSUME UdpTunnelAssumption ==
  /\ NoSource \notin Source /\ NoSocket \notin UdpSocket
  /\ PairID \subseteq Nat \ {0}
  /\ IsFiniteSet(UdpSocket)
  /\ MaxUnwritten \in Nat \ {0}

VARIABLES
  owner,          \* client: the source that holds each id
  got,            \* whose replies a source got since it holds its id
  toServer,       \* the tunnel: [id, from], the source that sent it
  toClient,       \* the tunnel back: [id, for], the source that it replies to
  socketOf,       \* server: the socket of the pair with each id
  idOf,           \* the id of a socket's pair
  askedBy,        \* endpoint: whose datagrams came by this socket
  silentSend,     \* server: ids whose lastDataSentTime is over writeTimeout ago
  silentReceive,  \* server: ids whose lastDataReceivedTime is ...
  clean           \* ids that were taken when nothing was left of an earlier use

clientVars == <<owner, got, clean>>
serverVars == <<socketOf, idOf, silentSend, silentReceive>>
vars == <<clientVars, toServer, toClient, serverVars, askedBy>>

Receiving == {s \in UdpSocket : idOf[s] \in PairID}
NoId == 0

(* The types of both tables and of the endpoint's memory, and how much either   *)
(* side leaves unwritten.                                                       *)
TypeOK ==
  /\ owner \in [PairID -> Source \cup {NoSource}]
  /\ got \in [Source -> SUBSET Source]
  /\ toServer \in Seq([id : PairID, from : Source])
  /\ toClient \in Seq([id : PairID, for : Source])
  /\ Len(toServer) <= MaxUnwritten /\ Len(toClient) <= MaxUnwritten
  /\ socketOf \in [PairID -> UdpSocket \cup {NoSocket}]
  /\ idOf \in [UdpSocket -> PairID \cup {NoId}]
  /\ askedBy \in [UdpSocket -> SUBSET Source]
  /\ silentSend \in SUBSET PairID /\ silentReceive \in SUBSET PairID
  /\ clean \in SUBSET PairID

Init ==
  /\ owner = [id \in PairID |-> NoSource]
  /\ got = [src \in Source |-> {}]
  /\ toServer = <<>> /\ toClient = <<>>
  /\ socketOf = [id \in PairID |-> NoSocket]
  /\ idOf = [s \in UdpSocket |-> NoId]
  /\ askedBy = [s \in UdpSocket |-> {}]
  /\ silentSend = {} /\ silentReceive = {}
  /\ clean = {}

--------------------------------------------------------------------------------
(* Tunnel::send of either side: refused unless all earlier writes are complete. *)
SendAlways(tunnel, message) == Append(tunnel, message)  \* mutant: never refused

SendOver(tunnel, message) ==
  IF Len(tunnel) < MaxUnwritten THEN Append(tunnel, message) ELSE tunnel

Travels(tunnel, id) == \E i \in DOMAIN tunnel : tunnel[i].id = id
Untouched(id) ==
  /\ ~Travels(toServer, id) /\ ~Travels(toClient, id)
  /\ socketOf[id] = NoSocket

(* Client: a datagram of a source that has a pair.                              *)
ClientSends(id) ==
  /\ owner[id] # NoSource
  /\ toServer' = SendOver(toServer, [id |-> id, from |-> owner[id]])
  /\ UNCHANGED <<clientVars, toClient, serverVars, askedBy>>

(* Client: a datagram of a new source, which gets an id nobody holds.           *)
ClientOpens(src, id) ==
  /\ owner[id] = NoSource
  /\ \A other \in PairID : owner[other] # src
  /\ owner' = [owner EXCEPT ![id] = src]
  /\ got' = [got EXCEPT ![src] = {}]
  /\ clean' = IF Untouched(id) THEN clean \cup {id} ELSE clean
  /\ toServer' = SendOver(toServer, [id |-> id, from |-> src])
  /\ UNCHANGED <<toClient, serverVars, askedBy>>

(* Client: the collector closes a pair (any may be overdue; it is no use to     *)
(* the server, which hears nothing of it).                                      *)
ClientCloses(id) ==
  /\ owner[id] # NoSource
  /\ owner' = [owner EXCEPT ![id] = NoSource]
  /\ got' = [got EXCEPT ![owner[id]] = {}]
  /\ clean' = clean \ {id}
  /\ UNCHANGED <<toServer, toClient, serverVars, askedBy>>

(* Client: a message goes to the source that holds its id, or nowhere.          *)
ClientReceives ==
  /\ toClient # <<>>
  /\ LET message == Head(toClient)
         src == owner[message.id]
     IN got' = IF src = NoSource THEN got
               ELSE [got EXCEPT ![src] = @ \cup {message.for}]
  /\ toClient' = Tail(toClient)
  /\ UNCHANGED <<owner, clean, toServer, serverVars, askedBy>>

--------------------------------------------------------------------------------
(* Server: a message for an id with a pair goes out by that pair's socket; for  *)
(* another id a pair with a new socket is made first.  Either way the pair's    *)
(* send time is now.                                                            *)
SocketFor(id, s) ==
  \/ s = socketOf[id] /\ UNCHANGED <<socketOf, idOf, silentReceive>>
  \/ /\ socketOf[id] = NoSocket
     /\ s \in UdpSocket /\ idOf[s] = NoId
     /\ socketOf' = [socketOf EXCEPT ![id] = s]
     /\ idOf' = [idOf EXCEPT ![s] = id]
     /\ silentReceive' = silentReceive \ {id}

ServerReceives ==
  /\ toServer # <<>>
  /\ LET message == Head(toServer) IN
       \E s \in UdpSocket :
         /\ SocketFor(message.id, s)
         /\ askedBy' = [askedBy EXCEPT ![s] = @ \cup {message.from}]
         /\ silentSend' = silentSend \ {message.id}
  /\ toServer' = Tail(toServer)
  /\ UNCHANGED <<clientVars, toClient>>

(* Endpoint and server: a reply to anybody whose datagram came by this socket,  *)
(* at any time and any number of times, reaches the socket and is sent back     *)
(* under the id of the socket's pair.                                           *)
EndpointReplies(s, src) ==
  /\ s \in Receiving /\ src \in askedBy[s]
  /\ toClient' = SendOver(toClient, [id |-> idOf[s], for |-> src])
  /\ silentReceive' = silentReceive \ {idOf[s]}
  /\ UNCHANGED <<clientVars, toServer, socketOf, idOf, silentSend, askedBy>>

(* Time passes on the server.                                                   *)
SendTimeout(id) ==
  /\ socketOf[id] # NoSocket /\ id \notin silentSend
  /\ silentSend' = silentSend \cup {id}
  /\ UNCHANGED <<clientVars, toServer, toClient, socketOf, idOf, silentReceive, askedBy>>

ReceiveTimeout(id) ==
  /\ socketOf[id] # NoSocket /\ id \notin silentReceive
  /\ silentReceive' = silentReceive \cup {id}
  /\ UNCHANGED <<clientVars, toServer, toClient, socketOf, idOf, silentSend, askedBy>>

(* What closing a pair leaves: no entry for its id, its socket stopped.         *)
ClosePairOnly(id) ==  \* mutant: the socket is not stopped
  /\ socketOf' = [socketOf EXCEPT ![id] = NoSocket]
  /\ silentSend' = silentSend \ {id} /\ silentReceive' = silentReceive \ {id}
  /\ UNCHANGED <<idOf, askedBy>>

ClosePair(id) ==
  /\ socketOf' = [socketOf EXCEPT ![id] = NoSocket]
  /\ idOf' = [idOf EXCEPT ![socketOf[id]] = NoId]
  /\ askedBy' = [askedBy EXCEPT ![socketOf[id]] = {}]
  /\ silentSend' = silentSend \ {id} /\ silentReceive' = silentReceive \ {id}

(* Server: the collector closes a pair that is silent in either direction.      *)
ServerClosesBothSilent(id) ==  \* mutant: and for or
  /\ socketOf[id] # NoSocket
  /\ id \in silentSend /\ id \in silentReceive
  /\ ClosePair(id)
  /\ UNCHANGED <<clientVars, toServer, toClient>>

ServerCloses(id) ==
  /\ socketOf[id] # NoSocket
  /\ id \in silentSend \/ id \in silentReceive
  /\ ClosePair(id)
  /\ UNCHANGED <<clientVars, toServer, toClient>>

Next ==
  \/ \E id \in PairID :
       \/ ClientSends(id)
       \/ \E src \in Source : ClientOpens(src, id)
       \/ ClientCloses(id)
       \/ SendTimeout(id) \/ ReceiveTimeout(id)
       \/ ServerCloses(id)
  \/ ClientReceives
  \/ ServerReceives
  \/ \E s \in UdpSocket, src \in Source : EndpointReplies(s, src)

Spec == Init /\ [][Next]_vars

(* What the tunnel carries arrives; a pair that is not used becomes overdue;    *)
(* the collector's timer runs whatever else the loop does.                      *)
Fairness ==
  /\ WF_vars(ServerReceives)
  /\ \A id \in PairID : WF_vars(SendTimeout(id)) /\ SF_vars(ServerCloses(id))

FairSpec == Spec /\ Fairness

--------------------------------------------------------------------------------
(* A source gets replies to its own datagrams and nobody else's, if it took its *)
(* id when no message with it was on the way and the server had no pair for     *)
(* it.  That is all there is: an id that is taken earlier brings along the      *)
(* replies to its last holder, and the server keeps one socket for both.        *)
CleanPairGetsOwnReplies ==
  \A id \in clean : got[owner[id]] \subseteq {owner[id]}

(* The server's socket for an id that the client has given up, and gives to     *)
(* nobody else, is closed in the end, even if the endpoint never stops sending  *)
(* to it: so ids become clean again without a word from the client.             *)
OrphanIsCollected ==
  \A id \in PairID :
    socketOf[id] # NoSocket /\ owner[id] = NoSource
      ~> socketOf[id] = NoSocket \/ owner[id] # NoSource

================================================================================
