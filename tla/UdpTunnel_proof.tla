---------------------------- MODULE UdpTunnel_proof ----------------------------
(* Proofs about UdpTunnel, for any number of sources, ids and sockets and any   *)
(* length of the channels: a source that took its id clean gets only replies to *)
(* its own datagrams.                                                           *)

EXTENDS UdpTunnel, TLAPS

ToServer == [id : PairID, from : Source]
ToClient == [id : PairID, for : Source]

(* Both tables are one to one, and a socket without a pair was never used.      *)
Tables ==
  /\ \A id \in PairID : socketOf[id] # NoSocket => idOf[socketOf[id]] = id
  /\ \A s \in UdpSocket : idOf[s] # NoId => socketOf[idOf[s]] = s
  /\ \A s \in UdpSocket : idOf[s] = NoId => askedBy[s] = {}
  /\ \A id, other \in PairID :
       owner[id] # NoSource /\ owner[id] = owner[other] => id = other

(* All that is under way or remembered for a clean id is its holder's.          *)
AllOwn ==
  \A id \in clean :
    /\ owner[id] # NoSource
    /\ got[owner[id]] \subseteq {owner[id]}
    /\ \A i \in DOMAIN toServer : toServer[i].id = id => toServer[i].from = owner[id]
    /\ \A i \in DOMAIN toClient : toClient[i].id = id => toClient[i].for = owner[id]
    /\ socketOf[id] # NoSocket => askedBy[socketOf[id]] \subseteq {owner[id]}

IInv == TypeOK /\ Tables /\ AllOwn

--------------------------------------------------------------------------------
(* The channels                                                                 *)

(* What is sent is appended, or lost.                                           *)
LEMMA SendOverProperties ==
  ASSUME NEW M, NEW tunnel \in Seq(M), NEW message \in M, Len(tunnel) <= MaxUnwritten
  PROVE  /\ SendOver(tunnel, message) \in Seq(M)
         /\ Len(SendOver(tunnel, message)) <= MaxUnwritten
         /\ \A i \in DOMAIN SendOver(tunnel, message) :
              \/ SendOver(tunnel, message)[i] = message
              \/ \E j \in DOMAIN tunnel : SendOver(tunnel, message)[i] = tunnel[j]
PROOF
  <1>1. CASE Len(tunnel) < MaxUnwritten
    <2>1. SendOver(tunnel, message) = Append(tunnel, message)
      BY <1>1 DEF SendOver
    <2>2. Len(Append(tunnel, message)) = Len(tunnel) + 1
      OBVIOUS
    <2>3. ASSUME NEW i \in DOMAIN Append(tunnel, message), i # Len(tunnel) + 1
          PROVE  i \in DOMAIN tunnel /\ Append(tunnel, message)[i] = tunnel[i]
      BY <2>3
    <2>4. Append(tunnel, message)[Len(tunnel) + 1] = message
      OBVIOUS
    <2> QED BY <1>1, <2>1, <2>2, <2>3, <2>4, UdpTunnelAssumption
  <1>2. CASE ~(Len(tunnel) < MaxUnwritten)
    BY <1>2 DEF SendOver
  <1> QED BY <1>1, <1>2

(* What is received is the head; what stays was there.                          *)
LEMMA TailProperties ==
  ASSUME NEW M, NEW tunnel \in Seq(M), tunnel # <<>>
  PROVE  /\ Head(tunnel) \in M /\ 1 \in DOMAIN tunnel /\ Head(tunnel) = tunnel[1]
         /\ Tail(tunnel) \in Seq(M) /\ Len(Tail(tunnel)) = Len(tunnel) - 1
         /\ \A i \in DOMAIN Tail(tunnel) : \E j \in DOMAIN tunnel : Tail(tunnel)[i] = tunnel[j]
PROOF
  <1>1. /\ Head(tunnel) \in M /\ 1 \in DOMAIN tunnel /\ Head(tunnel) = tunnel[1]
        /\ Tail(tunnel) \in Seq(M) /\ Len(Tail(tunnel)) = Len(tunnel) - 1
    OBVIOUS
  <1>2. ASSUME NEW i \in DOMAIN Tail(tunnel)
        PROVE  i + 1 \in DOMAIN tunnel /\ Tail(tunnel)[i] = tunnel[i + 1]
    BY <1>1
  <1> QED BY <1>1, <1>2

--------------------------------------------------------------------------------
(* The invariant                                                                *)

LEMMA InitIInv == Init => IInv
PROOF BY UdpTunnelAssumption DEF Init, IInv, TypeOK, Tables, AllOwn, NoId

(* The two channels only lose what is in front, or get one more message.        *)
LEMMA ClientSendsIInv ==
  ASSUME IInv, NEW id \in PairID, ClientSends(id)
  PROVE  IInv'
PROOF
  <1> DEFINE message == [id |-> id, from |-> owner[id]]
  <1>1. message \in ToServer /\ toServer \in Seq(ToServer) /\ Len(toServer) <= MaxUnwritten
    BY DEF ClientSends, IInv, TypeOK, ToServer
  <1>2. toServer' = SendOver(toServer, message)
    BY DEF ClientSends
  <1>3. /\ toServer' \in Seq(ToServer) /\ Len(toServer') <= MaxUnwritten
        /\ \A i \in DOMAIN toServer' :
             toServer'[i] = message \/ \E j \in DOMAIN toServer : toServer'[i] = toServer[j]
    BY <1>1, <1>2, SendOverProperties
  <1>4. TypeOK' /\ Tables'
    BY <1>3 DEF ClientSends, clientVars, serverVars, IInv, TypeOK, Tables, ToServer
  <1>5. ASSUME NEW k \in clean, NEW i \in DOMAIN toServer', toServer'[i].id = k
        PROVE  toServer'[i].from = owner[k]
    BY <1>3, <1>5 DEF IInv, AllOwn
  <1>6. AllOwn'
    BY <1>5 DEF ClientSends, clientVars, serverVars, IInv, AllOwn
  <1> QED BY <1>4, <1>6 DEF IInv

LEMMA ClientOpensIInv ==
  ASSUME IInv, NEW src \in Source, NEW id \in PairID, ClientOpens(src, id)
  PROVE  IInv'
PROOF
  <1> DEFINE message == [id |-> id, from |-> src]
  <1>1. message \in ToServer /\ toServer \in Seq(ToServer) /\ Len(toServer) <= MaxUnwritten
    BY DEF IInv, TypeOK, ToServer
  <1>2. /\ toServer' = SendOver(toServer, message)
        /\ owner[id] = NoSource /\ \A other \in PairID : owner[other] # src
        /\ owner' = [owner EXCEPT ![id] = src] /\ got' = [got EXCEPT ![src] = {}]
        /\ clean' \subseteq clean \cup {id}
        /\ id \in clean' => id \in clean \/ Untouched(id)
        /\ UNCHANGED <<toClient, serverVars, askedBy>>
    BY DEF ClientOpens
  <1>3. /\ toServer' \in Seq(ToServer) /\ Len(toServer') <= MaxUnwritten
        /\ \A i \in DOMAIN toServer' :
             toServer'[i] = message \/ \E j \in DOMAIN toServer : toServer'[i] = toServer[j]
    BY <1>1, <1>2, SendOverProperties
  <1> HIDE DEF message
  <1>4. TypeOK'
    BY <1>2, <1>3 DEF serverVars, IInv, TypeOK, ToServer
  <1>5. Tables'
    BY <1>2 DEF serverVars, IInv, TypeOK, Tables
  <1>6. owner'[id] = src /\ \A k \in PairID \ {id} : owner'[k] = owner[k] /\ owner[k] # src
    BY <1>2 DEF IInv, TypeOK
  <1>7. id \notin clean
    BY <1>2 DEF IInv, AllOwn
  <1>8. src # NoSource
    BY UdpTunnelAssumption
  <1>9. clean \subseteq PairID
    BY DEF IInv, TypeOK
  <1>10. ASSUME NEW k \in clean', k # id
         PROVE  /\ k \in clean /\ owner'[k] = owner[k] /\ got'[owner'[k]] = got[owner[k]]
                /\ \A i \in DOMAIN toServer' :
                     toServer'[i].id = k => toServer'[i].from = owner'[k]
    <2>1. k \in clean /\ owner'[k] = owner[k] /\ owner[k] # src
      BY <1>2, <1>6, <1>9, <1>10
    <2>2. got'[owner'[k]] = got[owner[k]]
      BY <1>2, <1>9, <2>1 DEF IInv, TypeOK, AllOwn
    <2>3. message.id # k
      BY <1>10 DEF message
    <2> QED BY <1>3, <2>1, <2>2, <2>3 DEF IInv, AllOwn
  <1>11. ASSUME id \in clean'
         PROVE  /\ got'[src] = {} /\ socketOf[id] = NoSocket
                /\ \A i \in DOMAIN toServer' :
                     toServer'[i].id = id => toServer'[i].from = src
                /\ \A i \in DOMAIN toClient : toClient[i].id # id
    <2>1. Untouched(id)
      BY <1>2, <1>7, <1>11
    <2>2. got'[src] = {}
      BY <1>2 DEF IInv, TypeOK
    <2>3. message.from = src
      BY DEF message
    <2> QED BY <1>3, <2>1, <2>2, <2>3 DEF Untouched, Travels
  <1>12. AllOwn'
    <2> SUFFICES ASSUME NEW k \in clean'
                 PROVE  /\ owner'[k] # NoSource
                        /\ got'[owner'[k]] \subseteq {owner'[k]}
                        /\ \A i \in DOMAIN toServer' :
                             toServer'[i].id = k => toServer'[i].from = owner'[k]
                        /\ \A i \in DOMAIN toClient :
                             toClient[i].id = k => toClient[i].for = owner'[k]
                        /\ socketOf[k] # NoSocket => askedBy[socketOf[k]] \subseteq {owner'[k]}
      BY <1>2 DEF AllOwn, serverVars
    <2>1. CASE k = id
      BY <1>6, <1>8, <1>11, <2>1
    <2>2. CASE k # id
      BY <1>10, <2>2 DEF IInv, AllOwn
    <2> QED BY <2>1, <2>2
  <1> QED BY <1>4, <1>5, <1>12 DEF IInv

LEMMA ClientClosesIInv ==
  ASSUME IInv, NEW id \in PairID, ClientCloses(id)
  PROVE  IInv'
PROOF
  <1>1. TypeOK'
    BY DEF ClientCloses, serverVars, IInv, TypeOK
  <1>2. Tables'
    BY DEF ClientCloses, serverVars, IInv, TypeOK, Tables
  <1>3. ASSUME NEW k \in clean'
        PROVE  k \in clean /\ owner'[k] = owner[k] /\ got'[owner'[k]] = got[owner[k]]
    <2>1. k \in clean /\ k # id /\ k \in PairID
      BY DEF ClientCloses, IInv, TypeOK
    <2>2. owner'[k] = owner[k] /\ owner[k] # owner[id]
      BY <2>1 DEF ClientCloses, IInv, TypeOK, Tables
    <2> QED BY <2>1, <2>2 DEF ClientCloses, IInv, TypeOK, AllOwn
  <1>4. AllOwn'
    BY <1>3 DEF ClientCloses, serverVars, IInv, AllOwn
  <1> QED BY <1>1, <1>2, <1>4 DEF IInv

(* A reply under a clean id is for its holder, and the holder of another id is  *)
(* another source.                                                              *)
LEMMA ClientReceivesIInv ==
  ASSUME IInv, ClientReceives
  PROVE  IInv'
PROOF
  <1> DEFINE message == Head(toClient)
             src == owner[message.id]
  <1>1. toClient \in Seq(ToClient) /\ toClient # <<>> /\ Len(toClient) <= MaxUnwritten
    BY DEF ClientReceives, IInv, TypeOK, ToClient
  <1>2. /\ message \in ToClient /\ 1 \in DOMAIN toClient /\ message = toClient[1]
        /\ toClient' \in Seq(ToClient) /\ Len(toClient') = Len(toClient) - 1
        /\ \A i \in DOMAIN toClient' : \E j \in DOMAIN toClient : toClient'[i] = toClient[j]
    BY <1>1, TailProperties DEF ClientReceives
  <1>3. Len(toClient') <= MaxUnwritten
    BY <1>1, <1>2, UdpTunnelAssumption
  <1>4. got' = IF src = NoSource THEN got ELSE [got EXCEPT ![src] = @ \cup {message.for}]
    BY DEF ClientReceives
  <1>5. message.id \in PairID /\ message.for \in Source /\ src \in Source \cup {NoSource}
    BY <1>2 DEF ToClient, IInv, TypeOK
  <1>6. UNCHANGED <<owner, clean, toServer, serverVars, askedBy>>
    BY DEF ClientReceives
  <1> HIDE DEF message, src
  <1>7. TypeOK'
    BY <1>2, <1>3, <1>4, <1>5, <1>6 DEF serverVars, IInv, TypeOK, ToClient
  <1>8. Tables'
    BY <1>6 DEF serverVars, IInv, Tables
  <1>9. ASSUME NEW k \in clean
        PROVE  got'[owner[k]] \subseteq {owner[k]}
    <2>1. k \in PairID /\ owner[k] \in Source /\ got[owner[k]] \subseteq {owner[k]}
      BY DEF IInv, TypeOK, AllOwn
    <2>2. CASE owner[k] = src
      <3>1. k = message.id
        BY <1>5, <2>1, <2>2 DEF src, IInv, Tables, AllOwn
      <3>2. message.for = owner[k]
        BY <1>2, <3>1 DEF IInv, AllOwn
      <3> QED BY <1>4, <2>1, <2>2, <3>2 DEF IInv, TypeOK
    <2>3. CASE owner[k] # src
      BY <1>4, <1>5, <2>1, <2>3 DEF IInv, TypeOK
    <2> QED BY <2>2, <2>3
  <1>10. ASSUME NEW k \in clean, NEW i \in DOMAIN toClient', toClient'[i].id = k
         PROVE  toClient'[i].for = owner[k]
    BY <1>2, <1>10 DEF IInv, AllOwn
  <1>11. AllOwn'
    BY <1>6, <1>9, <1>10 DEF serverVars, IInv, AllOwn
  <1> QED BY <1>7, <1>8, <1>11 DEF IInv

(* The id has the socket afterwards, one it had or one that nobody had.         *)
LEMMA SocketForProperties ==
  ASSUME TypeOK, Tables, NEW id \in PairID, NEW s \in UdpSocket, SocketFor(id, s)
  PROVE  /\ socketOf' \in [PairID -> UdpSocket \cup {NoSocket}]
         /\ idOf' \in [UdpSocket -> PairID \cup {NoId}]
         /\ silentReceive' \in SUBSET PairID
         /\ socketOf'[id] = s /\ idOf'[s] = id
         /\ \A k \in PairID \ {id} : socketOf'[k] = socketOf[k] /\ socketOf[k] # s
         /\ \A other \in UdpSocket \ {s} : idOf'[other] = idOf[other]
         /\ socketOf[id] = s \/ (idOf[s] = NoId /\ socketOf[id] = NoSocket)
PROOF
  <1>1. NoId \notin PairID /\ NoSocket \notin UdpSocket
    BY UdpTunnelAssumption DEF NoId
  <1>2. ASSUME NEW k \in PairID, socketOf[k] \in UdpSocket
        PROVE  idOf[socketOf[k]] = k
    BY <1>1, <1>2 DEF Tables
  <1>3. CASE s = socketOf[id] /\ UNCHANGED <<socketOf, idOf, silentReceive>>
    <2>1. idOf[s] = id
      BY <1>2, <1>3
    <2>2. \A k \in PairID \ {id} : socketOf[k] # s
      BY <1>2, <2>1
    <2>3. /\ socketOf' \in [PairID -> UdpSocket \cup {NoSocket}]
          /\ idOf' \in [UdpSocket -> PairID \cup {NoId}]
          /\ silentReceive' \in SUBSET PairID
      BY <1>3 DEF TypeOK
    <2>4. socketOf'[id] = s /\ idOf'[s] = id
      BY <1>3, <2>1
    <2>5. \A k \in PairID \ {id} : socketOf'[k] = socketOf[k] /\ socketOf[k] # s
      BY <1>3, <2>2
    <2>6. \A other \in UdpSocket \ {s} : idOf'[other] = idOf[other]
      BY <1>3
    <2> QED BY <1>3, <2>3, <2>4, <2>5, <2>6
  <1>4. CASE /\ socketOf[id] = NoSocket /\ idOf[s] = NoId
             /\ socketOf' = [socketOf EXCEPT ![id] = s]
             /\ idOf' = [idOf EXCEPT ![s] = id]
             /\ silentReceive' = silentReceive \ {id}
    <2>1. /\ socketOf' \in [PairID -> UdpSocket \cup {NoSocket}]
          /\ idOf' \in [UdpSocket -> PairID \cup {NoId}]
          /\ silentReceive' \in SUBSET PairID
      BY <1>4 DEF TypeOK
    <2>2. /\ socketOf'[id] = s /\ idOf'[s] = id
          /\ \A k \in PairID \ {id} : socketOf'[k] = socketOf[k]
          /\ \A other \in UdpSocket \ {s} : idOf'[other] = idOf[other]
      BY <1>4 DEF TypeOK
    <2>3. ASSUME NEW k \in PairID PROVE socketOf[k] # s
      BY <1>1, <1>2, <1>4
    <2> QED BY <1>4, <2>1, <2>2, <2>3
  <1> QED BY <1>3, <1>4 DEF SocketFor

(* A datagram that arrives goes out by its id's socket; a new socket was asked  *)
(* by nobody before.                                                            *)
LEMMA ServerReceivesIInv ==
  ASSUME IInv, ServerReceives
  PROVE  IInv'
PROOF
  <1> DEFINE message == Head(toServer)
  <1>1. toServer \in Seq(ToServer) /\ toServer # <<>> /\ Len(toServer) <= MaxUnwritten
    BY DEF ServerReceives, IInv, TypeOK, ToServer
  <1>2. /\ message \in ToServer /\ 1 \in DOMAIN toServer /\ message = toServer[1]
        /\ toServer' \in Seq(ToServer) /\ Len(toServer') = Len(toServer) - 1
        /\ \A i \in DOMAIN toServer' : \E j \in DOMAIN toServer : toServer'[i] = toServer[j]
    BY <1>1, TailProperties DEF ServerReceives
  <1>3. Len(toServer') <= MaxUnwritten
    BY <1>1, <1>2, UdpTunnelAssumption
  <1>4. PICK s \in UdpSocket :
          /\ SocketFor(message.id, s)
          /\ askedBy' = [askedBy EXCEPT ![s] = @ \cup {message.from}]
          /\ silentSend' = silentSend \ {message.id}
    BY DEF ServerReceives
  <1>5. UNCHANGED <<owner, got, clean, toClient>>
    BY DEF ServerReceives, clientVars
  <1>6. message.id \in PairID /\ message.from \in Source
    BY <1>2 DEF ToServer
  <1> HIDE DEF message
  <1>7. NoId \notin PairID
    BY UdpTunnelAssumption DEF NoId
  <1>8. /\ socketOf' \in [PairID -> UdpSocket \cup {NoSocket}]
        /\ idOf' \in [UdpSocket -> PairID \cup {NoId}]
        /\ silentReceive' \in SUBSET PairID
        /\ socketOf'[message.id] = s /\ idOf'[s] = message.id
        /\ \A k \in PairID \ {message.id} : socketOf'[k] = socketOf[k] /\ socketOf[k] # s
        /\ \A other \in UdpSocket \ {s} : idOf'[other] = idOf[other]
        /\ socketOf[message.id] = s \/ (idOf[s] = NoId /\ socketOf[message.id] = NoSocket)
    BY <1>4, <1>6, SocketForProperties DEF IInv
  <1>9. TypeOK'
    BY <1>2, <1>3, <1>4, <1>5, <1>6, <1>8 DEF IInv, TypeOK, ToServer
  <1>10. Tables'
    <2>1. ASSUME NEW k \in PairID, socketOf'[k] # NoSocket
          PROVE  idOf'[socketOf'[k]] = k
      BY <1>8, <2>1 DEF IInv, TypeOK, Tables
    <2>2. ASSUME NEW other \in UdpSocket, idOf'[other] # NoId
          PROVE  socketOf'[idOf'[other]] = other
      <3>1. CASE other = s
        BY <1>8, <3>1
      <3>2. CASE other # s
        <4>1. idOf'[other] = idOf[other]
          BY <1>8, <3>2
        <4>2. idOf[other] \in PairID /\ socketOf[idOf[other]] = other
          BY <2>2, <4>1 DEF IInv, TypeOK, Tables
        <4>3. idOf[other] # message.id
          BY <1>8, <3>2, <4>2, UdpTunnelAssumption
        <4> QED BY <1>8, <4>1, <4>2, <4>3
      <3> QED BY <3>1, <3>2
    <2>3. ASSUME NEW other \in UdpSocket, idOf'[other] = NoId
          PROVE  askedBy'[other] = {}
      BY <1>4, <1>6, <1>7, <1>8, <2>3 DEF IInv, TypeOK, Tables
    <2> QED BY <1>5, <2>1, <2>2, <2>3 DEF IInv, Tables
  <1>11. ASSUME NEW k \in clean, socketOf'[k] # NoSocket
         PROVE  askedBy'[socketOf'[k]] \subseteq {owner[k]}
    <2>1. k \in PairID
      BY DEF IInv, TypeOK
    <2>2. CASE k = message.id
      <3>1. message.from = owner[k]
        BY <1>2, <2>2 DEF IInv, AllOwn
      <3>2. askedBy[s] \subseteq {owner[k]}
        BY <1>8, <2>2, UdpTunnelAssumption DEF IInv, Tables, AllOwn
      <3> QED BY <1>4, <1>8, <2>2, <3>1, <3>2 DEF IInv, TypeOK
    <2>3. CASE k # message.id
      BY <1>4, <1>8, <1>11, <2>1, <2>3 DEF IInv, TypeOK, AllOwn
    <2> QED BY <2>2, <2>3
  <1>12. ASSUME NEW k \in clean, NEW i \in DOMAIN toServer', toServer'[i].id = k
         PROVE  toServer'[i].from = owner[k]
    BY <1>2, <1>12 DEF IInv, AllOwn
  <1>13. AllOwn'
    BY <1>5, <1>11, <1>12 DEF IInv, AllOwn
  <1> QED BY <1>9, <1>10, <1>13 DEF IInv

(* A reply leaves under the id of the socket it came to, whose holder alone     *)
(* asked by it, if the id is clean.                                             *)
LEMMA EndpointRepliesIInv ==
  ASSUME IInv, NEW s \in UdpSocket, NEW src \in Source, EndpointReplies(s, src)
  PROVE  IInv'
PROOF
  <1> DEFINE message == [id |-> idOf[s], for |-> src]
  <1>1. message \in ToClient /\ toClient \in Seq(ToClient) /\ Len(toClient) <= MaxUnwritten
    BY DEF EndpointReplies, Receiving, IInv, TypeOK, ToClient
  <1>2. toClient' = SendOver(toClient, message)
    BY DEF EndpointReplies
  <1>3. /\ toClient' \in Seq(ToClient) /\ Len(toClient') <= MaxUnwritten
        /\ \A i \in DOMAIN toClient' :
             toClient'[i] = message \/ \E j \in DOMAIN toClient : toClient'[i] = toClient[j]
    BY <1>1, <1>2, SendOverProperties
  <1>4. TypeOK' /\ Tables'
    BY <1>3 DEF EndpointReplies, clientVars, IInv, TypeOK, Tables, ToClient
  <1>5. NoId \notin PairID
    BY UdpTunnelAssumption DEF NoId
  <1>6. idOf[s] \in PairID /\ socketOf[idOf[s]] = s /\ src \in askedBy[s]
    BY <1>5 DEF EndpointReplies, Receiving, IInv, Tables
  <1>7. ASSUME NEW k \in clean, k = idOf[s]
        PROVE  src = owner[k]
    BY <1>6, <1>7, UdpTunnelAssumption DEF IInv, AllOwn
  <1>8. ASSUME NEW k \in clean, NEW i \in DOMAIN toClient', toClient'[i].id = k
        PROVE  toClient'[i].for = owner[k]
    BY <1>3, <1>7, <1>8 DEF IInv, AllOwn
  <1>9. AllOwn'
    BY <1>8 DEF EndpointReplies, clientVars, IInv, AllOwn
  <1> QED BY <1>4, <1>9 DEF IInv

LEMMA ServerClosesIInv ==
  ASSUME IInv, NEW id \in PairID, ServerCloses(id)
  PROVE  IInv'
PROOF
  <1>1. /\ socketOf[id] \in UdpSocket /\ idOf[socketOf[id]] = id
        /\ \A k \in PairID \ {id} : socketOf[k] # socketOf[id]
    BY DEF ServerCloses, IInv, TypeOK, Tables
  <1>2. NoId \notin PairID
    BY UdpTunnelAssumption DEF NoId
  <1>3. TypeOK'
    BY <1>1 DEF ServerCloses, ClosePair, clientVars, IInv, TypeOK
  <1>4. Tables'
    BY <1>1, <1>2, UdpTunnelAssumption DEF ServerCloses, ClosePair, clientVars, IInv, TypeOK, Tables
  <1>5. ASSUME NEW k \in clean, socketOf'[k] # NoSocket
        PROVE  askedBy'[socketOf'[k]] \subseteq {owner[k]}
    BY <1>1, <1>5 DEF ServerCloses, ClosePair, IInv, TypeOK, AllOwn
  <1>6. AllOwn'
    BY <1>5 DEF ServerCloses, clientVars, IInv, AllOwn
  <1> QED BY <1>3, <1>4, <1>6 DEF IInv

(* Every action preserves the invariant; time alone touches no table.           *)
LEMMA NextIInv == IInv /\ [Next]_vars => IInv'
PROOF
  <1> SUFFICES ASSUME IInv, [Next]_vars PROVE IInv'
    OBVIOUS
  <1>1. ASSUME NEW id \in PairID, SendTimeout(id) \/ ReceiveTimeout(id)
        PROVE  IInv'
    BY <1>1 DEF SendTimeout, ReceiveTimeout, clientVars, IInv, TypeOK, Tables, AllOwn
  <1>2. CASE UNCHANGED vars
    BY <1>2 DEF vars, clientVars, serverVars, IInv, TypeOK, Tables, AllOwn
  <1> QED BY <1>1, <1>2, ClientSendsIInv, ClientOpensIInv, ClientClosesIInv, ClientReceivesIInv,
             ServerReceivesIInv, EndpointRepliesIInv, ServerClosesIInv DEF Next

LEMMA AlwaysIInv == Spec => []IInv
PROOF BY InitIInv, NextIInv, PTL DEF Spec

--------------------------------------------------------------------------------
(* The theorems                                                                 *)

(* Type correctness of both tables, and no side leaves more unwritten than it   *)
(* may.                                                                         *)
THEOREM UdpTunnelTypes == Spec => []TypeOK
PROOF BY AlwaysIInv, PTL DEF IInv

(* For any number of sources and ids: who took an id clean gets only replies to *)
(* its own datagrams, whatever order replies, closes and new pairs come in.     *)
THEOREM CleanPairsAreOwn == Spec => []CleanPairGetsOwnReplies
PROOF
  <1>1. IInv => CleanPairGetsOwnReplies
    BY DEF IInv, AllOwn, CleanPairGetsOwnReplies
  <1> QED BY <1>1, AlwaysIInv, PTL

================================================================================
