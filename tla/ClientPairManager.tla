--------------------------- MODULE ClientPairManager ---------------------------
(* The client process: UDP datagrams from local sources are forwarded over      *)
(* pairs, and pairs are multiplexed onto WebSocket tunnels, Capacity pairs to   *)
(* a tunnel.  ClientForwarder maps sources to pairs, ClientPairManager makes    *)
(* tunnels and pairs, PairCounter and ClientTunnelContext account for the room  *)
(* on each tunnel, Client collects silent pairs on a timer and destroys tunnels *)
(* without pairs when its loop is idle.                                         *)
(*                                                                              *)
(* One event loop thread runs all of it, so a handler with the callbacks it     *)
(* triggers is one action.  Two handlers first fill a vector and then work it   *)
(* off (pendingToDelete and uselessTunnels); the vector is a variable, and no   *)
(* other handler runs until it is empty.                                        *)

EXTENDS ClientTunnelContext

CONSTANTS
  NoPair,         \* no entry in the address map
  SocketMayFail   \* may createsocket fail (name resolution, descriptors)?

ASSUME NoPairAssumption ==
  /\ NoPair \notin Tunnel \X PairID
  /\ SocketMayFail \in BOOLEAN

VARIABLES
  tunnels,          \* _tunnels: the ids of the tunnels that exist
  state,            \* _state of each tunnel
  channel,          \* the socket below it: "none", "up" or "closing"
  sourceAddressMap, \* _sourceAddressMap of ClientForwarder
  silentSend,       \* pairs whose lastDataSentTime is over writeTimeout ago
  silentReceive,    \* pairs whose lastDataReceivedTime is over receiveTimeout ago
  pendingToDelete,  \* the vector of Client::garbageCollection
  uselessTunnels    \* the vector of cleanUpUselessTunnels

tunnelVars == <<tunnels, state, channel>>
silenceVars == <<silentSend, silentReceive>>
loopVars == <<pendingToDelete, uselessTunnels>>
vars == <<counterVars, contextVars, tunnelVars, sourceAddressMap, silenceVars, loopVars>>

TunnelState == {"INITIAL", "CONNECTING", "CONNECTED", "DESTROYING"}
ChannelState == {"none", "up", "closing"}
Pair == Tunnel \X PairID

NewState == [previous |-> "INITIAL", current |-> "INITIAL"]

(* What changeState leaves in _state.                                           *)
Changed(st, to) ==
  IF st.current = to THEN st ELSE [previous |-> st.current, current |-> to]

PairsOf(t) == {p \in Pair : p[1] = t}
OpenPairs == {p \in Pair : p[1] \in tunnels /\ pairs[p[1]][p[2]] # NoSource}

LoopIdle == pendingToDelete = {} /\ uselessTunnels = {}

(* The types of the client's tables, tunnels and vectors.                       *)
TypeOK ==
  /\ counter \in [Tunnel -> 0 .. Capacity]
  /\ available \in Seq(Tunnel)
  /\ seats \in [Tunnel -> SUBSET PairID]
  /\ pairs \in [Tunnel -> [PairID -> Source \cup {NoSource}]]
  /\ tunnels \in SUBSET Tunnel
  /\ state \in [Tunnel -> [previous : TunnelState, current : TunnelState]]
  /\ channel \in [Tunnel -> ChannelState]
  /\ sourceAddressMap \in [Source -> Pair \cup {NoPair}]
  /\ silentSend \in SUBSET Pair
  /\ silentReceive \in SUBSET Pair
  /\ pendingToDelete \in SUBSET Pair
  /\ uselessTunnels \in SUBSET Tunnel

--------------------------------------------------------------------------------
(* Tunnels                                                                      *)

(* The channel a constructor or a redirect ends up with: open() ignores a       *)
(* socket that could not be created and leaves no channel behind.               *)
OpenResult == IF SocketMayFail THEN {"none", "up"} ELSE {"up"}

(* The tunnel part of createTunnel: an id nobody uses, a tunnel that starts to  *)
(* connect, an empty context (see ClientTunnelContext).                         *)
NewTunnel(t) ==
  /\ t \notin tunnels
  /\ tunnels' = tunnels \cup {t}
  /\ state' = [state EXCEPT ![t] = Changed(NewState, "CONNECTING")]
  /\ \E ch \in OpenResult : channel' = [channel EXCEPT ![t] = ch]

(* Client::run has queued prepareTunnels before the loop starts.                *)
Init ==
  \E t \in Tunnel, ch \in OpenResult :
    /\ tunnels = {t}
    /\ state = [u \in Tunnel |-> IF u = t THEN Changed(NewState, "CONNECTING") ELSE NewState]
    /\ channel = [u \in Tunnel |-> IF u = t THEN ch ELSE "none"]
    /\ counter = NoPairsCounted
    /\ available = <<t>>
    /\ seats = [u \in Tunnel |-> InitialSeats]
    /\ pairs = [u \in Tunnel |-> EmptySeats]
    /\ sourceAddressMap = [src \in Source |-> NoPair]
    /\ silentSend = {} /\ silentReceive = {}
    /\ pendingToDelete = {} /\ uselessTunnels = {}

(* onopen: the upgrade succeeded.                                               *)
OnOpen(t) ==
  /\ LoopIdle
  /\ t \in tunnels /\ channel[t] = "up" /\ state[t].current = "CONNECTING"
  /\ state' = [state EXCEPT ![t] = Changed(@, "CONNECTED")]
  /\ UNCHANGED <<counterVars, contextVars, tunnels, channel, sourceAddressMap,
                 silenceVars, loopVars>>

(* A redirect drops the channel without telling onclose, and opens another.     *)
RedirectFails(t) ==
  /\ LoopIdle /\ SocketMayFail
  /\ t \in tunnels /\ channel[t] = "up" /\ state[t].current = "CONNECTING"
  /\ channel' = [channel EXCEPT ![t] = "none"]
  /\ UNCHANGED <<counterVars, contextVars, tunnels, state, sourceAddressMap,
                 silenceVars, loopVars>>

(* What onTunnelDestroy and onTunnelError do alike: close every pair of the     *)
(* tunnel (which erases its sources from the forwarder's map), take the tunnel  *)
(* out of _tunnels and of the counter; then the factory's handler takes the id  *)
(* back and the tunnel is freed.                                                *)
RemoveTunnelKeepingPairs(t) ==  \* mutant: the pairs are not closed
  /\ tunnels' = tunnels \ {t}
  /\ state' = [state EXCEPT ![t] = NewState]
  /\ channel' = [channel EXCEPT ![t] = "none"]
  /\ RemoveCountedTunnel(t)
  /\ ResetContext(t)
  /\ UNCHANGED <<sourceAddressMap, silenceVars>>

RemoveTunnel(t) ==
  /\ tunnels' = tunnels \ {t}
  /\ state' = [state EXCEPT ![t] = NewState]
  /\ channel' = [channel EXCEPT ![t] = "none"]
  /\ RemoveCountedTunnel(t)
  /\ ResetContext(t)
  /\ sourceAddressMap' = [src \in Source |->
       IF sourceAddressMap[src] \in PairsOf(t) THEN NoPair ELSE sourceAddressMap[src]]
  /\ silentSend' = silentSend \ PairsOf(t)
  /\ silentReceive' = silentReceive \ PairsOf(t)

(* onclose while connecting: the tunnel ends in ERR.                            *)
TunnelError(t) ==
  /\ LoopIdle
  /\ t \in tunnels /\ channel[t] # "none" /\ state[t].current = "CONNECTING"
  /\ RemoveTunnel(t)
  /\ UNCHANGED loopVars

(* onclose of a connected tunnel (peer, network, missing pongs), or at the end  *)
(* of a close that had waited for unwritten data: DESTROYING, DESTROYED.        *)
TunnelDestroyed(t) ==
  /\ LoopIdle
  /\ t \in tunnels /\ channel[t] # "none" /\ state[t].current # "CONNECTING"
  /\ RemoveTunnel(t)
  /\ UNCHANGED loopVars

--------------------------------------------------------------------------------
(* Datagrams                                                                    *)

(* onSend for a known source: the pair's send time is renewed before the tunnel *)
(* is looked at, so also when the tunnel cannot send and the datagram is lost.  *)
SendOnPair(src) ==
  /\ LoopIdle
  /\ sourceAddressMap[src] # NoPair
  /\ silentSend' = silentSend \ {sourceAddressMap[src]}
  /\ UNCHANGED <<counterVars, contextVars, tunnelVars, sourceAddressMap,
                 silentReceive, loopVars>>

(* prepareTunnels and getAvailableTunnel: the tunnel at the front of the list,  *)
(* a new one when the list is empty (and a free tunnel id is left).             *)
PickTunnel(t) ==
  \/ /\ available # <<>>
     /\ GetAvailableTunnelID(available, t)
     /\ UNCHANGED tunnelVars
  \/ /\ available = <<>>
     /\ NewTunnel(t)
     /\ GetAvailableTunnelID(AddTunnel(available, t), t)

(* onSend for a new source: createPair takes the seat, binds the pair to the    *)
(* tunnel, and the forwarder maps the source to it.                             *)
SendOnNewPairAlways(src) ==  \* mutant: the map is not looked up first
  /\ LoopIdle
  /\ \E t \in Tunnel : \E seat \in SeatNumbers(t) \ {INVALID_PAIR_ID} :
       /\ PickTunnel(t)
       /\ TakeSeat(t, seat)
       /\ BindPair(t, seat, src)
       /\ sourceAddressMap' = [sourceAddressMap EXCEPT ![src] = <<t, seat>>]
  /\ UNCHANGED <<silenceVars, loopVars>>

SendOnNewPair(src) ==
  /\ LoopIdle
  /\ sourceAddressMap[src] = NoPair
  /\ \E t \in Tunnel : \E seat \in SeatNumbers(t) \ {INVALID_PAIR_ID} :
       /\ PickTunnel(t)
       /\ TakeSeat(t, seat)
       /\ BindPair(t, seat, src)
       /\ sourceAddressMap' = [sourceAddressMap EXCEPT ![src] = <<t, seat>>]
  /\ UNCHANGED <<silenceVars, loopVars>>

(* createPair fails at the seat number, after the counter counted the pair.     *)
SendWithoutSeat(src) ==
  /\ LoopIdle
  /\ sourceAddressMap[src] = NoPair
  /\ \E t \in Tunnel :
       /\ INVALID_PAIR_ID \in SeatNumbers(t)
       /\ PickTunnel(t)
       /\ TakeSeat(t, INVALID_PAIR_ID)
  /\ UNCHANGED <<pairs, sourceAddressMap, silenceVars, loopVars>>

(* A message with a pair id arrives: it goes to the pair that holds the id, and *)
(* is dropped when there is none.  WebSocketClient::close, which destroy calls, *)
(* makes the client drop what still arrives.                                    *)
OnReceive(t, seat) ==
  /\ LoopIdle
  /\ t \in tunnels /\ state[t].current = "CONNECTED"
  /\ seat # INVALID_PAIR_ID /\ pairs[t][seat] # NoSource
  /\ silentReceive' = silentReceive \ {<<t, seat>>}
  /\ UNCHANGED <<counterVars, contextVars, tunnelVars, sourceAddressMap,
                 silentSend, loopVars>>

(* Time passes, also while a handler works off its vector: a pair has sent, or  *)
(* received, nothing for a whole timeout.                                       *)
SendTimeout(p) ==
  /\ p \in OpenPairs
  /\ silentSend' = silentSend \cup {p}
  /\ UNCHANGED <<counterVars, contextVars, tunnelVars, sourceAddressMap,
                 silentReceive, loopVars>>

ReceiveTimeout(p) ==
  /\ p \in OpenPairs
  /\ silentReceive' = silentReceive \cup {p}
  /\ UNCHANGED <<counterVars, contextVars, tunnelVars, sourceAddressMap,
                 silentSend, loopVars>>

--------------------------------------------------------------------------------
(* The collectors                                                               *)

(* garbageCollection, first half: a pair is due when either time is over.       *)
GcCollectBothSilent ==  \* mutant: and for or
  /\ LoopIdle
  /\ pendingToDelete' = OpenPairs \cap silentSend \cap silentReceive
  /\ pendingToDelete' # {}
  /\ UNCHANGED <<counterVars, contextVars, tunnelVars, sourceAddressMap,
                 silenceVars, uselessTunnels>>

GcCollect ==
  /\ LoopIdle
  /\ pendingToDelete' = {p \in OpenPairs : p \in silentSend \/ p \in silentReceive}
  /\ pendingToDelete' # {}
  /\ UNCHANGED <<counterVars, contextVars, tunnelVars, sourceAddressMap,
                 silenceVars, uselessTunnels>>

(* Pair::close runs its handlers last registered first: the forwarder unmaps    *)
(* the source, the context frees the seat, the counter counts one pair less.    *)
ClosePair(t, seat) ==
  /\ sourceAddressMap' = [src \in Source |->
       IF src = pairs[t][seat] THEN NoPair ELSE sourceAddressMap[src]]
  /\ UnbindPair(t, seat)
  /\ DecreaseCounter(t)
  /\ silentSend' = silentSend \ {<<t, seat>>}
  /\ silentReceive' = silentReceive \ {<<t, seat>>}

GcClosePair(t, seat) ==
  /\ <<t, seat>> \in pendingToDelete
  /\ pendingToDelete' = pendingToDelete \ {<<t, seat>>}
  /\ ClosePair(t, seat)
  /\ UNCHANGED <<tunnelVars, uselessTunnels>>

(* cleanUpUselessTunnels, first half: the first tunnel with room that the       *)
(* iteration meets is kept, whatever its state; of the rest, each that has all  *)
(* its room is useless.                                                         *)
Kept == IF \E t \in tunnels : vacancy(t) > 0
        THEN {{t} : t \in {u \in tunnels : vacancy(u) > 0}}
        ELSE {{}}

(* Mutants: any room for all the room; more than all the room.                 *)
CleanUpAnyRoom ==
  /\ LoopIdle
  /\ \E kept \in Kept :
       uselessTunnels' = {t \in tunnels \ kept : vacancy(t) > 0}
  /\ uselessTunnels' # {}
  /\ UNCHANGED <<counterVars, contextVars, tunnelVars, sourceAddressMap,
                 silenceVars, pendingToDelete>>

CleanUpAboveCapacity ==
  /\ LoopIdle
  /\ \E kept \in Kept :
       uselessTunnels' = {t \in tunnels \ kept : vacancy(t) > Capacity}
  /\ uselessTunnels' # {}
  /\ UNCHANGED <<counterVars, contextVars, tunnelVars, sourceAddressMap,
                 silenceVars, pendingToDelete>>

CleanUpUselessTunnels ==
  /\ LoopIdle
  /\ \E kept \in Kept :
       uselessTunnels' = {t \in tunnels \ kept : vacancy(t) >= Capacity}
  /\ uselessTunnels' # {}
  /\ UNCHANGED <<counterVars, contextVars, tunnelVars, sourceAddressMap,
                 silenceVars, pendingToDelete>>

(* destroy() of the next of them.  close() normally runs onclose before it      *)
(* returns.  With unwritten data libhv may put the close off.  Without a channel *)
(* nothing will ever run onclose.                                               *)
DestroyNow(t) ==
  /\ t \in uselessTunnels /\ channel[t] # "none"
  /\ uselessTunnels' = uselessTunnels \ {t}
  /\ RemoveTunnel(t)
  /\ UNCHANGED pendingToDelete

DestroyLater(t) ==
  /\ t \in uselessTunnels
  /\ uselessTunnels' = uselessTunnels \ {t}
  /\ state' = [state EXCEPT ![t] = Changed(@, "DESTROYING")]
  /\ channel' = [channel EXCEPT ![t] = IF @ = "none" THEN "none" ELSE "closing"]
  /\ UNCHANGED <<counterVars, contextVars, tunnels, sourceAddressMap,
                 silenceVars, pendingToDelete>>

--------------------------------------------------------------------------------
Next ==
  \/ \E t \in Tunnel :
       \/ OnOpen(t)
       \/ RedirectFails(t)
       \/ TunnelError(t)
       \/ TunnelDestroyed(t)
       \/ DestroyNow(t)
       \/ DestroyLater(t)
  \/ \E src \in Source :
       \/ SendOnPair(src)
       \/ SendOnNewPair(src)
       \/ SendWithoutSeat(src)
  \/ \E t \in Tunnel, seat \in PairID :
       \/ OnReceive(t, seat)
       \/ SendTimeout(<<t, seat>>)
       \/ ReceiveTimeout(<<t, seat>>)
       \/ GcClosePair(t, seat)
  \/ GcCollect
  \/ CleanUpUselessTunnels

Spec == Init /\ [][Next]_vars

(* The event loop runs every timer, callback and idle handler in its turn, and  *)
(* a handler always ends, so what keeps being due is done: strong fairness for  *)
(* what other handlers can hold up.  A put-off close ends: libhv has a timer    *)
(* for it.                                                                      *)
FinishClose(t) == channel[t] = "closing" /\ TunnelDestroyed(t)

(* The receive time of a pair is set when the pair is made and renewed by       *)
(* answers only, and a tunnel that is not connected delivers none: the clock    *)
(* alone makes it too old.                                                      *)
Unanswered(p) == state[p[1]].current # "CONNECTED" /\ ReceiveTimeout(p)

(* Nothing is assumed of the network: no timer guards the upgrade, and a        *)
(* channel that connects may neither open nor fail.                             *)
Fairness ==
  /\ \A t \in Tunnel :
       /\ SF_vars(FinishClose(t))
       /\ WF_vars(DestroyNow(t) \/ DestroyLater(t))
       /\ \A seat \in PairID :
            /\ WF_vars(GcClosePair(t, seat))
            /\ WF_vars(Unanswered(<<t, seat>>))
  /\ SF_vars(GcCollect)
  /\ SF_vars(CleanUpUselessTunnels)

FairSpec == Spec /\ Fairness

(* The same with a network at its best: wherever there is a channel, the peer   *)
(* answers or the connect fails.                                                *)
AnsweredSpec ==
  FairSpec /\ \A t \in Tunnel : SF_vars(OnOpen(t) \/ TunnelError(t))

--------------------------------------------------------------------------------
(* Safety                                                                       *)

(* No pair id is lost and none is out twice: the ids in a tunnel's pool and the *)
(* ids its pairs hold make up exactly the ids its constructor put in, across    *)
(* seats taken by createPair and given back by the close handler.               *)
SeatsPartition ==
  \A t \in Tunnel :
    /\ seats[t] \cap UsedSeats(t) = {}
    /\ seats[t] \cup UsedSeats(t) = InitialSeats

(* PairCounter, which counts before the seat is taken and after it is given     *)
(* back, agrees with the pairs that are there.                                  *)
CounterMatchesPairs ==
  \A t \in Tunnel : counter[t] = Cardinality(UsedSeats(t))

(* The list createPair picks from holds the tunnels that have room, each once:  *)
(* a full tunnel is never picked, one with room is never forgotten.             *)
AvailableIffRoom ==
  /\ \A i, j \in DOMAIN available : available[i] = available[j] => i = j
  /\ \A t \in Tunnel :
       (\E i \in DOMAIN available : available[i] = t)
         <=> t \in tunnels /\ counter[t] < Capacity

(* The forwarder's map and the tunnels' pair tables are inverse to each other:  *)
(* replies on a pair id go to the source whose datagrams carry it, no mapped    *)
(* pair outlives its tunnel, and no table holds a pair whose owner is gone.     *)
MapAgreesWithPairs ==
  /\ \A src \in Source :
       sourceAddressMap[src] # NoPair =>
         /\ sourceAddressMap[src] \in OpenPairs
         /\ pairs[sourceAddressMap[src][1]][sourceAddressMap[src][2]] = src
  /\ \A t \in Tunnel, s \in PairID :
       pairs[t][s] # NoSource => sourceAddressMap[pairs[t][s]] = <<t, s>>

(* cleanUpUselessTunnels tells an unused tunnel by its seats, and never takes   *)
(* a tunnel with a pair on it.                                                  *)
UselessCarryNothing ==
  \A t \in uselessTunnels : t \in tunnels /\ UsedSeats(t) = {}

(* Even when Capacity covers every value of a PairID, and the number that says  *)
(* "no seat" is in the pool, a tunnel loses that one seat and counts one pair   *)
(* too many, and no more than that.                                             *)
LeakIsAtMostOne ==
  \A t \in Tunnel :
    /\ Cardinality(seats[t]) + Cardinality(UsedSeats(t)) + 1 >= Capacity
    /\ counter[t] <= Cardinality(UsedSeats(t)) + 1

(* prepareTunnels opens a tunnel only when every tunnel is full, so that pairs  *)
(* are packed and not spread over tunnels.                                      *)
OpensOnlyWhenFull ==
  [][ \A t \in Tunnel :
        t \in tunnels' \ tunnels => \A u \in tunnels : seats[u] = {} ]_vars

(* A source keeps its pair, tunnel and id alike, until that pair is closed.     *)
SourceKeepsPair ==
  [][ \A src \in Source :
        sourceAddressMap[src] # NoPair =>
          sourceAddressMap'[src] \in {sourceAddressMap[src], NoPair} ]_vars

(* The client implements PairAllocation: the pair tables are the owners.        *)
Allocation == INSTANCE PairAllocation WITH
  owner <- [p \in Pair |-> pairs[p[1]][p[2]]],
  Reserved <- INVALID_PAIR_ID

ImplementsAllocation == Allocation!Spec

(* "GC ... cleans every pair that has not been used for a long time": the       *)
(* collector does not close a pair whose source has sent on it within the       *)
(* writeTimeout.                                                                *)
GcSparesSenders == pendingToDelete \subseteq silentSend

--------------------------------------------------------------------------------
(* Liveness, under FairSpec                                                     *)

(* A pair over which nothing is sent is closed, or sent on again, in the end:   *)
(* seats, counts and map entries do not stay taken.                             *)
SilentPairsAreReleased ==
  \A p \in Pair : p \in silentSend ~> p \notin silentSend

(* When no source is left, the tunnels are destroyed but one, whether they are  *)
(* connected, refused or never answered by the peer.  Tunnels whose socket      *)
(* could not be created are not counted: no callback ever takes them away.      *)
IdleClientKeepsOneTunnel ==
  <>[](\A src \in Source : sourceAddressMap[src] = NoPair)
    => <>[](Cardinality({t \in tunnels : channel[t] # "none"}) <= 1)

(* Tunnel.h: a tunnel that is CONNECTING becomes CONNECTED or fails.            *)
ConnectingIsResolved ==
  \A t \in Tunnel :
    t \in tunnels /\ state[t].current = "CONNECTING" ~> ~(t \in tunnels /\ state[t].current = "CONNECTING")

(* A source does not keep a pair for ever on a tunnel that drops what it sends, *)
(* however often it sends: when the peer never answers the upgrade, when there  *)
(* is no channel, or when the tunnel was given out while it was being           *)
(* destroyed, the pair's receive time runs out and the collector lets go of it. *)
PairTunnelIsResolved ==
  \A src \in Source, t \in Tunnel :
    sourceAddressMap[src] \in PairsOf(t) /\ state[t].current # "CONNECTED"
      ~> sourceAddressMap[src] \notin PairsOf(t) \/ state[t].current = "CONNECTED"

================================================================================
