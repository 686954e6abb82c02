--------------------------- MODULE ServerPairManager ---------------------------
(* The server process: each WebSocket tunnel has a table of pairs, and each     *)
(* pair an UDP socket of its own towards the endpoint.                          *)
(*                                                                              *)
(* Two threads share the tables.  W, the WebSocket server's loop, opens and     *)
(* closes tunnels and sends the datagrams that arrive on them, and creates the  *)
(* pairs.  L, the server's own loop, receives from the UDP sockets and collects *)
(* silent pairs.  Both close pairs.  A step here is what one thread does        *)
(* between two accesses to state that the other one may touch, and the mutexes  *)
(* that span such steps are variables.                                          *)
(*                                                                              *)
(* Pairs and tunnels are objects: <<t, id, n>> is one of the objects that may   *)
(* live under pair id `id` of tunnel t.  An object that has not been made, or   *)
(* that nobody refers to any more, looks like a closed one and may be made      *)
(* again; every reference a thread holds is a variable, so that stands for a    *)
(* new object.                                                                  *)

EXTENDS Naturals, FiniteSets

CONSTANTS
  Tunnel,
  PairID,        \* the ids clients use; INVALID_PAIR_ID is refused at the door
  Object,        \* pair objects that may exist together under one id
  None,          \* a free mutex, a null pointer
  SocketMayFail  \* may createsocket fail in UDPClientFactory?

ASSUME ServerConstantsAssumption ==
  /\ SocketMayFail \in BOOLEAN
  /\ None \notin Tunnel /\ None \notin {"W", "L"}
  /\ None \notin Tunnel \X PairID \X Object

VARIABLES
  connected,     \* tunnels between onopen and onclose
  tunnels,       \* _tunnels of ServerPairManager
  table,         \* _pairs of each tunnel's context: id to pair
  udp,           \* _udpClient of a pair: "bound", "receiving" or "stopped"
  closed,        \* pairs with _isClosed
  silentSend,    \* pairs whose lastDataSentTime is over writeTimeout ago
  silentReceive, \* pairs whose lastDataReceivedTime is over receiveTimeout ago
  tunnelsMutex,  \* _tunnelsMutex: who holds it
  locker,        \* _locker of each tunnel's context: who holds it
  closeMutex,    \* _closeMutex of each pair: who holds it
  pc,            \* what each thread does next
  cur,           \* the pair it works on
  at,            \* the tunnel it works on
  todo,          \* its vector pendingToDelete
  visit,         \* the collector: tunnels still to visit,
  scan,          \* pairs of the tunnel still to look at,
  ahead          \* and whether cur was sent on after the clock was read

tableVars == <<connected, tunnels, table>>
pairVars == <<udp, closed, silentSend, silentReceive>>
lockVars == <<tunnelsMutex, locker, closeMutex>>
threadVars == <<pc, cur, at, todo>>
gcVars == <<visit, scan, ahead>>
vars == <<tableVars, pairVars, lockVars, threadVars, gcVars>>

Thread == {"W", "L"}
Pair == Tunnel \X PairID \X Object
PairsOf(t) == {p \in Pair : p[1] = t}

Registered(t) == {p \in PairsOf(t) : table[t][p[2]] = p}

(* Nobody refers to p, or to a pair of t: the object is gone.                   *)
Referenced(p) ==
  \/ table[p[1]][p[2]] = p
  \/ \E th \in Thread : p = cur[th] \/ p \in todo[th]
  \/ p \in scan

FreshPairs(t, id) ==
  {p \in PairsOf(t) : p[2] = id /\ udp[p] = "stopped" /\ p \in closed /\ ~Referenced(p)}

(* The types of the tables, and which program counters each thread may have.    *)
TypeOK ==
  /\ connected \in SUBSET Tunnel
  /\ tunnels \in SUBSET Tunnel
  /\ table \in [Tunnel -> [PairID -> Pair \cup {None}]]
  /\ udp \in [Pair -> {"bound", "receiving", "stopped"}]
  /\ closed \in SUBSET Pair
  /\ silentSend \in SUBSET Pair
  /\ silentReceive \in SUBSET Pair
  /\ tunnelsMutex \in Thread \cup {None}
  /\ locker \in [Tunnel -> Thread \cup {None}]
  /\ closeMutex \in [Pair -> Thread \cup {None}]
  /\ pc["W"] \in {"idle", "add", "send", "close", "unlink", "stop", "mark", "erase", "crashed"}
  /\ pc["L"] \in {"idle", "gc", "scan", "judge", "close", "unlink", "stop", "mark"}
  /\ cur \in [Thread -> Pair \cup {None}]
  /\ at \in [Thread -> Tunnel \cup {None}]
  /\ todo \in [Thread -> SUBSET Pair]
  /\ visit \in SUBSET Tunnel
  /\ scan \in SUBSET Pair
  /\ ahead \in BOOLEAN

Init ==
  /\ connected = {} /\ tunnels = {}
  /\ table = [t \in Tunnel |-> [id \in PairID |-> None]]
  /\ udp = [p \in Pair |-> "stopped"]
  /\ closed = Pair
  /\ silentSend = {} /\ silentReceive = {}
  /\ tunnelsMutex = None
  /\ locker = [t \in Tunnel |-> None]
  /\ closeMutex = [p \in Pair |-> None]
  /\ pc = [th \in Thread |-> "idle"]
  /\ cur = [th \in Thread |-> None]
  /\ at = [th \in Thread |-> None]
  /\ todo = [th \in Thread |-> {}]
  /\ visit = {} /\ scan = {} /\ ahead = FALSE

Running == pc["W"] # "crashed"
Idle(th) == Running /\ pc[th] = "idle"
At(th, where) == Running /\ pc[th] = where
Goto(th, where) == pc' = [pc EXCEPT ![th] = where]

--------------------------------------------------------------------------------
(* W: tunnels                                                                   *)

(* The listener's onopen and onTunnelOpen: a tunnel, with an empty context,     *)
(* goes into _tunnels.                                                          *)
Open(t) ==
  /\ Idle("W") /\ tunnelsMutex = None
  /\ t \notin connected \cup tunnels
  /\ \A th \in Thread : todo[th] \cap PairsOf(t) = {} /\ cur[th] \notin PairsOf(t)
  /\ connected' = connected \cup {t}
  /\ tunnels' = tunnels \cup {t}
  /\ UNCHANGED <<table, pairVars, lockVars, threadVars, gcVars>>

OnCloseLeavingPairs(t) ==  \* mutant: the pairs are not collected
  /\ Idle("W") /\ t \in connected /\ locker[t] = None
  /\ connected' = connected \ {t}
  /\ at' = [at EXCEPT !["W"] = t]
  /\ Goto("W", "close")
  /\ UNCHANGED <<tunnels, table, pairVars, lockVars, cur, todo, gcVars>>

(* onclose, destroy and the destroy handler: the pairs in the table are         *)
(* collected under the context's lock, to be closed without it.                 *)
OnClose(t) ==
  /\ Idle("W") /\ t \in connected /\ locker[t] = None
  /\ connected' = connected \ {t}
  /\ todo' = [todo EXCEPT !["W"] = Registered(t)]
  /\ at' = [at EXCEPT !["W"] = t]
  /\ Goto("W", "close")
  /\ UNCHANGED <<tunnels, table, pairVars, lockVars, cur, gcVars>>

(* Then the tunnel leaves _tunnels (and its id goes back to the pool).          *)
EraseTunnel ==
  /\ At("W", "erase") /\ tunnelsMutex = None
  /\ tunnels' = tunnels \ {at["W"]}
  /\ at' = [at EXCEPT !["W"] = None]
  /\ Goto("W", "idle")
  /\ UNCHANGED <<connected, table, pairVars, lockVars, cur, todo, gcVars>>

--------------------------------------------------------------------------------
(* W: a message with a pair id                                                  *)

(* onSend finds the pair of the id ...                                          *)
FindPair(t, id) ==
  /\ Idle("W") /\ t \in connected /\ locker[t] = None
  /\ table[t][id] # None
  /\ cur' = [cur EXCEPT !["W"] = table[t][id]]
  /\ Goto("W", "send")
  /\ UNCHANGED <<tableVars, pairVars, lockVars, at, todo, gcVars>>

CreatePairAnew(t, id) ==  \* mutant: onSend does not look for one first
  /\ Idle("W") /\ t \in connected /\ locker[t] = None
  /\ \E p \in FreshPairs(t, id) :
       /\ cur' = [cur EXCEPT !["W"] = p]
       /\ udp' = [udp EXCEPT ![p] = "bound"]
       /\ closed' = closed \ {p}
       /\ silentSend' = silentSend \ {p}
       /\ silentReceive' = silentReceive \ {p}
  /\ Goto("W", "add")
  /\ UNCHANGED <<tableVars, lockVars, at, todo, gcVars>>

(* ... or createPair makes one, with a socket.  startRecv is queued for L.      *)
CreatePair(t, id) ==
  /\ Idle("W") /\ t \in connected /\ locker[t] = None
  /\ table[t][id] = None
  /\ \E p \in FreshPairs(t, id) :
       /\ cur' = [cur EXCEPT !["W"] = p]
       /\ udp' = [udp EXCEPT ![p] = "bound"]
       /\ closed' = closed \ {p}
       /\ silentSend' = silentSend \ {p}
       /\ silentReceive' = silentReceive \ {p}
  /\ Goto("W", "add")
  /\ UNCHANGED <<tableVars, lockVars, at, todo, gcVars>>

(* Without a socket createPair fails and leaves a null pair, which onSend closes. *)
CreatePairFails(t, id) ==
  /\ SocketMayFail
  /\ Idle("W") /\ t \in connected /\ locker[t] = None
  /\ table[t][id] = None
  /\ Goto("W", "crashed")
  /\ UNCHANGED <<tableVars, pairVars, lockVars, cur, at, todo, gcVars>>

(* addPair inserts, which does not replace an entry that is there.              *)
AddPair ==
  /\ At("W", "add")
  /\ LET p == cur["W"] IN
       /\ locker[p[1]] = None
       /\ table' = [table EXCEPT ![p[1]][p[2]] = IF @ = None THEN p ELSE @]
  /\ Goto("W", "send")
  /\ UNCHANGED <<connected, tunnels, pairVars, lockVars, cur, at, todo, gcVars>>

(* Pair::send: a closed pair takes nothing; otherwise the send time is renewed. *)
(* Should the collector have read the clock for this very pair already, the new *)
(* time may be later than its reading.                                          *)
Send ==
  /\ At("W", "send")
  /\ LET p == cur["W"] IN
       IF p \in closed
       THEN UNCHANGED <<silentSend, ahead>>
       ELSE /\ silentSend' = silentSend \ {p}
            /\ ahead' \in IF pc["L"] = "judge" /\ cur["L"] = p THEN {ahead, TRUE} ELSE {ahead}
  /\ cur' = [cur EXCEPT !["W"] = None]
  /\ Goto("W", "idle")
  /\ UNCHANGED <<tableVars, udp, closed, silentReceive, lockVars, at, todo, visit, scan>>

--------------------------------------------------------------------------------
(* Pair::close, run by either thread for the pairs of its vector                *)

(* Take _closeMutex; a pair that is closed by then is left alone.               *)
SkipClosed(th) ==
  /\ At(th, "close")
  /\ \E p \in todo[th] \cap closed :
       /\ closeMutex[p] = None
       /\ todo' = [todo EXCEPT ![th] = @ \ {p}]
  /\ UNCHANGED <<tableVars, pairVars, lockVars, pc, cur, at, gcVars>>

BeginCloseUnchecked(th) ==  \* mutant: no _closeMutex, no _isClosed
  /\ At(th, "close")
  /\ \E p \in todo[th] :
       /\ cur' = [cur EXCEPT ![th] = p]
       /\ todo' = [todo EXCEPT ![th] = @ \ {p}]
  /\ Goto(th, "unlink")
  /\ UNCHANGED <<tableVars, pairVars, lockVars, at, gcVars>>

BeginClose(th) ==
  /\ At(th, "close")
  /\ \E p \in todo[th] \ closed :
       /\ closeMutex[p] = None
       /\ closeMutex' = [closeMutex EXCEPT ![p] = th]
       /\ cur' = [cur EXCEPT ![th] = p]
       /\ todo' = [todo EXCEPT ![th] = @ \ {p}]
  /\ Goto(th, "unlink")
  /\ UNCHANGED <<tableVars, pairVars, tunnelsMutex, locker, at, gcVars>>

UnlinkNothing(th) ==  \* mutant: removePair forgotten
  /\ At(th, "unlink")
  /\ locker[cur[th][1]] = None
  /\ Goto(th, "stop")
  /\ UNCHANGED <<tableVars, pairVars, lockVars, cur, at, todo, gcVars>>

(* The close handler: removePair erases the entry of the pair's id, ...         *)
Unlink(th) ==
  /\ At(th, "unlink")
  /\ LET p == cur[th] IN
       /\ locker[p[1]] = None
       /\ table' = [table EXCEPT ![p[1]][p[2]] = None]
  /\ Goto(th, "stop")
  /\ UNCHANGED <<connected, tunnels, pairVars, lockVars, cur, at, todo, gcVars>>

StopSocketSkipped(th) ==  \* mutant: the handler returns before stop()
  /\ At(th, "stop")
  /\ Goto(th, "mark")
  /\ UNCHANGED <<tableVars, pairVars, lockVars, cur, at, todo, gcVars>>

(* ... and the socket is stopped.                                               *)
StopSocket(th) ==
  /\ At(th, "stop")
  /\ udp' = [udp EXCEPT ![cur[th]] = "stopped"]
  /\ Goto(th, "mark")
  /\ UNCHANGED <<tableVars, closed, silentSend, silentReceive, lockVars, cur, at, todo, gcVars>>

(* _isClosed is set after the handlers have run, and _closeMutex is released.   *)
MarkClosed(th) ==
  /\ At(th, "mark")
  /\ closed' = closed \cup {cur[th]}
  /\ silentSend' = silentSend \ {cur[th]}
  /\ silentReceive' = silentReceive \ {cur[th]}
  /\ closeMutex' = [closeMutex EXCEPT ![cur[th]] = None]
  /\ cur' = [cur EXCEPT ![th] = None]
  /\ Goto(th, "close")
  /\ UNCHANGED <<tableVars, udp, tunnelsMutex, locker, at, todo, gcVars>>

(* The destroy handler goes on to erase the tunnel, the collector is done.      *)
EndClosingErasing(th) ==  \* mutant: the collector goes on to erase, too
  /\ At(th, "close") /\ todo[th] = {}
  /\ Goto(th, "erase")
  /\ UNCHANGED <<tableVars, pairVars, lockVars, cur, at, todo, gcVars>>

EndClosing(th) ==
  /\ At(th, "close") /\ todo[th] = {}
  /\ Goto(th, IF th = "W" THEN "erase" ELSE "idle")
  /\ UNCHANGED <<tableVars, pairVars, lockVars, cur, at, todo, gcVars>>

--------------------------------------------------------------------------------
(* L: the UDP sockets                                                           *)

(* The startRecv that createPair queued.                                        *)
StartRecv(p) ==
  /\ Idle("L") /\ udp[p] = "bound"
  /\ udp' = [udp EXCEPT ![p] = "receiving"]
  /\ UNCHANGED <<tableVars, closed, silentSend, silentReceive, lockVars, threadVars, gcVars>>

(* pairReceiveHandler: the receive time is renewed, and the datagram goes out   *)
(* on the tunnel with the pair's id.                                            *)
OnReceive(p) ==
  /\ Idle("L") /\ udp[p] = "receiving"
  /\ silentReceive' = silentReceive \ {p}
  /\ UNCHANGED <<tableVars, udp, closed, silentSend, lockVars, threadVars, gcVars>>

(* L: garbageCollection                                                         *)

(* foreachTunnels takes _tunnelsMutex for the whole walk.                       *)
GcBegin ==
  /\ Idle("L") /\ tunnelsMutex = None
  /\ tunnelsMutex' = "L"
  /\ visit' = tunnels
  /\ Goto("L", "gc")
  /\ UNCHANGED <<tableVars, pairVars, locker, closeMutex, cur, at, todo, scan, ahead>>

(* foreachPairs takes the context's lock for all pairs of a tunnel.             *)
GcVisitTunnel(t) ==
  /\ At("L", "gc") /\ t \in visit /\ locker[t] = None
  /\ locker' = [locker EXCEPT ![t] = "L"]
  /\ visit' = visit \ {t}
  /\ scan' = Registered(t)
  /\ at' = [at EXCEPT !["L"] = t]
  /\ Goto("L", "scan")
  /\ UNCHANGED <<tableVars, pairVars, tunnelsMutex, closeMutex, cur, todo, ahead>>

(* The clock is read before the pair's times are.                               *)
GcReadClock(p) ==
  /\ At("L", "scan") /\ p \in scan
  /\ scan' = scan \ {p}
  /\ cur' = [cur EXCEPT !["L"] = p]
  /\ Goto("L", "judge")
  /\ UNCHANGED <<tableVars, pairVars, lockVars, at, todo, visit, ahead>>

GcJudgeBothSilent ==  \* mutant: and for or
  /\ At("L", "judge")
  /\ LET p == cur["L"]
         due == p \in silentSend /\ p \in silentReceive
     IN todo' = [todo EXCEPT !["L"] = IF due THEN @ \cup {p} ELSE @]
  /\ ahead' = FALSE
  /\ cur' = [cur EXCEPT !["L"] = None]
  /\ Goto("L", "scan")
  /\ UNCHANGED <<tableVars, pairVars, lockVars, at, visit, scan>>

(* A pair is due when either time is over.  A send time ahead of the reading    *)
(* makes the unsigned difference wrap around, to more than any timeout.         *)
GcJudge ==
  /\ At("L", "judge")
  /\ LET p == cur["L"]
         due == p \in silentSend \/ p \in silentReceive \/ ahead
     IN todo' = [todo EXCEPT !["L"] = IF due THEN @ \cup {p} ELSE @]
  /\ ahead' = FALSE
  /\ cur' = [cur EXCEPT !["L"] = None]
  /\ Goto("L", "scan")
  /\ UNCHANGED <<tableVars, pairVars, lockVars, at, visit, scan>>

GcLeaveTunnelLocked ==  \* mutant: pairs are closed with the context still locked
  /\ At("L", "scan") /\ scan = {}
  /\ at' = [at EXCEPT !["L"] = None]
  /\ Goto("L", "gc")
  /\ UNCHANGED <<tableVars, pairVars, lockVars, cur, todo, gcVars>>

GcLeaveTunnel ==
  /\ At("L", "scan") /\ scan = {}
  /\ locker' = [locker EXCEPT ![at["L"]] = None]
  /\ at' = [at EXCEPT !["L"] = None]
  /\ Goto("L", "gc")
  /\ UNCHANGED <<tableVars, pairVars, tunnelsMutex, closeMutex, cur, todo, gcVars>>

GcEndLocked ==  \* mutant: _tunnelsMutex is not released
  /\ At("L", "gc") /\ visit = {}
  /\ Goto("L", "close")
  /\ UNCHANGED <<tableVars, pairVars, lockVars, cur, at, todo, gcVars>>

(* Only after the locks are released are the due pairs closed.                  *)
GcEnd ==
  /\ At("L", "gc") /\ visit = {}
  /\ tunnelsMutex' = None
  /\ Goto("L", "close")
  /\ UNCHANGED <<tableVars, pairVars, locker, closeMutex, cur, at, todo, gcVars>>

--------------------------------------------------------------------------------
(* Time passes.                                                                 *)
SendTimeout(p) ==
  /\ Running /\ p \notin closed
  /\ silentSend' = silentSend \cup {p}
  /\ UNCHANGED <<tableVars, udp, closed, silentReceive, lockVars, threadVars, gcVars>>

ReceiveTimeout(p) ==
  /\ Running /\ p \notin closed
  /\ silentReceive' = silentReceive \cup {p}
  /\ UNCHANGED <<tableVars, udp, closed, silentSend, lockVars, threadVars, gcVars>>

CloseStep(th) ==
  \/ SkipClosed(th)
  \/ BeginClose(th)
  \/ Unlink(th)
  \/ StopSocket(th)
  \/ MarkClosed(th)
  \/ EndClosing(th)

MessageStep == AddPair \/ Send

GcStep ==
  \/ \E t \in Tunnel : GcVisitTunnel(t)
  \/ \E p \in Pair : GcReadClock(p)
  \/ GcJudge
  \/ GcLeaveTunnel
  \/ GcEnd

Next ==
  \/ \E t \in Tunnel : Open(t) \/ OnClose(t)
  \/ \E t \in Tunnel, id \in PairID :
       FindPair(t, id) \/ CreatePair(t, id) \/ CreatePairFails(t, id)
  \/ MessageStep
  \/ \E th \in Thread : CloseStep(th)
  \/ EraseTunnel
  \/ GcBegin
  \/ GcStep
  \/ \E p \in Pair :
       StartRecv(p) \/ OnReceive(p) \/ SendTimeout(p) \/ ReceiveTimeout(p)

Spec == Init /\ [][Next]_vars

(* A thread that can go on does, and one that waits for a mutex that is free    *)
(* again and again gets it; the timer of the collector fires again and again.   *)
Fairness ==
  /\ SF_vars(MessageStep \/ CloseStep("W") \/ EraseTunnel)
  /\ SF_vars(GcStep \/ CloseStep("L"))
  /\ SF_vars(GcBegin)

FairSpec == Spec /\ Fairness

--------------------------------------------------------------------------------
(* Safety                                                                       *)

(* What getPair returns is never a pair whose socket is stopped: both closers   *)
(* take a pair out of the table before they stop it, so onSend makes a new one. *)
RegisteredPairIsLive ==
  \A t \in Tunnel, id \in PairID :
    LET p == table[t][id] IN
      p # None => p[1] = t /\ p[2] = id /\ p \notin closed /\ udp[p] # "stopped"

(* No socket is forgotten: one that is not stopped belongs to a pair that the   *)
(* collector and the tunnel's close can find, or that a thread is about to      *)
(* register or to close.                                                        *)
EverySocketIsReachable ==
  \A p \in Pair : udp[p] # "stopped" =>
    \/ p \in Registered(p[1])
    \/ pc["W"] = "add" /\ cur["W"] = p
    \/ closeMutex[p] # None

(* Whenever the loop can deliver a datagram, one pair at most receives for a    *)
(* pair id, although a closed pair and its successor overlap in time: a reply   *)
(* to an old pair is not handed to the client that has the id now.              *)
OneReceiverPerId ==
  pc["L"] = "idle" =>
    \A p, q \in Pair :
      p[1] = q[1] /\ p[2] = q[2] /\ udp[p] # "stopped" /\ udp[q] # "stopped" => p = q

(* removePair looks the pair up by its id only, and yet never erases the entry  *)
(* of a successor, even if both threads have the pair in their vectors.         *)
UnlinksItself ==
  \A th \in Thread :
    pc[th] = "unlink" => cur[th] \in Registered(cur[th][1])

(* A tunnel that has left _tunnels, where the collector would look for it, has  *)
(* no pair, and no socket but one that the collector is stopping at the moment. *)
ErasedTunnelLeavesNothing ==
  \A t \in Tunnel \ tunnels :
    /\ Registered(t) = {}
    /\ \A p \in PairsOf(t) :
         udp[p] # "stopped" => cur["L"] = p /\ pc["L"] = "stop"

(* What a pair looks like from outside: closed, found by its id, known to its   *)
(* maker only, or on its way out with its socket or without.                    *)
PhaseOf(p) ==
  IF p \in closed THEN "gone"
  ELSE IF table[p[1]][p[2]] = p THEN "registered"
  ELSE IF pc["W"] = "add" /\ cur["W"] = p THEN "made"
  ELSE IF udp[p] = "stopped" THEN "stopped"
  ELSE "unlinked"

(* Both threads' sends, closes and collections, taken together, lead each pair  *)
(* through the life that PairLife describes: no pair is put over another one or *)
(* comes back, is stopped while it can be found, or closed with an open socket. *)
Life == INSTANCE PairLife WITH phase <- [p \in Pair |-> PhaseOf(p)]
ImplementsPairLife == Life!Spec

(* "GC ... cleans the pairs that have not been used for a long time": what the  *)
(* collector takes has been silent in one direction at least.                   *)
GcTakesOnlySilent ==
  [][ todo'["L"] \ todo["L"] \subseteq silentSend \cup silentReceive ]_vars

--------------------------------------------------------------------------------
(* Liveness, under FairSpec                                                     *)

(* A silent pair is closed, unless it is used again.                            *)
SilentPairIsClosed ==
  \A p \in Pair : p \in silentSend \cup silentReceive ~> p \notin silentSend \cup silentReceive

(* The tunnel's close ends, whatever the collector holds or closes meanwhile.   *)
ClosedTunnelIsErased ==
  \A t \in Tunnel : t \in tunnels \ connected ~> t \notin tunnels

(* The collector ends, so the loop goes back to its sockets.                    *)
CollectorEnds == pc["L"] # "idle" ~> pc["L"] = "idle"

================================================================================
