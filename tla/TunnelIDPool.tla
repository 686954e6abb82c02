------------------------------ MODULE TunnelIDPool ------------------------------
(* The pool of tunnel ids, with its two users: TunnelFactory::createTunnel in   *)
(* the client and the listener's onopen in the server do the same thing, refill *)
(* the pool when it has run low and take the id at the front; a tunnel's error  *)
(* and destroy handlers put the id back.  Either user is a single thread.       *)
(*                                                                              *)
(* Ids are Nat here.  In the code they are uint32: the counter would have to    *)
(* pass 2^32 - PoolSize to matter, and BoundedIds says how far it gets.         *)

EXTENDS SequencesExt

CONSTANTS
  PoolSize,   \* _poolSize, 100 by default
  LowShare,   \* the pool is low at PoolSize \div LowShare ids: 10 in the code
  MaxLive     \* bound: tunnels alive at one time

ASSUME PoolAssumption ==
  /\ PoolSize \in Nat \ {0}
  /\ LowShare \in Nat /\ LowShare > 1
  /\ MaxLive \in Nat \ {0}

VARIABLES
  pool,          \* _tunnelIDPool, a queue
  lastTunnelID,  \* _lastTunnelID, the next id never used yet
  live           \* the ids of the tunnels that exist

vars == <<pool, lastTunnelID, live>>

INVALID_TUNNEL_ID == 0

LowWater == PoolSize \div LowShare

(* fillPool's loop ends when _lastTunnelID passes _lastTunnelID + _poolSize, so *)
(* it pushes one id more than the pool's size.                                  *)
FreshIDsDownwards(last) == [i \in 1 .. (PoolSize + 1) |-> last - i]  \* mutant: -- for ++

FreshIDs(last) == [i \in 1 .. (PoolSize + 1) |-> last + i - 1]

FillPool(ids, last) == ids \o FreshIDs(last)
LastAfterFill(last) == last + PoolSize + 1

Init ==
  /\ pool = FillPool(<<>>, INVALID_TUNNEL_ID + 1)
  /\ lastTunnelID = LastAfterFill(INVALID_TUNNEL_ID + 1)
  /\ live = {}

(* getTunnelID: the id at the front, and the rest stays.                        *)
GetTunnelIDUnpopped(ids) ==  \* mutant: no pop
  /\ ids # <<>>
  /\ live' = live \cup {Head(ids)}
  /\ pool' = ids

GetTunnelID(ids) ==
  /\ ids # <<>>
  /\ live' = live \cup {Head(ids)}
  /\ pool' = Tail(ids)

CreateTunnel ==
  /\ Cardinality(live) < MaxLive
  /\ Len(pool) > LowWater
  /\ GetTunnelID(pool)
  /\ UNCHANGED lastTunnelID

(* Mutant: the counter is not moved on.                                         *)
FillAndCreateSameIDs ==
  /\ Cardinality(live) < MaxLive
  /\ Len(pool) <= LowWater
  /\ GetTunnelID(FillPool(pool, lastTunnelID))
  /\ UNCHANGED lastTunnelID

(* Mutant: the pool is filled before every get.                                 *)
FillAndCreateAlways ==
  /\ Cardinality(live) < MaxLive
  /\ GetTunnelID(FillPool(pool, lastTunnelID))
  /\ lastTunnelID' = LastAfterFill(lastTunnelID)

FillAndCreateTunnel ==
  /\ Cardinality(live) < MaxLive
  /\ Len(pool) <= LowWater
  /\ GetTunnelID(FillPool(pool, lastTunnelID))
  /\ lastTunnelID' = LastAfterFill(lastTunnelID)

PutTunnelIDDropped(id) ==  \* mutant: one handler forgotten
  /\ id \in live
  /\ live' = live \ {id}
  /\ UNCHANGED <<pool, lastTunnelID>>

(* putTunnelID itself checks nothing.  That an id is put once, by the one       *)
(* handler that runs at the end of its tunnel, is WsClientTunnel's              *)
(* ImplementsTunnelLife: a tunnel tells its users of exactly one end.           *)
PutTunnelID(id) ==
  /\ id \in live
  /\ live' = live \ {id}
  /\ pool' = Append(pool, id)
  /\ UNCHANGED lastTunnelID

Next ==
  \/ CreateTunnel
  \/ FillAndCreateTunnel
  \/ \E id \in live : PutTunnelID(id)

Spec == Init /\ [][Next]_vars

--------------------------------------------------------------------------------
(* Ids and counter are numbers; none is ever negative.                          *)
TypeOK ==
  /\ pool \in Seq(Nat)
  /\ lastTunnelID \in Nat
  /\ live \in SUBSET Nat

(* A tunnel id names one tunnel: the queue holds no id twice, and no id of a    *)
(* tunnel that exists, across any order of creations, closes and refills.       *)
IdsAreUnique ==
  /\ \A i, j \in DOMAIN pool : pool[i] = pool[j] => i = j
  /\ \A i \in DOMAIN pool : pool[i] \notin live

(* No id is lost and none is invented: pool and tunnels together hold exactly   *)
(* the ids the counter has passed; INVALID_TUNNEL_ID is not among them.         *)
IdsAreConserved == Range(pool) \cup live = 1 .. (lastTunnelID - 1)

(* Since ids come back, refills stop: the counter never passes the tunnels that *)
(* were alive together plus one pool and a low pool.                            *)
BoundedIds == lastTunnelID - 1 <= MaxLive + LowWater + PoolSize

================================================================================
