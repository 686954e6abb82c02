------------------------ MODULE ClientPairManager_proof ------------------------
(* Proofs about ClientPairManager, whatever the number of tunnels, of sources   *)
(* and of pair ids, and for every capacity up to the number of PairID values:   *)
(* type correctness, the accounts of seats, counters and map, and the           *)
(* refinement of PairAllocation.  What is true only of a capacity that leaves   *)
(* INVALID_PAIR_ID out of the pool says so.                                     *)

EXTENDS ClientPairManager, SequenceTheorems, FiniteSetTheorems, TLAPS

--------------------------------------------------------------------------------
(* The list of tunnels with room, as a set without repetition.                  *)

Lists(list, roomy) ==
  /\ list \in Seq(Tunnel)
  /\ \A i, j \in 1 .. Len(list) : list[i] = list[j] => i = j
  /\ \A t \in Tunnel : (\E i \in 1 .. Len(list) : list[i] = t) <=> t \in roomy

(* removeTunnel's erase: the entries before i stay, those after it move up.     *)
LEMMA RemoveAtProperties ==
  ASSUME NEW S, NEW s \in Seq(S), NEW i \in 1 .. Len(s)
  PROVE  /\ RemoveAt(s, i) \in Seq(S)
         /\ Len(RemoveAt(s, i)) = Len(s) - 1
         /\ \A j \in 1 .. (i - 1) : RemoveAt(s, i)[j] = s[j]
         /\ \A j \in i .. (Len(s) - 1) : RemoveAt(s, i)[j] = s[j + 1]
PROOF
  <1> DEFINE n == Len(s)
             front == SubSeq(s, 1, i - 1)
             back == SubSeq(s, i + 1, n)
  <1>1. n \in Nat /\ i \in Nat /\ i >= 1 /\ i <= n
    BY LenProperties
  <1>2. \A j \in 1 .. n : s[j] \in S
    BY ElementOfSeq
  <1>3. /\ front \in Seq(S)
        /\ Len(front) = i - 1
        /\ \A j \in 1 .. (i - 1) : front[j] = s[j]
    <2>1. \A j \in 1 .. (i - 1) : s[j] \in S
      BY <1>1, <1>2
    <2>2. /\ front \in Seq(S)
          /\ Len(front) = IF 1 <= i - 1 THEN i - 1 - 1 + 1 ELSE 0
          /\ \A j \in 1 .. (i - 1 - 1 + 1) : front[j] = s[1 + j - 1]
      BY <1>1, <2>1, SubSeqProperties
    <2> HIDE DEF front
    <2> QED BY <1>1, <2>2
  <1>4. /\ back \in Seq(S)
        /\ Len(back) = n - i
        /\ \A j \in 1 .. (n - i) : back[j] = s[j + i]
    <2>1. \A j \in (i + 1) .. n : s[j] \in S
      BY <1>1, <1>2
    <2>2. /\ back \in Seq(S)
          /\ Len(back) = IF i + 1 <= n THEN n - (i + 1) + 1 ELSE 0
          /\ \A j \in 1 .. (n - (i + 1) + 1) : back[j] = s[(i + 1) + j - 1]
      BY <1>1, <2>1, SubSeqProperties
    <2> HIDE DEF back, n
    <2> QED BY <1>1, <2>2
  <1>5. RemoveAt(s, i) = front \o back
    BY DEF RemoveAt
  <1> HIDE DEF front, back
  <1>6. /\ front \o back \in Seq(S)
        /\ Len(front \o back) = Len(front) + Len(back)
        /\ \A j \in 1 .. Len(front) + Len(back) :
             (front \o back)[j] = IF j <= Len(front) THEN front[j] ELSE back[j - Len(front)]
    BY <1>3, <1>4, ConcatProperties
  <1> HIDE DEF n
  <1>7. Len(RemoveAt(s, i)) = n - 1
    BY <1>1, <1>3, <1>4, <1>5, <1>6
  <1>8. \A j \in 1 .. (i - 1) : RemoveAt(s, i)[j] = s[j]
    BY <1>1, <1>3, <1>4, <1>5, <1>6
  <1>9. \A j \in i .. (n - 1) : RemoveAt(s, i)[j] = s[j + 1]
    <2> TAKE j \in i .. (n - 1)
    <2>1. /\ j \in 1 .. Len(front) + Len(back) /\ ~(j <= Len(front))
          /\ j - Len(front) \in 1 .. (n - i)
          /\ j - Len(front) + i = j + 1
      BY <1>1, <1>3, <1>4
    <2>2. RemoveAt(s, i)[j] = back[j - Len(front)]
      BY <1>5, <1>6, <2>1
    <2>3. back[j - Len(front)] = s[j - Len(front) + i]
      BY <1>4, <2>1
    <2> QED BY <2>1, <2>2, <2>3
  <1> QED BY <1>5, <1>6, <1>7, <1>8, <1>9 DEF n

(* addTunnel, and a tunnel that has room again.                                 *)
LEMMA AppendToList ==
  ASSUME NEW list, NEW roomy, NEW t \in Tunnel,
         Lists(list, roomy), t \notin roomy
  PROVE  Lists(Append(list, t), roomy \cup {t})
PROOF
  <1> DEFINE n == Len(list)
             longer == Append(list, t)
  <1>1. list \in Seq(Tunnel) /\ n \in Nat
    BY LenProperties DEF Lists
  <1>2. /\ longer \in Seq(Tunnel)
        /\ Len(longer) = n + 1
        /\ \A i \in 1 .. n : longer[i] = list[i]
        /\ longer[n + 1] = t
    BY <1>1, AppendProperties
  <1>3. \A i \in 1 .. n : list[i] # t
    BY DEF Lists
  <1> HIDE DEF longer
  <1>4. \A i, j \in 1 .. Len(longer) : longer[i] = longer[j] => i = j
    <2>1. \A i \in 1 .. (n + 1) : i \in 1 .. n \/ i = n + 1
      BY <1>1
    <2> QED BY <1>2, <1>3, <2>1 DEF Lists
  <1>5. ASSUME NEW u \in Tunnel
        PROVE  (\E i \in 1 .. Len(longer) : longer[i] = u) <=> u \in roomy \cup {t}
    <2>1. CASE u = t
      BY <1>1, <1>2, <2>1
    <2>2. CASE u # t
      <3>1. ASSUME NEW i \in 1 .. Len(longer), longer[i] = u PROVE u \in roomy
        <4>1. i \in 1 .. n
          BY <1>1, <1>2, <2>2, <3>1
        <4> QED BY <1>2, <3>1, <4>1 DEF Lists
      <3>2. ASSUME u \in roomy PROVE \E i \in 1 .. Len(longer) : longer[i] = u
        <4>1. PICK i \in 1 .. n : list[i] = u
          BY <3>2 DEF Lists
        <4>2. i \in 1 .. Len(longer) /\ longer[i] = u
          BY <1>1, <1>2, <4>1
        <4> QED BY <4>2
      <3> QED BY <2>2, <3>1, <3>2
    <2> QED BY <2>1, <2>2
  <1> QED BY <1>2, <1>4, <1>5 DEF Lists, longer

(* Erasing the entry of a tunnel.                                               *)
LEMMA RemoveFromList ==
  ASSUME NEW list, NEW roomy, Lists(list, roomy), NEW i \in 1 .. Len(list)
  PROVE  Lists(RemoveAt(list, i), roomy \ {list[i]})
PROOF
  <1> DEFINE n == Len(list)
             rest == RemoveAt(list, i)
  <1>1. list \in Seq(Tunnel) /\ n \in Nat /\ i \in Nat /\ i >= 1 /\ i <= n
    BY LenProperties DEF Lists
  <1>2. /\ rest \in Seq(Tunnel)
        /\ Len(rest) = n - 1
        /\ \A j \in 1 .. (i - 1) : rest[j] = list[j]
        /\ \A j \in i .. (n - 1) : rest[j] = list[j + 1]
    BY <1>1, RemoveAtProperties
  <1>3. \A j, k \in 1 .. n : list[j] = list[k] => j = k
    BY DEF Lists
  <1> HIDE DEF rest
  <1> DEFINE old(j) == IF j < i THEN j ELSE j + 1
  <1>4. \A j \in 1 .. (n - 1) :
          /\ rest[j] = list[old(j)]
          /\ old(j) \in 1 .. n
          /\ old(j) # i
    <2> TAKE j \in 1 .. (n - 1)
    <2>1. CASE j < i
      <3>1. j \in 1 .. (i - 1) /\ j \in 1 .. n /\ j # i
        BY <1>1, <2>1
      <3> QED BY <1>2, <2>1, <3>1
    <2>2. CASE ~(j < i)
      <3>1. j \in i .. (n - 1) /\ j + 1 \in 1 .. n /\ j + 1 # i
        BY <1>1, <2>2
      <3> QED BY <1>2, <2>2, <3>1
    <2> QED BY <2>1, <2>2
  <1>5. \A j, k \in 1 .. (n - 1) : old(j) = old(k) => j = k
    BY <1>1
  <1>6. \A k \in 1 .. n : k # i => \E j \in 1 .. (n - 1) : old(j) = k
    <2> SUFFICES ASSUME NEW k \in 1 .. n, k # i
                 PROVE  \E j \in 1 .. (n - 1) : old(j) = k
      OBVIOUS
    <2>1. CASE k < i
      <3>1. k \in 1 .. (n - 1) /\ old(k) = k
        BY <1>1, <2>1
      <3> QED BY <3>1
    <2>2. CASE ~(k < i)
      <3>1. k - 1 \in 1 .. (n - 1) /\ old(k - 1) = k
        BY <1>1, <2>2
      <3> QED BY <3>1
    <2> QED BY <2>1, <2>2
  <1> HIDE DEF old, n
  <1>7. \A j, k \in 1 .. Len(rest) : rest[j] = rest[k] => j = k
    BY <1>2, <1>3, <1>4, <1>5
  <1>8. ASSUME NEW u \in Tunnel
        PROVE  (\E j \in 1 .. Len(rest) : rest[j] = u) <=> u \in roomy \ {list[i]}
    <2>1. (\E k \in 1 .. n : list[k] = u) <=> u \in roomy
      BY DEF Lists, n
    <2>2. ASSUME NEW j \in 1 .. Len(rest), rest[j] = u
          PROVE  u \in roomy \ {list[i]}
      <3>1. old(j) \in 1 .. n /\ old(j) # i /\ list[old(j)] = u
        BY <1>2, <1>4, <2>2
      <3>2. i \in 1 .. n
        BY DEF n
      <3> QED BY <1>3, <2>1, <3>1, <3>2
    <2>3. ASSUME u \in roomy \ {list[i]}
          PROVE  \E j \in 1 .. Len(rest) : rest[j] = u
      <3>1. PICK k \in 1 .. n : list[k] = u
        BY <2>1, <2>3
      <3>2. k # i
        BY <2>3, <3>1
      <3>3. PICK j \in 1 .. (n - 1) : old(j) = k
        BY <1>6, <3>1, <3>2
      <3> QED BY <1>2, <1>4, <3>1, <3>3
    <2> QED BY <2>2, <2>3
  <1> QED BY <1>2, <1>7, <1>8 DEF Lists, rest

(* Dropping the tunnel at the front, which has become full.                     *)
LEMMA TailOfList ==
  ASSUME NEW list, NEW roomy, Lists(list, roomy), list # <<>>
  PROVE  /\ Head(list) \in Tunnel /\ Head(list) \in roomy
         /\ Lists(Tail(list), roomy \ {Head(list)})
PROOF
  <1>1. list \in Seq(Tunnel)
    BY DEF Lists
  <1>2. 1 \in 1 .. Len(list) /\ Len(list) \in Nat /\ Head(list) = list[1]
    BY <1>1, EmptySeq, LenProperties
  <1>3. Tail(list) = RemoveAt(list, 1)
    <2>1. Tail(list) = SubSeq(list, 2, Len(list))
      BY <1>1, TailIsSubSeq
    <2>2. SubSeq(list, 1, 1 - 1) = <<>>
      BY SubSeqEmpty
    <2>3. /\ SubSeq(list, 2, Len(list)) \in Seq(Tunnel)
          /\ 1 + 1 = 2
      BY <1>1, <2>1, HeadTailProperties
    <2>4. <<>> \o SubSeq(list, 2, Len(list)) = SubSeq(list, 2, Len(list))
      BY <2>3, ConcatEmptySeq
    <2> QED BY <2>1, <2>2, <2>3, <2>4 DEF RemoveAt
  <1>4. Lists(Tail(list), roomy \ {Head(list)})
    <2>1. Lists(RemoveAt(list, 1), roomy \ {list[1]})
      BY <1>2, RemoveFromList
    <2> QED BY <1>2, <1>3, <2>1
  <1>5. Head(list) \in Tunnel
    BY <1>1, HeadTailProperties
  <1>6. Head(list) \in roomy
    BY <1>2, <1>5 DEF Lists
  <1> QED BY <1>4, <1>5, <1>6

--------------------------------------------------------------------------------
(* Type correctness                                                             *)

(* A seat number is a PairID: the last one wraps around when it must.           *)
LEMMA SeatsArePairIDs ==
  /\ INVALID_PAIR_ID \in PairID
  /\ InitialSeats \subseteq PairID
  /\ EmptySeats \in [PairID -> Source \cup {NoSource}]
PROOF
  <1>1. PairIdCount \in Nat /\ PairIdCount > 0 /\ Capacity \in Nat
    BY CapacityAssumption
  <1>2. INVALID_PAIR_ID \in PairID
    BY <1>1 DEF INVALID_PAIR_ID, PairID
  <1>3. \A i \in 1 .. Capacity : i % PairIdCount \in 0 .. (PairIdCount - 1)
    BY <1>1
  <1> QED BY <1>2, <1>3 DEF InitialSeats, PairID, EmptySeats

(* The state and the channel that createTunnel leaves.                          *)
LEMMA NewStateTypes ==
  /\ NewState \in [previous : TunnelState, current : TunnelState]
  /\ \A st \in [previous : TunnelState, current : TunnelState], to \in TunnelState :
       Changed(st, to) \in [previous : TunnelState, current : TunnelState]
  /\ OpenResult \subseteq ChannelState
  /\ {"INITIAL", "CONNECTING", "CONNECTED", "DESTROYING"} \subseteq TunnelState
  /\ {"none", "up", "closing"} \subseteq ChannelState
PROOF
  <1>1. \A st \in [previous : TunnelState, current : TunnelState] : st.current \in TunnelState
    OBVIOUS
  <1> QED BY <1>1 DEF NewState, TunnelState, Changed, OpenResult, ChannelState

TypesOfTunnels ==
  /\ tunnels \in SUBSET Tunnel
  /\ state \in [Tunnel -> [previous : TunnelState, current : TunnelState]]
  /\ channel \in [Tunnel -> ChannelState]

TypesOfTables ==
  /\ counter \in [Tunnel -> 0 .. Capacity]
  /\ available \in Seq(Tunnel)
  /\ seats \in [Tunnel -> SUBSET PairID]
  /\ pairs \in [Tunnel -> [PairID -> Source \cup {NoSource}]]
  /\ sourceAddressMap \in [Source -> Pair \cup {NoPair}]

TypesOfLoop ==
  /\ silentSend \in SUBSET Pair
  /\ silentReceive \in SUBSET Pair
  /\ pendingToDelete \in SUBSET Pair
  /\ uselessTunnels \in SUBSET Tunnel

(* TypeOK, regrouped by the variables that actions change together.             *)
LEMMA TypeParts == TypeOK <=> TypesOfTunnels /\ TypesOfTables /\ TypesOfLoop
PROOF
  BY DEF TypeOK, TypesOfTunnels, TypesOfTables, TypesOfLoop

(* The initial states are well typed.                                           *)
LEMMA InitTypes == Init => TypeOK
PROOF
  <1> SUFFICES ASSUME Init PROVE TypeOK
    OBVIOUS
  <1>1. PICK t \in Tunnel, ch \in OpenResult :
          /\ tunnels = {t}
          /\ state = [u \in Tunnel |-> IF u = t THEN Changed(NewState, "CONNECTING") ELSE NewState]
          /\ channel = [u \in Tunnel |-> IF u = t THEN ch ELSE "none"]
          /\ counter = NoPairsCounted
          /\ available = <<t>>
          /\ seats = [u \in Tunnel |-> InitialSeats]
          /\ pairs = [u \in Tunnel |-> EmptySeats]
          /\ sourceAddressMap = [src \in Source |-> NoPair]
          /\ silentSend = {} /\ silentReceive = {}
          /\ pendingToDelete = {} /\ uselessTunnels = {}
    BY DEF Init
  <1>2. TypesOfTunnels
    BY <1>1, NewStateTypes DEF TypesOfTunnels
  <1>3. TypesOfTables
    <2>1. NoPairsCounted \in [Tunnel -> 0 .. Capacity]
      BY CapacityAssumption DEF NoPairsCounted
    <2>2. <<t>> \in Seq(Tunnel)
      OBVIOUS
    <2> QED BY <1>1, <2>1, <2>2, SeatsArePairIDs DEF TypesOfTables
  <1>4. TypesOfLoop
    BY <1>1 DEF TypesOfLoop
  <1> QED BY <1>2, <1>3, <1>4, TypeParts

(* The counter's operations keep the types of the counter and the list.         *)
LEMMA CounterTypes ==
  ASSUME NEW t \in Tunnel,
         counter \in [Tunnel -> 0 .. Capacity], available \in Seq(Tunnel)
  PROVE  /\ Increased(t) \in 0 .. Capacity
         /\ Decreased(t) \in 0 .. Capacity
         /\ 0 \in 0 .. Capacity
         /\ Append(available, t) \in Seq(Tunnel)
         /\ available # <<>> => Tail(available) \in Seq(Tunnel)
         /\ Tail(Append(available, t)) \in Seq(Tunnel)
         /\ \A i \in DOMAIN available : RemoveAt(available, i) \in Seq(Tunnel)
PROOF
  <1>1. Capacity \in Nat /\ counter[t] \in 0 .. Capacity
    BY CapacityAssumption
  <1>2. Increased(t) \in 0 .. Capacity /\ Decreased(t) \in 0 .. Capacity /\ 0 \in 0 .. Capacity
    BY <1>1 DEF Increased, Decreased
  <1>3. Append(available, t) \in Seq(Tunnel) /\ Append(available, t) # <<>>
    BY AppendProperties
  <1>4. available # <<>> => Tail(available) \in Seq(Tunnel)
    BY HeadTailProperties
  <1>5. Tail(Append(available, t)) \in Seq(Tunnel)
    BY <1>3, HeadTailProperties
  <1>6. \A i \in DOMAIN available : RemoveAt(available, i) \in Seq(Tunnel)
    BY RemoveAtProperties, LenProperties
  <1> QED BY <1>2, <1>3, <1>4, <1>5, <1>6

(* The removal of a tunnel keeps the types of all it touches.                   *)
LEMMA RemoveTunnelTypes ==
  ASSUME TypeOK, NEW t \in Tunnel, RemoveTunnel(t)
  PROVE  /\ TypesOfTunnels' /\ TypesOfTables'
         /\ silentSend' \in SUBSET Pair /\ silentReceive' \in SUBSET Pair
PROOF
  <1>1. TypesOfTunnels'
    BY NewStateTypes DEF TypeOK, TypesOfTunnels, RemoveTunnel
  <1>2. counter' \in [Tunnel -> 0 .. Capacity] /\ available' \in Seq(Tunnel)
    <2>1. counter \in [Tunnel -> 0 .. Capacity] /\ available \in Seq(Tunnel)
      BY DEF TypeOK
    <2>2. RemoveCountedTunnel(t)
      BY DEF RemoveTunnel
    <2> QED BY <2>1, <2>2, CounterTypes DEF RemoveCountedTunnel
  <1>3. /\ seats' \in [Tunnel -> SUBSET PairID]
        /\ pairs' \in [Tunnel -> [PairID -> Source \cup {NoSource}]]
    BY SeatsArePairIDs DEF TypeOK, RemoveTunnel, ResetContext
  <1>4. sourceAddressMap' \in [Source -> Pair \cup {NoPair}]
    BY DEF TypeOK, RemoveTunnel
  <1>5. silentSend' \in SUBSET Pair /\ silentReceive' \in SUBSET Pair
    BY DEF TypeOK, RemoveTunnel
  <1> QED BY <1>1, <1>2, <1>3, <1>4, <1>5 DEF TypesOfTables

(* So does the choice of a tunnel, listed or new, for a pair.                   *)
LEMMA PickTunnelTypes ==
  ASSUME TypeOK, NEW t \in Tunnel, PickTunnel(t)
  PROVE  /\ TypesOfTunnels'
         /\ counter' \in [Tunnel -> 0 .. Capacity]
         /\ available' \in Seq(Tunnel)
PROOF
  <1>1. TypesOfTunnels
    BY DEF TypeOK, TypesOfTunnels
  <1>2. counter \in [Tunnel -> 0 .. Capacity] /\ available \in Seq(Tunnel)
    BY DEF TypeOK
  <1>3. CASE available # <<>> /\ GetAvailableTunnelID(available, t) /\ UNCHANGED tunnelVars
    <2>1. TypesOfTunnels'
      BY <1>1, <1>3 DEF TypesOfTunnels, tunnelVars
    <2> QED BY <1>2, <1>3, <2>1, CounterTypes DEF GetAvailableTunnelID
  <1>4. CASE NewTunnel(t) /\ GetAvailableTunnelID(Append(available, t), t)
    <2>1. TypesOfTunnels'
      BY <1>1, <1>4, NewStateTypes DEF TypesOfTunnels, NewTunnel
    <2> QED BY <1>2, <1>4, <2>1, CounterTypes DEF GetAvailableTunnelID
  <1> QED BY <1>3, <1>4 DEF PickTunnel, AddTunnel

(* The actions that move neither tunnels nor pairs: handshakes, datagrams of    *)
(* known sources, the passing of time, and what the collectors collect.         *)
TablesUnchanged == UNCHANGED <<counterVars, contextVars, tunnels, sourceAddressMap>>

(* The actions that leave counters, contexts, tunnels and map alone.            *)
LEMMA QuietActions ==
  /\ \A t \in Tunnel :
       /\ OnOpen(t) \/ RedirectFails(t) => TablesUnchanged /\ UNCHANGED loopVars
       /\ DestroyLater(t) => TablesUnchanged
       /\ \A seat \in PairID :
            OnReceive(t, seat) \/ SendTimeout(<<t, seat>>) \/ ReceiveTimeout(<<t, seat>>)
              => TablesUnchanged /\ UNCHANGED loopVars
  /\ \A src \in Source : SendOnPair(src) => TablesUnchanged /\ UNCHANGED loopVars
  /\ GcCollect \/ CleanUpUselessTunnels => TablesUnchanged
  /\ UNCHANGED vars => TablesUnchanged /\ UNCHANGED loopVars
PROOF
  BY DEF OnOpen, RedirectFails, SendOnPair, OnReceive, SendTimeout, ReceiveTimeout,
         DestroyLater, GcCollect, CleanUpUselessTunnels, vars,
         TablesUnchanged, tunnelVars, loopVars

(* What is left alone keeps its type.                                           *)
LEMMA UnchangedTableTypes == TypeOK /\ TablesUnchanged => TypesOfTables'
PROOF
  BY DEF TypeOK, TypesOfTables, TablesUnchanged, counterVars, contextVars

(* Every step keeps TypeOK, one case for each action.                           *)
LEMMA NextTypes == TypeOK /\ [Next]_vars => TypeOK'
PROOF
  <1> SUFFICES ASSUME TypeOK, [Next]_vars PROVE TypeOK'
    OBVIOUS
  <1> USE DEF TypesOfTunnels, TypesOfLoop
  <1>0. TypesOfTunnels /\ TypesOfTables /\ TypesOfLoop
    BY TypeParts
  <1>1. ASSUME NEW t \in Tunnel, OnOpen(t) PROVE TypeOK'
    <2>1. TypesOfTables'
      BY <1>1, QuietActions, UnchangedTableTypes
    <2>2. TypesOfTunnels' /\ TypesOfLoop'
      BY <1>0, <1>1, NewStateTypes DEF OnOpen, silenceVars, loopVars
    <2> QED BY <2>1, <2>2 DEF TypeOK, TypesOfTables
  <1>2. ASSUME NEW t \in Tunnel, RedirectFails(t) PROVE TypeOK'
    <2>1. TypesOfTables'
      BY <1>2, QuietActions, UnchangedTableTypes
    <2>2. TypesOfTunnels' /\ TypesOfLoop'
      BY <1>0, <1>2, NewStateTypes DEF RedirectFails, silenceVars, loopVars
    <2> QED BY <2>1, <2>2 DEF TypeOK, TypesOfTables
  <1>3. ASSUME NEW t \in Tunnel, TunnelError(t) \/ TunnelDestroyed(t) PROVE TypeOK'
    <2>1. RemoveTunnel(t) /\ UNCHANGED loopVars
      BY <1>3 DEF TunnelError, TunnelDestroyed
    <2>2. pendingToDelete' \in SUBSET Pair /\ uselessTunnels' \in SUBSET Tunnel
      BY <1>0, <2>1 DEF loopVars
    <2>3. /\ TypesOfTunnels' /\ TypesOfTables'
          /\ silentSend' \in SUBSET Pair /\ silentReceive' \in SUBSET Pair
      BY <2>1, RemoveTunnelTypes
    <2> QED BY <2>2, <2>3 DEF TypeOK, TypesOfTables
  <1>4. ASSUME NEW t \in Tunnel, DestroyNow(t) PROVE TypeOK'
    <2>1. /\ RemoveTunnel(t)
          /\ uselessTunnels' \subseteq Tunnel /\ pendingToDelete' \subseteq Pair
      BY <1>0, <1>4 DEF DestroyNow
    <2> QED BY <2>1, RemoveTunnelTypes DEF TypeOK, TypesOfTables
  <1>5. ASSUME NEW t \in Tunnel, DestroyLater(t) PROVE TypeOK'
    <2>1. TypesOfTables'
      BY <1>5, QuietActions, UnchangedTableTypes
    <2>2. TypesOfTunnels' /\ TypesOfLoop'
      BY <1>0, <1>5, NewStateTypes DEF DestroyLater, silenceVars
    <2> QED BY <2>1, <2>2 DEF TypeOK, TypesOfTables
  <1>6. ASSUME NEW src \in Source, SendOnPair(src) PROVE TypeOK'
    BY <1>0, <1>6
       DEF TypeOK, SendOnPair, TypesOfTables, counterVars, contextVars, tunnelVars, loopVars
  <1>7. ASSUME NEW src \in Source, SendOnNewPair(src) PROVE TypeOK'
    <2>0. PICK t \in Tunnel :
            \E seat \in SeatNumbers(t) \ {INVALID_PAIR_ID} :
              /\ PickTunnel(t) /\ TakeSeat(t, seat) /\ BindPair(t, seat, src)
              /\ sourceAddressMap' = [sourceAddressMap EXCEPT ![src] = <<t, seat>>]
      BY <1>7 DEF SendOnNewPair
    <2>1. PICK seat \in SeatNumbers(t) \ {INVALID_PAIR_ID} :
            /\ PickTunnel(t) /\ TakeSeat(t, seat) /\ BindPair(t, seat, src)
            /\ sourceAddressMap' = [sourceAddressMap EXCEPT ![src] = <<t, seat>>]
      BY <2>0
    <2>2. seat \in PairID
      BY <1>0, <2>1 DEF SeatNumbers, TypesOfTables
    <2>3. seats' \in [Tunnel -> SUBSET PairID]
      BY <1>0, <2>1 DEF TypesOfTables, TakeSeat
    <2>4. pairs' \in [Tunnel -> [PairID -> Source \cup {NoSource}]]
      BY <1>0, <2>1, <2>2 DEF TypesOfTables, BindPair
    <2>5. sourceAddressMap' \in [Source -> Pair \cup {NoPair}]
      BY <1>0, <2>1, <2>2 DEF TypesOfTables, Pair
    <2>6. TypesOfTunnels' /\ counter' \in [Tunnel -> 0 .. Capacity] /\ available' \in Seq(Tunnel)
      BY <2>1, PickTunnelTypes
    <2>7. TypesOfLoop'
      BY <1>0, <1>7 DEF SendOnNewPair, silenceVars, loopVars
    <2> QED BY <2>3, <2>4, <2>5, <2>6, <2>7 DEF TypeOK, TypesOfTables
  <1>8. ASSUME NEW src \in Source, SendWithoutSeat(src) PROVE TypeOK'
    <2>1. PICK t \in Tunnel : PickTunnel(t) /\ TakeSeat(t, INVALID_PAIR_ID)
      BY <1>8 DEF SendWithoutSeat
    <2>2. seats' \in [Tunnel -> SUBSET PairID]
      BY <1>0, <2>1 DEF TypesOfTables, TakeSeat
    <2>3. TypesOfTunnels' /\ counter' \in [Tunnel -> 0 .. Capacity] /\ available' \in Seq(Tunnel)
      BY <2>1, PickTunnelTypes
    <2>4. /\ pairs' = pairs /\ sourceAddressMap' = sourceAddressMap
          /\ TypesOfLoop'
      BY <1>0, <1>8 DEF SendWithoutSeat, silenceVars, loopVars
    <2> QED BY <1>0, <2>2, <2>3, <2>4 DEF TypeOK, TypesOfTables
  <1>9. ASSUME NEW t \in Tunnel, NEW seat \in PairID,
               OnReceive(t, seat) \/ SendTimeout(<<t, seat>>) \/ ReceiveTimeout(<<t, seat>>)
        PROVE  TypeOK'
    <2>1. <<t, seat>> \in Pair
      BY DEF Pair
    <2> QED BY <1>0, <1>9, <2>1
            DEF TypeOK, OnReceive, SendTimeout, ReceiveTimeout, TypesOfTables,
                counterVars, contextVars, tunnelVars, loopVars
  <1>10. ASSUME NEW t \in Tunnel, NEW seat \in PairID, GcClosePair(t, seat) PROVE TypeOK'
    <2>1. counter' \in [Tunnel -> 0 .. Capacity] /\ available' \in Seq(Tunnel)
      <3>1. counter \in [Tunnel -> 0 .. Capacity] /\ available \in Seq(Tunnel)
        BY <1>0 DEF TypesOfTables
      <3>2. DecreaseCounter(t)
        BY <1>10 DEF GcClosePair, ClosePair
      <3> QED BY <3>1, <3>2, CounterTypes DEF DecreaseCounter
    <2>2. /\ seats' \in [Tunnel -> SUBSET PairID]
          /\ pairs' \in [Tunnel -> [PairID -> Source \cup {NoSource}]]
      BY <1>0, <1>10 DEF GcClosePair, ClosePair, UnbindPair, TypesOfTables
    <2>3. sourceAddressMap' \in [Source -> Pair \cup {NoPair}]
      BY <1>0, <1>10 DEF GcClosePair, ClosePair, TypesOfTables
    <2>4. TypesOfTunnels' /\ TypesOfLoop'
      BY <1>0, <1>10 DEF GcClosePair, ClosePair, tunnelVars
    <2> QED BY <2>1, <2>2, <2>3, <2>4 DEF TypeOK, TypesOfTables
  <1>11. CASE GcCollect
    <2>1. pendingToDelete' \subseteq Pair
      BY <1>11 DEF GcCollect, OpenPairs
    <2> QED BY <1>0, <1>11, <2>1
            DEF TypeOK, GcCollect, TypesOfTables, counterVars, contextVars, tunnelVars, silenceVars
  <1>12. CASE CleanUpUselessTunnels
    <2>1. uselessTunnels' \subseteq Tunnel
      BY <1>0, <1>12 DEF CleanUpUselessTunnels
    <2> QED BY <1>0, <1>12, <2>1
            DEF TypeOK, CleanUpUselessTunnels, TypesOfTables, counterVars, contextVars, tunnelVars,
                silenceVars
  <1>13. CASE UNCHANGED vars
    BY <1>0, <1>13
       DEF TypeOK, vars, TypesOfTables, counterVars, contextVars, tunnelVars, silenceVars, loopVars
  <1> QED BY <1>1, <1>2, <1>3, <1>4, <1>5, <1>6, <1>7, <1>8, <1>9, <1>10, <1>11, <1>12, <1>13
          DEF Next

(* Type correctness, for every capacity up to the number of PairID values, even *)
(* with INVALID_PAIR_ID in the pool.                                            *)
THEOREM ClientTypes == Spec => []TypeOK
PROOF
  <1> QED BY InitTypes, NextTypes, PTL DEF Spec

--------------------------------------------------------------------------------
(* The accounts                                                                 *)

(* A capacity that leaves INVALID_PAIR_ID out of every tunnel's pool.           *)
ProperCapacity == Capacity \in 1 .. (PairIdCount - 1)

(* A tunnel that does not exist has no pairs and all its seats: this is what    *)
(* lets a new tunnel start with the accounts in balance.                        *)
AbsentTunnelsAreEmpty ==
  \A t \in Tunnel \ tunnels :
    /\ seats[t] = InitialSeats
    /\ \A s \in PairID : pairs[t][s] = NoSource

(* SeatsPartition as far as it is true of every capacity: a seat is free or     *)
(* used and never both, INVALID_PAIR_ID is never used, and it is the one seat   *)
(* that createPair may have lost.                                               *)
PoolBalance ==
  \A t \in Tunnel :
    /\ seats[t] \cap UsedSeats(t) = {}
    /\ seats[t] \cup UsedSeats(t) \subseteq InitialSeats
    /\ InitialSeats \subseteq seats[t] \cup UsedSeats(t) \cup {INVALID_PAIR_ID}
    /\ INVALID_PAIR_ID \notin UsedSeats(t)

(* The counter counts what has left the pool, the lost seat included.           *)
CountBalance == \A t \in Tunnel : counter[t] + Cardinality(seats[t]) = Capacity

Accounts ==
  /\ tunnels \in SUBSET Tunnel
  /\ TypesOfTables
  /\ PoolBalance
  /\ CountBalance
  /\ Capacity > 0 => AvailableIffRoom
  /\ MapAgreesWithPairs
  /\ AbsentTunnelsAreEmpty

Roomy == {t \in tunnels : counter[t] < Capacity}

(* AvailableIffRoom in the form in which the list lemmas above speak.           *)
LEMMA AvailableListsRoomy ==
  ASSUME available \in Seq(Tunnel), tunnels \in SUBSET Tunnel
  PROVE  AvailableIffRoom <=> Lists(available, Roomy)
PROOF
  <1>1. DOMAIN available = 1 .. Len(available)
    BY LenProperties
  <1> QED BY <1>1 DEF AvailableIffRoom, Lists, Roomy

(* The pool starts with Capacity seats, the last of them INVALID_PAIR_ID when   *)
(* Capacity is the number of PairID values.                                     *)
LEMMA InitialSeatCount ==
  /\ IsFiniteSet(InitialSeats) /\ Cardinality(InitialSeats) = Capacity
  /\ InitialSeats \subseteq PairID
  /\ InitialSeats # {} => Capacity > 0
  /\ ProperCapacity => INVALID_PAIR_ID \notin InitialSeats
PROOF
  <1>1. PairIdCount \in Nat /\ PairIdCount > 0 /\ Capacity \in Nat /\ Capacity <= PairIdCount
    BY CapacityAssumption
  <1>2. CASE Capacity < PairIdCount
    <2>1. \A i \in 1 .. Capacity : i % PairIdCount = i
      BY <1>1, <1>2
    <2>2. InitialSeats = 1 .. Capacity
      BY <2>1 DEF InitialSeats
    <2>3. /\ IsFiniteSet(1 .. Capacity)
          /\ Cardinality(1 .. Capacity) = IF 1 > Capacity THEN 0 ELSE Capacity - 1 + 1
      BY <1>1, FS_Interval
    <2>4. Cardinality(InitialSeats) = Capacity
      BY <1>1, <2>2, <2>3
    <2> QED BY <1>1, <2>2, <2>3, <2>4, SeatsArePairIDs DEF INVALID_PAIR_ID
  <1>3. CASE Capacity = PairIdCount
    <2>1. \A i \in 1 .. (Capacity - 1) : i % PairIdCount = i
      BY <1>1, <1>3
    <2>2. PairIdCount % PairIdCount = 0
      BY <1>1
    <2>3. InitialSeats = 0 .. (Capacity - 1)
      <3>1. ASSUME NEW i \in 1 .. Capacity PROVE i % PairIdCount \in 0 .. (Capacity - 1)
        BY <1>1, <1>3
      <3>2. ASSUME NEW j \in 0 .. (Capacity - 1)
            PROVE  \E i \in 1 .. Capacity : j = i % PairIdCount
        <4>1. CASE j = 0
          BY <1>1, <1>3, <2>2, <4>1
        <4>2. CASE j # 0
          <5>1. j \in 1 .. (Capacity - 1) /\ j \in 1 .. Capacity
            BY <1>1, <4>2
          <5> QED BY <2>1, <5>1
        <4> QED BY <4>1, <4>2
      <3> QED BY <3>1, <3>2 DEF InitialSeats
    <2>4. /\ IsFiniteSet(0 .. (Capacity - 1))
          /\ Cardinality(0 .. (Capacity - 1)) =
               IF 0 > Capacity - 1 THEN 0 ELSE (Capacity - 1) - 0 + 1
      BY <1>1, FS_Interval
    <2>5. Cardinality(InitialSeats) = Capacity /\ Capacity > 0
      BY <1>1, <1>3, <2>3, <2>4
    <2>6. ~ProperCapacity
      BY <1>1, <1>3 DEF ProperCapacity
    <2> QED BY <2>3, <2>4, <2>5, <2>6, SeatsArePairIDs
  <1> QED BY <1>1, <1>2, <1>3

(* What the balances say in numbers: the counter is the number of pairs, or one *)
(* more than that, and never more than that with a proper capacity.             *)
LEMMA SeatCounts ==
  ASSUME PoolBalance, CountBalance, counter \in [Tunnel -> 0 .. Capacity], NEW t \in Tunnel
  PROVE  /\ IsFiniteSet(UsedSeats(t)) /\ Cardinality(UsedSeats(t)) \in Nat
         /\ IsFiniteSet(seats[t]) /\ Cardinality(seats[t]) \in Nat
         /\ counter[t] + Cardinality(seats[t]) = Capacity
         /\ Cardinality(UsedSeats(t)) <= counter[t]
         /\ counter[t] <= Cardinality(UsedSeats(t)) + 1
         /\ ProperCapacity => /\ counter[t] = Cardinality(UsedSeats(t))
                              /\ seats[t] \cup UsedSeats(t) = InitialSeats
         /\ Cardinality(seats[t]) = 0 <=> seats[t] = {}
         /\ Cardinality(UsedSeats(t)) = 0 <=> UsedSeats(t) = {}
PROOF
  <1> DEFINE used == UsedSeats(t)
             free == seats[t]
             all == InitialSeats
             lost == {INVALID_PAIR_ID}
  <1>1. /\ free \cap used = {} /\ free \cup used \subseteq all
        /\ all \subseteq (free \cup used) \cup lost
        /\ IsFiniteSet(all) /\ Cardinality(all) = Capacity
        /\ Capacity \in Nat /\ counter[t] \in Nat
        /\ counter[t] + Cardinality(free) = Capacity
        /\ IsFiniteSet(lost) /\ Cardinality(lost) = 1
        /\ ProperCapacity => free \cup used = all
    <2>1. ProperCapacity => InitialSeats \cap {INVALID_PAIR_ID} = {}
      BY InitialSeatCount
    <2>2. IsFiniteSet(lost) /\ Cardinality(lost) = 1
      BY FS_Singleton
    <2>3. Capacity \in Nat /\ counter[t] \in Nat
      BY CapacityAssumption
    <2> QED BY <2>1, <2>2, <2>3, InitialSeatCount DEF PoolBalance, CountBalance
  <1> HIDE DEF used, free, all, lost
  <1>2. IsFiniteSet(used) /\ IsFiniteSet(free) /\ IsFiniteSet(free \cup used)
    <2>1. used \subseteq all /\ free \subseteq all
      BY <1>1
    <2> QED BY <1>1, <2>1, FS_Subset
  <1>3. /\ Cardinality(used) \in Nat /\ Cardinality(free) \in Nat
        /\ Cardinality(used) = 0 <=> used = {}
        /\ Cardinality(free) = 0 <=> free = {}
    BY <1>2, FS_CardinalityType, FS_EmptySet
  <1>4. Cardinality(free \cup used) = Cardinality(free) + Cardinality(used)
    <2>1. Cardinality(free \cup used)
            = Cardinality(free) + Cardinality(used) - Cardinality(free \cap used)
      BY <1>2, FS_Union
    <2>2. Cardinality(free \cap used) = 0
      BY <1>1, FS_EmptySet
    <2> QED BY <1>3, <2>1, <2>2
  <1>5. Cardinality(free \cup used) <= Capacity
    BY <1>1, FS_Subset
  <1>6. Capacity <= Cardinality(free \cup used) + 1
    <2> DEFINE most == (free \cup used) \cup lost
    <2>1. /\ IsFiniteSet(most)
          /\ Cardinality(most) = Cardinality(free \cup used) + Cardinality(lost)
                                   - Cardinality((free \cup used) \cap lost)
      BY <1>1, <1>2, FS_Union
    <2>2. Cardinality((free \cup used) \cap lost) \in Nat
      <3>1. IsFiniteSet((free \cup used) \cap lost)
        BY <1>1, FS_Intersection
      <3> QED BY <3>1, FS_CardinalityType
    <2>3. Cardinality(all) <= Cardinality(most)
      BY <1>1, <2>1, FS_Subset
    <2>4. Cardinality(free \cup used) \in Nat
      BY <1>2, FS_CardinalityType
    <2> HIDE DEF most
    <2> QED BY <1>1, <2>1, <2>2, <2>3, <2>4
  <1>7. ProperCapacity => Cardinality(free \cup used) = Capacity
    BY <1>1
  <1>8. /\ Cardinality(used) <= counter[t]
        /\ counter[t] <= Cardinality(used) + 1
        /\ ProperCapacity => counter[t] = Cardinality(used)
    BY <1>1, <1>3, <1>4, <1>5, <1>6, <1>7
  <1> QED BY <1>1, <1>2, <1>3, <1>8 DEF used, free, all

(* A tunnel is full by the counter's account when it is by the context's.       *)
LEMMA RoomMeansSeats ==
  ASSUME Accounts, NEW t \in Tunnel
  PROVE  /\ counter[t] < Capacity <=> seats[t] # {}
         /\ UsedSeats(t) # {} => counter[t] > 0
         /\ counter[t] \in 0 .. Capacity
         /\ seats[t] # {} => Capacity > 0
         /\ t \notin tunnels => counter[t] = 0
PROOF
  <1>1. Capacity \in Nat /\ counter \in [Tunnel -> 0 .. Capacity] /\ counter[t] \in 0 .. Capacity
    BY CapacityAssumption DEF Accounts, TypesOfTables
  <1>2. /\ Cardinality(UsedSeats(t)) \in Nat /\ Cardinality(UsedSeats(t)) <= counter[t]
        /\ Cardinality(seats[t]) \in Nat /\ counter[t] + Cardinality(seats[t]) = Capacity
        /\ Cardinality(seats[t]) = 0 <=> seats[t] = {}
        /\ Cardinality(UsedSeats(t)) = 0 <=> UsedSeats(t) = {}
    BY <1>1, SeatCounts DEF Accounts
  <1>3. t \notin tunnels => counter[t] = 0
    <2>1. t \notin tunnels => Cardinality(seats[t]) = Capacity
      BY InitialSeatCount DEF Accounts, AbsentTunnelsAreEmpty
    <2> QED BY <1>1, <1>2, <2>1
  <1> QED BY <1>1, <1>2, <1>3

(* The tunnel that createPair gets has room, is counted one pair more, and is   *)
(* listed afterwards just if it still has room.                                 *)
LEMMA PickedTunnelHasRoom ==
  ASSUME Capacity > 0, Accounts, NEW t \in Tunnel, PickTunnel(t)
  PROVE  /\ tunnels' = tunnels \cup {t}
         /\ counter[t] < Capacity
         /\ counter' = [counter EXCEPT ![t] = counter[t] + 1]
         /\ available' \in Seq(Tunnel)
         /\ AvailableIffRoom'
PROOF
  <1>1. /\ counter \in [Tunnel -> 0 .. Capacity] /\ available \in Seq(Tunnel)
        /\ tunnels \in SUBSET Tunnel /\ Capacity \in Nat
        /\ counter[t] \in 0 .. Capacity
    BY CapacityAssumption DEF Accounts, TypesOfTables
  <1>2. Lists(available, Roomy)
    BY <1>1, AvailableListsRoomy DEF Accounts
  <1>3. ASSUME NEW list, NEW roomy, Lists(list, roomy), roomy \subseteq Tunnel,
               t \in roomy, GetAvailableTunnelID(list, t), counter[t] < Capacity,
               tunnels' = tunnels \cup {t}, roomy = Roomy \cup {t}
        PROVE  /\ counter' = [counter EXCEPT ![t] = counter[t] + 1]
               /\ available' \in Seq(Tunnel)
               /\ AvailableIffRoom'
    <2>1. /\ list # <<>> /\ t = Head(list)
          /\ counter' = [counter EXCEPT ![t] = Increased(t)]
          /\ available' = IF Increased(t) >= Capacity THEN Tail(list) ELSE list
      BY <1>3 DEF GetAvailableTunnelID
    <2>2. Increased(t) = counter[t] + 1
      BY <1>3 DEF Increased
    <2>3. /\ counter'[t] = counter[t] + 1
          /\ \A u \in Tunnel : u # t => counter'[u] = counter[u]
      BY <1>1, <2>1, <2>2
    <2>4. \A u \in Tunnel : u # t => (u \in Roomy' <=> u \in roomy)
      BY <1>1, <1>3, <2>3 DEF Roomy
    <2>5. t \in Roomy' <=> counter[t] + 1 < Capacity
      BY <1>3, <2>3 DEF Roomy
    <2>6. Roomy' \subseteq Tunnel /\ tunnels' \in SUBSET Tunnel
      BY <1>1, <1>3 DEF Roomy
    <2>7. CASE counter[t] + 1 >= Capacity
      <3>1. ~(counter[t] + 1 < Capacity)
        BY <1>1, <2>7
      <3>2. Roomy' = roomy \ {t}
        BY <1>3, <2>4, <2>5, <2>6, <3>1
      <3>3. available' = Tail(list)
        BY <2>1, <2>2, <2>7
      <3>4. Lists(Tail(list), roomy \ {Head(list)})
        BY <1>3, <2>1, TailOfList
      <3>5. Lists(available', Roomy')
        BY <2>1, <3>2, <3>3, <3>4
      <3>6. available' \in Seq(Tunnel)
        BY <3>5 DEF Lists
      <3>7. DOMAIN available' = 1 .. Len(available')
        BY <3>6, LenProperties
      <3>8. AvailableIffRoom'
        BY <3>5, <3>7 DEF AvailableIffRoom, Lists, Roomy
      <3> QED BY <2>1, <2>2, <3>6, <3>8
    <2>8. CASE ~(counter[t] + 1 >= Capacity)
      <3>1. counter[t] + 1 < Capacity
        BY <1>1, <2>8
      <3>2. Roomy' = roomy
        BY <1>3, <2>4, <2>5, <2>6, <3>1
      <3>3. available' = list
        BY <2>1, <2>2, <2>8
      <3>4. Lists(available', Roomy')
        BY <1>3, <3>2, <3>3
      <3>5. available' \in Seq(Tunnel)
        BY <3>4 DEF Lists
      <3>6. DOMAIN available' = 1 .. Len(available')
        BY <3>5, LenProperties
      <3>7. AvailableIffRoom'
        BY <3>4, <3>6 DEF AvailableIffRoom, Lists, Roomy
      <3> QED BY <2>1, <2>2, <3>5, <3>7
    <2> QED BY <2>1, <2>2, <2>7, <2>8
  <1>4. CASE available # <<>> /\ GetAvailableTunnelID(available, t) /\ UNCHANGED tunnelVars
    <2>1. t = Head(available) /\ t \in Roomy
      BY <1>2, <1>4, TailOfList DEF GetAvailableTunnelID
    <2>2. counter[t] < Capacity /\ t \in tunnels
      BY <2>1 DEF Roomy
    <2>3. tunnels' = tunnels \cup {t}
      BY <1>4, <2>2 DEF tunnelVars
    <2>4. Roomy \subseteq Tunnel /\ Roomy = Roomy \cup {t}
      BY <1>1, <2>1 DEF Roomy
    <2> QED BY <1>2, <1>3, <1>4, <2>1, <2>2, <2>3, <2>4
  <1>5. CASE available = <<>> /\ NewTunnel(t) /\ GetAvailableTunnelID(Append(available, t), t)
    <2>1. t \notin tunnels /\ tunnels' = tunnels \cup {t}
      BY <1>5 DEF NewTunnel
    <2>2. counter[t] = 0 /\ counter[t] < Capacity
      BY <1>1, <2>1, RoomMeansSeats
    <2>3. t \notin Roomy /\ Roomy \cup {t} \subseteq Tunnel
      BY <1>1, <2>1 DEF Roomy
    <2>4. Lists(Append(available, t), Roomy \cup {t})
      BY <1>2, <2>3, AppendToList
    <2> QED BY <1>3, <1>5, <2>1, <2>2, <2>3, <2>4
  <1> QED BY <1>4, <1>5 DEF PickTunnel, AddTunnel

(* An action that leaves the tables alone keeps the accounts.                   *)
LEMMA QuietKeepsAccounts == Accounts /\ TablesUnchanged => Accounts'
PROOF
  <1> SUFFICES ASSUME Accounts, TablesUnchanged PROVE Accounts'
    OBVIOUS
  <1>1. /\ counter' = counter /\ available' = available
        /\ seats' = seats /\ pairs' = pairs
        /\ tunnels' = tunnels /\ sourceAddressMap' = sourceAddressMap
    BY DEF TablesUnchanged, counterVars, contextVars
  <1>2. TypesOfTables' /\ tunnels' \in SUBSET Tunnel
    BY <1>1 DEF Accounts, TypesOfTables
  <1>3. PoolBalance' /\ CountBalance' /\ AbsentTunnelsAreEmpty'
    BY <1>1 DEF Accounts, PoolBalance, CountBalance, UsedSeats, AbsentTunnelsAreEmpty, InitialSeats
  <1>4. (Capacity > 0 => AvailableIffRoom') /\ MapAgreesWithPairs'
    BY <1>1 DEF Accounts, AvailableIffRoom, MapAgreesWithPairs, OpenPairs
  <1> QED BY <1>2, <1>3, <1>4 DEF Accounts

(* createPair: a new pair on a free seat, for a source without one.             *)
LEMMA NewPairKeepsAccounts ==
  ASSUME Accounts, TypesOfTables',
         NEW src \in Source, NEW t \in Tunnel, NEW seat \in SeatNumbers(t),
         sourceAddressMap[src] = NoPair, seat # INVALID_PAIR_ID,
         PickTunnel(t), TakeSeat(t, seat), BindPair(t, seat, src),
         sourceAddressMap' = [sourceAddressMap EXCEPT ![src] = <<t, seat>>]
  PROVE  Accounts'
PROOF
  <1>1. /\ counter[t] < Capacity /\ counter' = [counter EXCEPT ![t] = counter[t] + 1]
        /\ tunnels' = tunnels \cup {t} /\ AvailableIffRoom'
    <2>1. Capacity > 0
      BY RoomMeansSeats DEF SeatNumbers
    <2> QED BY <2>1, PickedTunnelHasRoom
  <1>2. /\ seats \in [Tunnel -> SUBSET PairID]
        /\ pairs \in [Tunnel -> [PairID -> Source \cup {NoSource}]]
        /\ sourceAddressMap \in [Source -> Pair \cup {NoPair}]
        /\ counter \in [Tunnel -> 0 .. Capacity]
        /\ tunnels \in SUBSET Tunnel
        /\ NoSource \notin Source /\ NoPair \notin Pair
    BY NoSourceAssumption, NoPairAssumption DEF Accounts, TypesOfTables, Pair
  <1>3. seat \in seats[t] /\ seat \in PairID /\ <<t, seat>> \in Pair
    BY <1>1, <1>2, RoomMeansSeats DEF SeatNumbers, Pair
  <1>4. seat \notin UsedSeats(t) /\ pairs[t][seat] = NoSource
    BY <1>3 DEF Accounts, PoolBalance, UsedSeats
  <1>5. /\ \A u \in Tunnel : u # t => seats'[u] = seats[u] /\ pairs'[u] = pairs[u]
        /\ seats'[t] = seats[t] \ {seat}
        /\ pairs'[t][seat] = src
        /\ \A s \in PairID : s # seat => pairs'[t][s] = pairs[t][s]
    BY <1>2, <1>3 DEF TakeSeat, BindPair
  <1>6. /\ UsedSeats(t)' = UsedSeats(t) \cup {seat}
        /\ \A u \in Tunnel : u # t => UsedSeats(u)' = UsedSeats(u)
    BY <1>2, <1>3, <1>4, <1>5 DEF UsedSeats
  <1>7. PoolBalance'
    <2> SUFFICES ASSUME NEW u \in Tunnel
                 PROVE  /\ seats'[u] \cap UsedSeats(u)' = {}
                        /\ seats'[u] \cup UsedSeats(u)' \subseteq InitialSeats
                        /\ InitialSeats \subseteq seats'[u] \cup UsedSeats(u)' \cup {INVALID_PAIR_ID}
                        /\ INVALID_PAIR_ID \notin UsedSeats(u)'
      BY DEF PoolBalance, InitialSeats, INVALID_PAIR_ID
    <2>1. CASE u = t
      BY <1>3, <1>5, <1>6, <2>1 DEF Accounts, PoolBalance
    <2>2. CASE u # t
      BY <1>5, <1>6, <2>2 DEF Accounts, PoolBalance
    <2> QED BY <2>1, <2>2
  <1>8. CountBalance'
    <2> SUFFICES ASSUME NEW u \in Tunnel
                 PROVE  counter'[u] + Cardinality(seats'[u]) = Capacity
      BY DEF CountBalance
    <2>1. /\ counter[u] \in Nat /\ IsFiniteSet(seats[u]) /\ Cardinality(seats[u]) \in Nat
          /\ counter[u] + Cardinality(seats[u]) = Capacity
      BY <1>2, CapacityAssumption, SeatCounts DEF Accounts
    <2>2. CASE u = t
      <3>1. Cardinality(seats'[t]) = Cardinality(seats[t]) - 1
        <4>1. Cardinality(seats[t] \ {seat}) = Cardinality(seats[t]) - 1
          BY <1>3, <2>1, <2>2, FS_RemoveElement
        <4> QED BY <1>5, <4>1
      <3>2. counter'[t] = counter[t] + 1
        BY <1>1, <1>2
      <3> QED BY <2>1, <2>2, <3>1, <3>2
    <2>3. CASE u # t
      BY <1>1, <1>2, <1>5, <2>1, <2>3
    <2> QED BY <2>2, <2>3
  <1>9. MapAgreesWithPairs'
    <2>1. ASSUME NEW other \in Source, sourceAddressMap'[other] # NoPair
          PROVE  /\ sourceAddressMap'[other] \in OpenPairs'
                 /\ pairs'[sourceAddressMap'[other][1]][sourceAddressMap'[other][2]] = other
      <3>1. CASE other = src
        <4>1. sourceAddressMap'[other] = <<t, seat>>
          BY <1>2, <3>1
        <4> QED BY <1>1, <1>2, <1>3, <1>5, <3>1, <4>1 DEF OpenPairs
      <3>2. CASE other # src
        <4> DEFINE p == sourceAddressMap[other]
        <4>1. sourceAddressMap'[other] = p /\ p # NoPair
          BY <1>2, <2>1, <3>2
        <4>2. p \in OpenPairs /\ pairs[p[1]][p[2]] = other
          BY <4>1 DEF Accounts, MapAgreesWithPairs
        <4>3. p \in Pair /\ p[1] \in tunnels /\ p[1] \in Tunnel /\ p[2] \in PairID
          BY <4>2 DEF OpenPairs, Pair
        <4>4. pairs'[p[1]][p[2]] = pairs[p[1]][p[2]]
          <5>1. ~(p[1] = t /\ p[2] = seat)
            BY <1>2, <1>4, <4>2
          <5> QED BY <1>5, <4>3, <5>1
        <4> QED BY <1>1, <1>2, <4>1, <4>2, <4>3, <4>4 DEF OpenPairs
      <3> QED BY <3>1, <3>2
    <2>2. ASSUME NEW u \in Tunnel, NEW s \in PairID, pairs'[u][s] # NoSource
          PROVE  sourceAddressMap'[pairs'[u][s]] = <<u, s>>
      <3>1. CASE u = t /\ s = seat
        BY <1>2, <1>5, <3>1
      <3>2. CASE ~(u = t /\ s = seat)
        <4>1. pairs'[u][s] = pairs[u][s]
          BY <1>5, <3>2
        <4>2. sourceAddressMap[pairs[u][s]] = <<u, s>> /\ pairs[u][s] \in Source
          BY <1>2, <2>2, <4>1 DEF Accounts, MapAgreesWithPairs
        <4>3. pairs[u][s] # src
          BY <1>2, <4>2 DEF Pair
        <4> QED BY <1>2, <4>1, <4>2, <4>3
      <3> QED BY <3>1, <3>2
    <2> QED BY <2>1, <2>2 DEF MapAgreesWithPairs
  <1>10. AbsentTunnelsAreEmpty' /\ tunnels' \in SUBSET Tunnel
    BY <1>1, <1>2, <1>5 DEF Accounts, AbsentTunnelsAreEmpty
  <1> QED BY <1>1, <1>7, <1>8, <1>9, <1>10 DEF Accounts

(* createPair without a pair: either the pool gives out INVALID_PAIR_ID, which   *)
(* is then lost and counted, or there is no room for any pair and the counter   *)
(* stays at its limit 0.                                                        *)
LEMMA WithoutSeatKeepsAccounts ==
  ASSUME Accounts, TypesOfTables', NEW t \in Tunnel,
         INVALID_PAIR_ID \in SeatNumbers(t), PickTunnel(t),
         TakeSeat(t, INVALID_PAIR_ID), UNCHANGED <<pairs, sourceAddressMap>>
  PROVE  Accounts'
PROOF
  <1>1. /\ seats \in [Tunnel -> SUBSET PairID] /\ counter \in [Tunnel -> 0 .. Capacity]
        /\ tunnels \in SUBSET Tunnel /\ Capacity \in Nat
        /\ pairs' = pairs /\ sourceAddressMap' = sourceAddressMap
    BY CapacityAssumption DEF Accounts, TypesOfTables
  <1>2. tunnels' = tunnels \/ tunnels' = tunnels \cup {t}
    BY DEF PickTunnel, NewTunnel, tunnelVars
  <1>3. /\ \A u \in Tunnel : u # t => seats'[u] = seats[u]
        /\ seats'[t] = seats[t] \ {INVALID_PAIR_ID}
        /\ \A u \in Tunnel : UsedSeats(u)' = UsedSeats(u)
    BY <1>1 DEF TakeSeat, UsedSeats
  <1>4. PoolBalance'
    <2> SUFFICES ASSUME NEW u \in Tunnel
                 PROVE  /\ seats'[u] \cap UsedSeats(u)' = {}
                        /\ seats'[u] \cup UsedSeats(u)' \subseteq InitialSeats
                        /\ InitialSeats \subseteq seats'[u] \cup UsedSeats(u)' \cup {INVALID_PAIR_ID}
                        /\ INVALID_PAIR_ID \notin UsedSeats(u)'
      BY DEF PoolBalance, InitialSeats, INVALID_PAIR_ID
    <2>1. CASE u = t
      BY <1>3, <2>1 DEF Accounts, PoolBalance
    <2>2. CASE u # t
      BY <1>3, <2>2 DEF Accounts, PoolBalance
    <2> QED BY <2>1, <2>2
  <1>5. MapAgreesWithPairs' /\ tunnels' \in SUBSET Tunnel
    <2>1. OpenPairs \subseteq OpenPairs'
      BY <1>1, <1>2 DEF OpenPairs
    <2> QED BY <1>1, <1>2, <2>1 DEF Accounts, MapAgreesWithPairs
  <1>6. CASE Capacity > 0
    <2>1. /\ counter[t] < Capacity /\ counter' = [counter EXCEPT ![t] = counter[t] + 1]
          /\ tunnels' = tunnels \cup {t} /\ AvailableIffRoom'
      BY <1>6, PickedTunnelHasRoom
    <2>2. INVALID_PAIR_ID \in seats[t]
      BY <2>1, RoomMeansSeats DEF SeatNumbers
    <2>3. CountBalance'
      <3> SUFFICES ASSUME NEW u \in Tunnel
                   PROVE  counter'[u] + Cardinality(seats'[u]) = Capacity
        BY DEF CountBalance
      <3>1. /\ counter[u] \in Nat /\ IsFiniteSet(seats[u]) /\ Cardinality(seats[u]) \in Nat
            /\ counter[u] + Cardinality(seats[u]) = Capacity
        BY <1>1, SeatCounts DEF Accounts
      <3>2. CASE u = t
        <4>1. Cardinality(seats'[t]) = Cardinality(seats[t]) - 1
          <5>1. Cardinality(seats[t] \ {INVALID_PAIR_ID}) = Cardinality(seats[t]) - 1
            BY <2>2, <3>1, <3>2, FS_RemoveElement
          <5> QED BY <1>3, <5>1
        <4>2. counter'[t] = counter[t] + 1
          BY <1>1, <2>1
        <4> QED BY <3>1, <3>2, <4>1, <4>2
      <3>3. CASE u # t
        BY <1>1, <1>3, <2>1, <3>1, <3>3
      <3> QED BY <3>2, <3>3
    <2>4. AbsentTunnelsAreEmpty'
      BY <1>1, <1>3, <2>1 DEF Accounts, AbsentTunnelsAreEmpty, InitialSeats
    <2> QED BY <1>4, <1>5, <2>1, <2>3, <2>4 DEF Accounts
  <1>7. CASE ~(Capacity > 0)
    <2>1. \A u \in Tunnel : seats[u] = {} /\ seats'[u] = seats[u]
      BY <1>3, <1>7, RoomMeansSeats
    <2>2. \A u \in Tunnel : counter'[u] = counter[u]
      <3>1. counter' = [counter EXCEPT ![t] = Increased(t)]
        BY DEF PickTunnel, GetAvailableTunnelID
      <3>2. Increased(t) = counter[t]
        BY <1>1, <1>7 DEF Increased
      <3> QED BY <1>1, <3>1, <3>2
    <2>3. CountBalance'
      BY <2>1, <2>2 DEF Accounts, CountBalance
    <2>4. AbsentTunnelsAreEmpty'
      BY <1>1, <1>2, <2>1 DEF Accounts, AbsentTunnelsAreEmpty, InitialSeats
    <2> QED BY <1>4, <1>5, <1>7, <2>3, <2>4 DEF Accounts
  <1> QED BY <1>6, <1>7

(* The close of one pair: the room it leaves is listed once.                    *)
LEMMA ClosePairKeepsAccounts ==
  ASSUME Accounts, TypesOfTables', tunnels' = tunnels,
         NEW t \in tunnels, NEW seat \in PairID,
         pairs[t][seat] # NoSource, ClosePair(t, seat)
  PROVE  Accounts'
PROOF
  <1> DEFINE src == pairs[t][seat]
  <1>1. /\ seats \in [Tunnel -> SUBSET PairID]
        /\ pairs \in [Tunnel -> [PairID -> Source \cup {NoSource}]]
        /\ sourceAddressMap \in [Source -> Pair \cup {NoPair}]
        /\ counter \in [Tunnel -> 0 .. Capacity]
        /\ available \in Seq(Tunnel)
        /\ tunnels \in SUBSET Tunnel /\ t \in Tunnel
        /\ NoSource \notin Source /\ NoPair \notin Pair
        /\ Capacity \in Nat
    BY NoSourceAssumption, NoPairAssumption, CapacityAssumption DEF Accounts, TypesOfTables, Pair
  <1>2. src \in Source /\ sourceAddressMap[src] = <<t, seat>> /\ <<t, seat>> \in Pair
    BY <1>1 DEF Accounts, MapAgreesWithPairs, Pair
  <1>3. /\ \A u \in Tunnel : u # t => seats'[u] = seats[u] /\ pairs'[u] = pairs[u]
        /\ seats'[t] = seats[t] \cup {seat}
        /\ pairs'[t][seat] = NoSource
        /\ \A s \in PairID : s # seat => pairs'[t][s] = pairs[t][s]
    BY <1>1 DEF ClosePair, UnbindPair
  <1>4. /\ UsedSeats(t)' = UsedSeats(t) \ {seat}
        /\ seat \in UsedSeats(t)
        /\ \A u \in Tunnel : u # t => UsedSeats(u)' = UsedSeats(u)
    BY <1>1, <1>3 DEF UsedSeats
  <1>5. PoolBalance'
    <2> SUFFICES ASSUME NEW u \in Tunnel
                 PROVE  /\ seats'[u] \cap UsedSeats(u)' = {}
                        /\ seats'[u] \cup UsedSeats(u)' \subseteq InitialSeats
                        /\ InitialSeats \subseteq seats'[u] \cup UsedSeats(u)' \cup {INVALID_PAIR_ID}
                        /\ INVALID_PAIR_ID \notin UsedSeats(u)'
      BY DEF PoolBalance, InitialSeats, INVALID_PAIR_ID
    <2>1. CASE u = t
      BY <1>3, <1>4, <2>1 DEF Accounts, PoolBalance
    <2>2. CASE u # t
      BY <1>3, <1>4, <2>2 DEF Accounts, PoolBalance
    <2> QED BY <2>1, <2>2
  <1>6. /\ counter[t] > 0 /\ counter[t] \in 0 .. Capacity
        /\ counter' = [counter EXCEPT ![t] = counter[t] - 1]
    <2>1. counter[t] > 0 /\ counter[t] \in 0 .. Capacity
      BY <1>1, <1>4, RoomMeansSeats
    <2>2. Decreased(t) = counter[t] - 1
      BY <1>1, <2>1 DEF Decreased
    <2> QED BY <1>1, <2>1, <2>2 DEF ClosePair, DecreaseCounter
  <1>7. CountBalance'
    <2> SUFFICES ASSUME NEW u \in Tunnel
                 PROVE  counter'[u] + Cardinality(seats'[u]) = Capacity
      BY DEF CountBalance
    <2>1. /\ counter[u] \in Nat /\ IsFiniteSet(seats[u]) /\ Cardinality(seats[u]) \in Nat
          /\ counter[u] + Cardinality(seats[u]) = Capacity
      BY <1>1, SeatCounts DEF Accounts
    <2>2. CASE u = t
      <3>1. seat \notin seats[t]
        BY <1>1, <1>4 DEF Accounts, PoolBalance
      <3>2. Cardinality(seats'[t]) = Cardinality(seats[t]) + 1
        BY <1>3, <2>1, <2>2, <3>1, FS_AddElement
      <3>3. counter'[t] = counter[t] - 1
        BY <1>1, <1>6
      <3> QED BY <2>1, <2>2, <3>2, <3>3
    <2>3. CASE u # t
      BY <1>1, <1>3, <1>6, <2>1, <2>3
    <2> QED BY <2>2, <2>3
  <1>8. AvailableIffRoom'
    <2>1. Lists(available, Roomy)
      BY <1>1, <1>6, AvailableListsRoomy DEF Accounts
    <2>2. Roomy' = Roomy \cup {t}
      <3>1. counter'[t] < Capacity /\ \A u \in Tunnel : u # t => counter'[u] = counter[u]
        BY <1>1, <1>6
      <3> QED BY <1>1, <3>1 DEF Roomy
    <2>3. available' = IF t \notin Range(available) THEN Append(available, t) ELSE available
      <3>1. Decreased(t) < Capacity
        BY <1>1, <1>6 DEF Decreased
      <3> QED BY <3>1 DEF ClosePair, DecreaseCounter
    <2>4. t \in Range(available) <=> t \in Roomy
      <3>1. DOMAIN available = 1 .. Len(available)
        BY <1>1, LenProperties
      <3> QED BY <1>1, <2>1, <3>1 DEF Lists, Range
    <2>5. Lists(available', Roomy')
      <3>1. CASE t \in Roomy
        BY <2>1, <2>2, <2>3, <2>4, <3>1
      <3>2. CASE t \notin Roomy
        BY <1>1, <2>1, <2>2, <2>3, <2>4, <3>2, AppendToList
      <3> QED BY <3>1, <3>2
    <2>6. DOMAIN available' = 1 .. Len(available')
      BY LenProperties DEF TypesOfTables
    <2> QED BY <2>5, <2>6 DEF AvailableIffRoom, Lists, Roomy
  <1>9. MapAgreesWithPairs'
    <2>1. sourceAddressMap' = [sourceAddressMap EXCEPT ![src] = NoPair]
      BY <1>1, <1>2 DEF ClosePair
    <2>2. ASSUME NEW other \in Source, sourceAddressMap'[other] # NoPair
          PROVE  /\ sourceAddressMap'[other] \in OpenPairs'
                 /\ pairs'[sourceAddressMap'[other][1]][sourceAddressMap'[other][2]] = other
      <3> DEFINE p == sourceAddressMap[other]
      <3>1. other # src /\ sourceAddressMap'[other] = p /\ p # NoPair
        BY <1>1, <1>2, <2>1, <2>2
      <3>2. p \in OpenPairs /\ pairs[p[1]][p[2]] = other
        BY <3>1 DEF Accounts, MapAgreesWithPairs
      <3>3. p \in Pair /\ p[1] \in tunnels /\ p[1] \in Tunnel /\ p[2] \in PairID
        BY <3>2 DEF OpenPairs, Pair
      <3>4. pairs'[p[1]][p[2]] = other
        <4>1. ~(p[1] = t /\ p[2] = seat)
          BY <3>1, <3>2
        <4> QED BY <1>3, <3>2, <3>3, <4>1
      <3> QED BY <1>1, <3>1, <3>3, <3>4 DEF OpenPairs
    <2>3. ASSUME NEW u \in Tunnel, NEW s \in PairID, pairs'[u][s] # NoSource
          PROVE  sourceAddressMap'[pairs'[u][s]] = <<u, s>>
      <3>1. ~(u = t /\ s = seat) /\ pairs'[u][s] = pairs[u][s]
        BY <1>3, <2>3
      <3>2. sourceAddressMap[pairs[u][s]] = <<u, s>> /\ pairs[u][s] \in Source
        BY <1>1, <2>3, <3>1 DEF Accounts, MapAgreesWithPairs
      <3>3. pairs[u][s] # src
        BY <1>2, <3>1, <3>2
      <3> QED BY <1>1, <2>1, <3>1, <3>2, <3>3
    <2> QED BY <2>2, <2>3 DEF MapAgreesWithPairs
  <1>10. AbsentTunnelsAreEmpty' /\ tunnels' \in SUBSET Tunnel
    <2>1. tunnels' \in SUBSET Tunnel
      BY <1>1
    <2>2. ASSUME NEW u \in Tunnel \ tunnels'
          PROVE  seats'[u] = InitialSeats /\ \A s \in PairID : pairs'[u][s] = NoSource
      <3>1. u # t /\ u \in Tunnel \ tunnels
        BY <2>2
      <3>2. pairs'[u] = pairs[u] /\ seats'[u] = seats[u]
        BY <1>3, <3>1
      <3> QED BY <3>1, <3>2 DEF Accounts, AbsentTunnelsAreEmpty
    <2> QED BY <2>1, <2>2 DEF AbsentTunnelsAreEmpty, InitialSeats
  <1> QED BY <1>5, <1>7, <1>8, <1>9, <1>10 DEF Accounts

(* The end of a tunnel: its pairs are gone, its room and its count with them.   *)
LEMMA RemoveTunnelKeepsAccounts ==
  ASSUME Accounts, TypesOfTables', NEW t \in tunnels, RemoveTunnel(t)
  PROVE  Accounts'
PROOF
  <1>1. /\ seats \in [Tunnel -> SUBSET PairID]
        /\ pairs \in [Tunnel -> [PairID -> Source \cup {NoSource}]]
        /\ sourceAddressMap \in [Source -> Pair \cup {NoPair}]
        /\ counter \in [Tunnel -> 0 .. Capacity]
        /\ available \in Seq(Tunnel)
        /\ tunnels \in SUBSET Tunnel /\ t \in Tunnel
        /\ NoSource \notin Source /\ NoPair \notin Pair
        /\ Capacity \in Nat
    BY NoSourceAssumption, NoPairAssumption, CapacityAssumption DEF Accounts, TypesOfTables, Pair
  <1>2. /\ tunnels' = tunnels \ {t}
        /\ RemoveCountedTunnel(t) /\ ResetContext(t)
        /\ sourceAddressMap' = [src \in Source |->
             IF sourceAddressMap[src] \in PairsOf(t) THEN NoPair ELSE sourceAddressMap[src]]
    BY DEF RemoveTunnel
  <1>3. /\ \A u \in Tunnel : u # t => seats'[u] = seats[u] /\ pairs'[u] = pairs[u]
        /\ seats'[t] = InitialSeats
        /\ \A s \in PairID : pairs'[t][s] = NoSource
        /\ counter'[t] = 0
        /\ \A u \in Tunnel : u # t => counter'[u] = counter[u]
    BY <1>1, <1>2 DEF ResetContext, EmptySeats, RemoveCountedTunnel
  <1>4. /\ UsedSeats(t)' = {}
        /\ \A u \in Tunnel : u # t => UsedSeats(u)' = UsedSeats(u)
    BY <1>1, <1>3 DEF UsedSeats
  <1>5. PoolBalance'
    <2> SUFFICES ASSUME NEW u \in Tunnel
                 PROVE  /\ seats'[u] \cap UsedSeats(u)' = {}
                        /\ seats'[u] \cup UsedSeats(u)' \subseteq InitialSeats
                        /\ InitialSeats \subseteq seats'[u] \cup UsedSeats(u)' \cup {INVALID_PAIR_ID}
                        /\ INVALID_PAIR_ID \notin UsedSeats(u)'
      BY DEF PoolBalance, InitialSeats, INVALID_PAIR_ID
    <2>1. CASE u = t
      BY <1>3, <1>4, <2>1
    <2>2. CASE u # t
      BY <1>3, <1>4, <2>2 DEF Accounts, PoolBalance
    <2> QED BY <2>1, <2>2
  <1>6. CountBalance'
    <2> SUFFICES ASSUME NEW u \in Tunnel
                 PROVE  counter'[u] + Cardinality(seats'[u]) = Capacity
      BY DEF CountBalance
    <2>1. CASE u = t
      BY <1>1, <1>3, <2>1, InitialSeatCount
    <2>2. CASE u # t
      BY <1>3, <2>2 DEF Accounts, CountBalance
    <2> QED BY <2>1, <2>2
  <1>7. ASSUME Capacity > 0 PROVE AvailableIffRoom'
    <2>1. Lists(available, Roomy)
      BY <1>1, <1>7, AvailableListsRoomy DEF Accounts
    <2>2. Roomy' = Roomy \ {t}
      BY <1>1, <1>2, <1>3 DEF Roomy
    <2>3. DOMAIN available = 1 .. Len(available)
      BY <1>1, LenProperties
    <2>4. CASE t \notin Range(available) /\ available' = available
      <3>1. t \notin Roomy
        BY <1>1, <2>1, <2>3, <2>4 DEF Lists, Range
      <3>2. Roomy' = Roomy
        BY <2>2, <3>1
      <3>3. Lists(available', Roomy')
        BY <2>1, <2>4, <3>2
      <3> QED BY <2>3, <2>4, <3>3 DEF AvailableIffRoom, Lists, Roomy
    <2>5. ASSUME NEW i \in DOMAIN available, available[i] = t, available' = RemoveAt(available, i)
          PROVE  AvailableIffRoom'
      <3>1. Lists(RemoveAt(available, i), Roomy \ {available[i]})
        BY <2>1, <2>3, RemoveFromList
      <3>2. Lists(available', Roomy')
        BY <2>2, <2>5, <3>1
      <3>3. DOMAIN available' = 1 .. Len(available')
        BY LenProperties DEF TypesOfTables
      <3> QED BY <3>2, <3>3 DEF AvailableIffRoom, Lists, Roomy
    <2> QED BY <1>2, <2>4, <2>5 DEF RemoveCountedTunnel
  <1>8. MapAgreesWithPairs'
    <2>1. ASSUME NEW src \in Source, sourceAddressMap'[src] # NoPair
          PROVE  /\ sourceAddressMap'[src] \in OpenPairs'
                 /\ pairs'[sourceAddressMap'[src][1]][sourceAddressMap'[src][2]] = src
      <3> DEFINE p == sourceAddressMap[src]
      <3>1. sourceAddressMap'[src] = p /\ p # NoPair /\ p \notin PairsOf(t)
        BY <1>2, <2>1
      <3>2. p \in OpenPairs /\ pairs[p[1]][p[2]] = src
        BY <3>1 DEF Accounts, MapAgreesWithPairs
      <3>3. p \in Pair /\ p[1] \in tunnels /\ p[1] \in Tunnel /\ p[1] # t
        BY <3>1, <3>2 DEF OpenPairs, Pair, PairsOf
      <3> QED BY <1>1, <1>2, <1>3, <3>1, <3>2, <3>3 DEF OpenPairs
    <2>2. ASSUME NEW u \in Tunnel, NEW s \in PairID, pairs'[u][s] # NoSource
          PROVE  sourceAddressMap'[pairs'[u][s]] = <<u, s>>
      <3>1. u # t /\ pairs'[u][s] = pairs[u][s]
        BY <1>3, <2>2
      <3>2. sourceAddressMap[pairs[u][s]] = <<u, s>> /\ pairs[u][s] \in Source
        BY <1>1, <2>2, <3>1 DEF Accounts, MapAgreesWithPairs
      <3>3. <<u, s>> \notin PairsOf(t)
        BY <3>1 DEF PairsOf
      <3> QED BY <1>1, <1>2, <3>1, <3>2, <3>3
    <2> QED BY <2>1, <2>2 DEF MapAgreesWithPairs
  <1>9. AbsentTunnelsAreEmpty' /\ tunnels' \in SUBSET Tunnel
    BY <1>1, <1>2, <1>3 DEF Accounts, AbsentTunnelsAreEmpty, InitialSeats
  <1> QED BY <1>5, <1>6, <1>7, <1>8, <1>9 DEF Accounts

--------------------------------------------------------------------------------
(* The inductive invariant                                                      *)

(* What the two collectors' vectors hold while they are worked off: open pairs, *)
(* and tunnels without pairs; they are never both in use.                       *)
VectorsAreFresh ==
  /\ pendingToDelete \subseteq OpenPairs
  /\ UselessCarryNothing
  /\ pendingToDelete = {} \/ uselessTunnels = {}

IInv == TypeOK /\ Accounts /\ VectorsAreFresh

(* The first tunnel starts with the accounts in balance.                        *)
LEMMA InitAccounts == Init => IInv
PROOF
  <1> SUFFICES ASSUME Init PROVE IInv
    OBVIOUS
  <1>1. PICK t \in Tunnel :
          /\ tunnels = {t}
          /\ counter = NoPairsCounted
          /\ available = <<t>>
          /\ seats = [u \in Tunnel |-> InitialSeats]
          /\ pairs = [u \in Tunnel |-> EmptySeats]
          /\ sourceAddressMap = [src \in Source |-> NoPair]
          /\ pendingToDelete = {} /\ uselessTunnels = {}
    BY DEF Init
  <1>2. TypeOK /\ TypesOfTables
    BY InitTypes, TypeParts
  <1>3. \A u \in Tunnel : UsedSeats(u) = {}
    BY <1>1 DEF UsedSeats, EmptySeats
  <1>4. PoolBalance /\ CountBalance
    <2>1. PoolBalance
      BY <1>1, <1>3 DEF PoolBalance
    <2>2. CountBalance
      BY <1>1, InitialSeatCount, CapacityAssumption DEF CountBalance, NoPairsCounted
    <2> QED BY <2>1, <2>2
  <1>5. Capacity > 0 => AvailableIffRoom
    <2>1. DOMAIN <<t>> = {1} /\ <<t>>[1] = t
      OBVIOUS
    <2> QED BY <1>1, <2>1, CapacityAssumption DEF AvailableIffRoom, NoPairsCounted
  <1>6. MapAgreesWithPairs /\ AbsentTunnelsAreEmpty
    BY <1>1 DEF MapAgreesWithPairs, AbsentTunnelsAreEmpty, EmptySeats
  <1> QED BY <1>1, <1>2, <1>4, <1>5, <1>6
          DEF IInv, Accounts, VectorsAreFresh, UselessCarryNothing

(* Every step keeps the accounts.                                               *)
LEMMA NextAccounts == TypeOK' /\ IInv /\ [Next]_vars => Accounts'
PROOF
  <1> SUFFICES ASSUME TypeOK', IInv, [Next]_vars PROVE Accounts'
    OBVIOUS
  <1>0. Accounts /\ VectorsAreFresh /\ TypesOfTables'
    BY DEF IInv, TypeOK, TypesOfTables
  <1>1. ASSUME TablesUnchanged PROVE Accounts'
    BY <1>0, <1>1, QuietKeepsAccounts
  <1>2. ASSUME NEW t \in Tunnel, OnOpen(t) \/ RedirectFails(t) \/ DestroyLater(t) PROVE Accounts'
    BY <1>1, <1>2, QuietActions
  <1>3. ASSUME NEW t \in Tunnel, TunnelError(t) \/ TunnelDestroyed(t) \/ DestroyNow(t)
        PROVE  Accounts'
    <2>1. RemoveTunnel(t) /\ t \in tunnels
      BY <1>0, <1>3
         DEF TunnelError, TunnelDestroyed, DestroyNow, VectorsAreFresh, UselessCarryNothing
    <2> QED BY <1>0, <2>1, RemoveTunnelKeepsAccounts
  <1>4. ASSUME NEW src \in Source, SendOnPair(src) PROVE Accounts'
    BY <1>1, <1>4, QuietActions
  <1>5. ASSUME NEW src \in Source, SendOnNewPair(src) PROVE Accounts'
    <2>1. PICK t \in Tunnel :
            \E seat \in SeatNumbers(t) \ {INVALID_PAIR_ID} :
              /\ PickTunnel(t) /\ TakeSeat(t, seat) /\ BindPair(t, seat, src)
              /\ sourceAddressMap' = [sourceAddressMap EXCEPT ![src] = <<t, seat>>]
      BY <1>5 DEF SendOnNewPair
    <2>2. PICK seat \in SeatNumbers(t) \ {INVALID_PAIR_ID} :
            /\ PickTunnel(t) /\ TakeSeat(t, seat) /\ BindPair(t, seat, src)
            /\ sourceAddressMap' = [sourceAddressMap EXCEPT ![src] = <<t, seat>>]
      BY <2>1
    <2>3. seat \in SeatNumbers(t) /\ seat # INVALID_PAIR_ID /\ sourceAddressMap[src] = NoPair
      BY <1>5 DEF SendOnNewPair
    <2> QED BY <1>0, <2>2, <2>3, NewPairKeepsAccounts
  <1>6. ASSUME NEW src \in Source, SendWithoutSeat(src) PROVE Accounts'
    <2>1. PICK t \in Tunnel : /\ INVALID_PAIR_ID \in SeatNumbers(t)
                              /\ PickTunnel(t) /\ TakeSeat(t, INVALID_PAIR_ID)
      BY <1>6 DEF SendWithoutSeat
    <2>2. UNCHANGED <<pairs, sourceAddressMap>>
      BY <1>6 DEF SendWithoutSeat
    <2> QED BY <1>0, <2>1, <2>2, WithoutSeatKeepsAccounts
  <1>7. ASSUME NEW t \in Tunnel, NEW seat \in PairID,
               OnReceive(t, seat) \/ SendTimeout(<<t, seat>>) \/ ReceiveTimeout(<<t, seat>>)
        PROVE  Accounts'
    BY <1>1, <1>7, QuietActions
  <1>8. ASSUME NEW t \in Tunnel, NEW seat \in PairID, GcClosePair(t, seat) PROVE Accounts'
    <2>1. <<t, seat>> \in OpenPairs /\ ClosePair(t, seat) /\ tunnels' = tunnels
      BY <1>0, <1>8 DEF GcClosePair, VectorsAreFresh, tunnelVars
    <2>2. t \in tunnels /\ pairs[t][seat] # NoSource
      BY <2>1 DEF OpenPairs
    <2> QED BY <1>0, <2>1, <2>2, ClosePairKeepsAccounts
  <1>9. CASE GcCollect \/ CleanUpUselessTunnels
    BY <1>1, <1>9, QuietActions
  <1>10. CASE UNCHANGED vars
    BY <1>1, <1>10, QuietActions
  <1> QED BY <1>2, <1>3, <1>4, <1>5, <1>6, <1>7, <1>8, <1>9, <1>10 DEF Next

(* Every step keeps the vectors fresh: only their own handlers run while they   *)
(* are not empty, and these remove from both the vector and the tables.         *)
LEMMA NextVectors == IInv /\ [Next]_vars => VectorsAreFresh'
PROOF
  <1> SUFFICES ASSUME IInv, [Next]_vars PROVE VectorsAreFresh'
    OBVIOUS
  <1>0. Accounts /\ VectorsAreFresh
    BY DEF IInv
  <1>1. ASSUME TablesUnchanged PROVE OpenPairs' = OpenPairs /\ \A t \in Tunnel : UsedSeats(t)' = UsedSeats(t)
    BY <1>1 DEF TablesUnchanged, OpenPairs, UsedSeats, contextVars
  <1>2. ASSUME TablesUnchanged, UNCHANGED loopVars PROVE VectorsAreFresh'
    <2>1. /\ OpenPairs' = OpenPairs /\ tunnels' = tunnels
          /\ pendingToDelete' = pendingToDelete /\ uselessTunnels' = uselessTunnels
      BY <1>1, <1>2 DEF TablesUnchanged, loopVars
    <2>2. UselessCarryNothing'
      <3> SUFFICES ASSUME NEW t \in uselessTunnels' PROVE t \in tunnels' /\ UsedSeats(t)' = {}
        BY DEF UselessCarryNothing
      <3>1. t \in tunnels /\ t \in Tunnel /\ UsedSeats(t) = {}
        BY <1>0, <2>1 DEF VectorsAreFresh, UselessCarryNothing, Accounts
      <3> QED BY <1>1, <1>2, <2>1, <3>1
    <2> QED BY <1>0, <2>1, <2>2 DEF VectorsAreFresh
  <1>3. ASSUME LoopIdle, UNCHANGED loopVars PROVE VectorsAreFresh'
    BY <1>3 DEF LoopIdle, loopVars, VectorsAreFresh, UselessCarryNothing
  <1>4. ASSUME NEW t \in Tunnel, OnOpen(t) \/ RedirectFails(t) PROVE VectorsAreFresh'
    BY <1>2, <1>4, QuietActions
  <1>5. ASSUME NEW t \in Tunnel, TunnelError(t) \/ TunnelDestroyed(t) PROVE VectorsAreFresh'
    BY <1>3, <1>5 DEF TunnelError, TunnelDestroyed
  <1>6. ASSUME NEW t \in Tunnel, DestroyNow(t) PROVE VectorsAreFresh'
    <2>1. /\ pendingToDelete' = {} /\ uselessTunnels' = uselessTunnels \ {t}
          /\ tunnels' = tunnels \ {t}
          /\ pairs' = [pairs EXCEPT ![t] = EmptySeats]
      BY <1>0, <1>6 DEF DestroyNow, RemoveTunnel, ResetContext, VectorsAreFresh
    <2>2. ASSUME NEW u \in uselessTunnels' PROVE u \in tunnels' /\ UsedSeats(u)' = {}
      <3>1. u # t /\ u \in tunnels /\ u \in Tunnel /\ UsedSeats(u) = {}
        BY <1>0, <2>1, <2>2 DEF VectorsAreFresh, UselessCarryNothing, Accounts
      <3>2. pairs'[u] = pairs[u]
        BY <1>0, <2>1, <3>1 DEF Accounts, TypesOfTables
      <3> QED BY <2>1, <3>1, <3>2 DEF UsedSeats
    <2> QED BY <2>1, <2>2 DEF VectorsAreFresh, UselessCarryNothing
  <1>7. ASSUME NEW t \in Tunnel, DestroyLater(t) PROVE VectorsAreFresh'
    <2>1. TablesUnchanged
      BY <1>7, QuietActions
    <2>2. /\ pendingToDelete' = {} /\ uselessTunnels' = uselessTunnels \ {t} /\ tunnels' = tunnels
      BY <1>0, <1>7 DEF DestroyLater, VectorsAreFresh
    <2>3. ASSUME NEW u \in uselessTunnels' PROVE u \in tunnels' /\ UsedSeats(u)' = {}
      <3>1. u \in tunnels /\ u \in Tunnel /\ UsedSeats(u) = {}
        BY <1>0, <2>2, <2>3 DEF VectorsAreFresh, UselessCarryNothing, Accounts
      <3> QED BY <1>1, <2>1, <2>2, <3>1
    <2> QED BY <2>2, <2>3 DEF VectorsAreFresh, UselessCarryNothing
  <1>8. ASSUME NEW src \in Source, SendOnPair(src) PROVE VectorsAreFresh'
    BY <1>2, <1>8, QuietActions
  <1>9. ASSUME NEW src \in Source, SendOnNewPair(src) \/ SendWithoutSeat(src)
        PROVE  VectorsAreFresh'
    BY <1>3, <1>9 DEF SendOnNewPair, SendWithoutSeat
  <1>10. ASSUME NEW t \in Tunnel, NEW seat \in PairID,
                OnReceive(t, seat) \/ SendTimeout(<<t, seat>>) \/ ReceiveTimeout(<<t, seat>>)
         PROVE  VectorsAreFresh'
    BY <1>2, <1>10, QuietActions
  <1>11. ASSUME NEW t \in Tunnel, NEW seat \in PairID, GcClosePair(t, seat)
         PROVE  VectorsAreFresh'
    <2>1. /\ uselessTunnels' = {} /\ pendingToDelete' = pendingToDelete \ {<<t, seat>>}
          /\ tunnels' = tunnels
          /\ pairs' = [pairs EXCEPT ![t][seat] = NoSource]
      BY <1>0, <1>11
         DEF GcClosePair, ClosePair, UnbindPair, tunnelVars, VectorsAreFresh
    <2>2. ASSUME NEW p \in pendingToDelete' PROVE p \in OpenPairs'
      <3>1. p \in OpenPairs /\ p # <<t, seat>>
        BY <1>0, <2>1, <2>2 DEF VectorsAreFresh
      <3>2. p \in Pair /\ p[1] \in Tunnel /\ p[2] \in PairID /\ p = <<p[1], p[2]>>
        BY <3>1 DEF OpenPairs, Pair
      <3>3. ~(p[1] = t /\ p[2] = seat)
        BY <3>1, <3>2
      <3>4. pairs'[p[1]][p[2]] = pairs[p[1]][p[2]]
        BY <1>0, <2>1, <3>2, <3>3 DEF Accounts, TypesOfTables
      <3> QED BY <2>1, <3>1, <3>4 DEF OpenPairs
    <2> QED BY <2>1, <2>2 DEF VectorsAreFresh, UselessCarryNothing
  <1>12. CASE GcCollect
    <2>1. TablesUnchanged
      BY <1>12, QuietActions
    <2>2. pendingToDelete' \subseteq OpenPairs /\ uselessTunnels' = {}
      BY <1>12 DEF GcCollect, LoopIdle
    <2> QED BY <1>1, <2>1, <2>2 DEF VectorsAreFresh, UselessCarryNothing
  <1>13. CASE CleanUpUselessTunnels
    <2>1. TablesUnchanged /\ pendingToDelete' = {} /\ tunnels' = tunnels
      BY <1>13, QuietActions DEF CleanUpUselessTunnels, LoopIdle, tunnelVars
    <2>2. ASSUME NEW u \in uselessTunnels' PROVE u \in tunnels' /\ UsedSeats(u)' = {}
      <3>1. u \in tunnels /\ u \in Tunnel /\ vacancy(u) >= Capacity
        BY <1>0, <1>13, <2>2 DEF CleanUpUselessTunnels, Accounts
      <3>2. UsedSeats(u) = {}
        <4>1. counter \in [Tunnel -> 0 .. Capacity] /\ Capacity \in Nat /\ counter[u] \in 0 .. Capacity
          BY <1>0, <3>1, CapacityAssumption DEF Accounts, TypesOfTables
        <4>2. /\ Cardinality(UsedSeats(u)) \in Nat /\ Cardinality(UsedSeats(u)) <= counter[u]
              /\ Cardinality(seats[u]) \in Nat /\ counter[u] + Cardinality(seats[u]) = Capacity
              /\ Cardinality(UsedSeats(u)) = 0 <=> UsedSeats(u) = {}
          BY <1>0, <3>1, <4>1, SeatCounts DEF Accounts
        <4> QED BY <3>1, <4>1, <4>2 DEF vacancy
      <3> QED BY <1>1, <2>1, <3>1, <3>2
    <2> QED BY <2>1, <2>2 DEF VectorsAreFresh, UselessCarryNothing
  <1>14. CASE UNCHANGED vars
    BY <1>2, <1>14, QuietActions
  <1> QED BY <1>4, <1>5, <1>6, <1>7, <1>8, <1>9, <1>10, <1>11, <1>12, <1>13, <1>14 DEF Next

(* The inductive invariant holds in every reachable state.                      *)
LEMMA AlwaysIInv == Spec => []IInv
PROOF
  <1>1. Init => IInv
    BY InitAccounts
  <1>2. IInv /\ [Next]_vars => IInv'
    <2>1. IInv /\ [Next]_vars => TypeOK'
      BY NextTypes DEF IInv
    <2> QED BY <2>1, NextAccounts, NextVectors DEF IInv
  <1> QED BY <1>1, <1>2, PTL DEF Spec

(* No pair id is lost and none is out twice, on any tunnel, as long as the      *)
(* capacity leaves INVALID_PAIR_ID out of the pool.                             *)
THEOREM ClientSeats == ASSUME ProperCapacity PROVE Spec => []SeatsPartition
PROOF
  <1>1. IInv => SeatsPartition
    <2> SUFFICES ASSUME IInv, NEW t \in Tunnel
                 PROVE  /\ seats[t] \cap UsedSeats(t) = {}
                        /\ seats[t] \cup UsedSeats(t) = InitialSeats
      BY DEF SeatsPartition
    <2> QED BY SeatCounts DEF IInv, Accounts, PoolBalance, TypesOfTables
  <1> QED BY <1>1, AlwaysIInv, PTL

(* The counter agrees with the pairs that are there, for the same capacities.   *)
THEOREM ClientCounter == ASSUME ProperCapacity PROVE Spec => []CounterMatchesPairs
PROOF
  <1>1. IInv => CounterMatchesPairs
    BY SeatCounts DEF IInv, Accounts, TypesOfTables, CounterMatchesPairs
  <1> QED BY <1>1, AlwaysIInv, PTL

(* For every capacity, one that puts INVALID_PAIR_ID into the pool included: a  *)
(* tunnel loses at most that one seat, and counts at most one pair too many.    *)
THEOREM ClientLeak == Spec => []LeakIsAtMostOne
PROOF
  <1>1. IInv => LeakIsAtMostOne
    <2> SUFFICES ASSUME IInv, NEW t \in Tunnel
                 PROVE  /\ Cardinality(seats[t]) + Cardinality(UsedSeats(t)) + 1 >= Capacity
                        /\ counter[t] <= Cardinality(UsedSeats(t)) + 1
      BY DEF LeakIsAtMostOne
    <2>1. /\ counter \in [Tunnel -> 0 .. Capacity] /\ PoolBalance /\ CountBalance
          /\ counter[t] \in Nat /\ Capacity \in Nat
      BY CapacityAssumption DEF IInv, Accounts, TypesOfTables
    <2>2. /\ Cardinality(UsedSeats(t)) \in Nat /\ Cardinality(seats[t]) \in Nat
          /\ counter[t] + Cardinality(seats[t]) = Capacity
          /\ counter[t] <= Cardinality(UsedSeats(t)) + 1
      BY <2>1, SeatCounts
    <2> QED BY <2>1, <2>2
  <1> QED BY <1>1, AlwaysIInv, PTL

(* The list of available tunnels holds those that have room, each once.  With   *)
(* no capacity at all the first tunnel is listed although it has no room.       *)
THEOREM ClientAvailable == ASSUME Capacity > 0 PROVE Spec => []AvailableIffRoom
PROOF
  <1>1. IInv => AvailableIffRoom
    BY DEF IInv, Accounts
  <1> QED BY <1>1, AlwaysIInv, PTL

(* The forwarder's map and the tunnels' pair tables are inverse to each other.  *)
THEOREM ClientMap == Spec => []MapAgreesWithPairs
PROOF
  <1>1. IInv => MapAgreesWithPairs
    BY DEF IInv, Accounts
  <1> QED BY <1>1, AlwaysIInv, PTL

(* cleanUpUselessTunnels never takes a tunnel with a pair on it.                *)
THEOREM ClientUseless == Spec => []UselessCarryNothing
PROOF
  <1>1. IInv => UselessCarryNothing
    BY DEF IInv, VectorsAreFresh
  <1> QED BY <1>1, AlwaysIInv, PTL

--------------------------------------------------------------------------------
(* What a step may never do                                                     *)

KeepsPairs ==
  \A src \in Source :
    sourceAddressMap[src] # NoPair =>
      sourceAddressMap'[src] \in {sourceAddressMap[src], NoPair}

(* A source keeps its pair, tunnel and id alike, until that pair is closed.     *)
THEOREM ClientKeepsPairs == Spec => SourceKeepsPair
PROOF
  <1>1. ASSUME TypeOK, [Next]_vars PROVE KeepsPairs
    <2>0. sourceAddressMap \in [Source -> Pair \cup {NoPair}]
      BY <1>1 DEF TypeOK
    <2>1. ASSUME TablesUnchanged PROVE KeepsPairs
      BY <2>1 DEF TablesUnchanged, KeepsPairs
    <2>2. ASSUME NEW t \in Tunnel,
                 \/ OnOpen(t) \/ RedirectFails(t) \/ DestroyLater(t)
                 \/ \E seat \in PairID :
                      \/ OnReceive(t, seat)
                      \/ SendTimeout(<<t, seat>>) \/ ReceiveTimeout(<<t, seat>>)
          PROVE  KeepsPairs
      BY <2>1, <2>2, QuietActions
    <2>3. ASSUME NEW t \in Tunnel, TunnelError(t) \/ TunnelDestroyed(t) \/ DestroyNow(t)
          PROVE  KeepsPairs
      BY <2>0, <2>3 DEF TunnelError, TunnelDestroyed, DestroyNow, RemoveTunnel, KeepsPairs
    <2>4. ASSUME NEW src \in Source, SendOnPair(src) PROVE KeepsPairs
      BY <2>1, <2>4, QuietActions
    <2>5. ASSUME NEW src \in Source, SendOnNewPair(src) PROVE KeepsPairs
      <3>1. PICK p : /\ sourceAddressMap[src] = NoPair
                     /\ sourceAddressMap' = [sourceAddressMap EXCEPT ![src] = p]
        BY <2>5 DEF SendOnNewPair
      <3> QED BY <2>0, <3>1 DEF KeepsPairs
    <2>6. ASSUME NEW src \in Source, SendWithoutSeat(src) PROVE KeepsPairs
      BY <2>6 DEF SendWithoutSeat, KeepsPairs
    <2>7. ASSUME NEW t \in Tunnel, NEW seat \in PairID, GcClosePair(t, seat) PROVE KeepsPairs
      BY <2>0, <2>7 DEF GcClosePair, ClosePair, KeepsPairs
    <2>8. CASE GcCollect \/ CleanUpUselessTunnels \/ UNCHANGED vars
      BY <2>1, <2>8, QuietActions
    <2> QED BY <1>1, <2>2, <2>3, <2>4, <2>5, <2>6, <2>7, <2>8 DEF Next
  <1>2. TypeOK /\ [Next]_vars => [KeepsPairs]_vars
    BY <1>1
  <1> QED BY <1>2, ClientTypes, PTL DEF Spec, SourceKeepsPair, KeepsPairs

OpensWhenFull ==
  \A t \in Tunnel :
    t \in tunnels' \ tunnels => \A u \in tunnels : seats[u] = {}

(* prepareTunnels opens a tunnel only when every tunnel is full.                *)
THEOREM ClientOpensOnlyWhenFull == Spec => OpensOnlyWhenFull
PROOF
  <1>1. ASSUME IInv, [Next]_vars PROVE OpensWhenFull
    <2>0. Accounts
      BY <1>1 DEF IInv
    <2>1. ASSUME tunnels' \subseteq tunnels PROVE OpensWhenFull
      BY <2>1 DEF OpensWhenFull
    <2>2. ASSUME NEW t \in Tunnel, PickTunnel(t) PROVE OpensWhenFull
      <3>1. CASE UNCHANGED tunnelVars
        BY <2>1, <3>1 DEF tunnelVars
      <3>2. CASE available = <<>>
        <4>1. ASSUME Capacity > 0 PROVE \A u \in tunnels : ~(counter[u] < Capacity)
          <5>1. DOMAIN available = {}
            BY <3>2
          <5> QED BY <2>0, <4>1, <5>1 DEF Accounts, AvailableIffRoom
        <4>2. \A u \in tunnels : seats[u] = {}
          BY <2>0, <4>1, RoomMeansSeats DEF Accounts
        <4> QED BY <4>2 DEF OpensWhenFull
      <3> QED BY <2>2, <3>1, <3>2 DEF PickTunnel, AddTunnel
    <2>3. ASSUME TablesUnchanged PROVE OpensWhenFull
      BY <2>1, <2>3 DEF TablesUnchanged
    <2>4. ASSUME NEW t \in Tunnel,
                 \/ OnOpen(t) \/ RedirectFails(t) \/ DestroyLater(t)
                 \/ \E seat \in PairID :
                      \/ OnReceive(t, seat)
                      \/ SendTimeout(<<t, seat>>) \/ ReceiveTimeout(<<t, seat>>)
          PROVE  OpensWhenFull
      BY <2>3, <2>4, QuietActions
    <2>5. ASSUME NEW t \in Tunnel, TunnelError(t) \/ TunnelDestroyed(t) \/ DestroyNow(t)
          PROVE  OpensWhenFull
      BY <2>1, <2>5 DEF TunnelError, TunnelDestroyed, DestroyNow, RemoveTunnel
    <2>6. ASSUME NEW src \in Source, SendOnPair(src) PROVE OpensWhenFull
      BY <2>3, <2>6, QuietActions
    <2>7. ASSUME NEW src \in Source, SendOnNewPair(src) \/ SendWithoutSeat(src)
          PROVE  OpensWhenFull
      BY <2>2, <2>7 DEF SendOnNewPair, SendWithoutSeat
    <2>8. ASSUME NEW t \in Tunnel, NEW seat \in PairID, GcClosePair(t, seat)
          PROVE  OpensWhenFull
      BY <2>1, <2>8 DEF GcClosePair, tunnelVars
    <2>9. CASE GcCollect \/ CleanUpUselessTunnels \/ UNCHANGED vars
      BY <2>3, <2>9, QuietActions
    <2> QED BY <1>1, <2>4, <2>5, <2>6, <2>7, <2>8, <2>9 DEF Next
  <1>2. IInv /\ [Next]_vars => [OpensWhenFull]_vars
    BY <1>1
  <1> QED BY <1>2, AlwaysIInv, PTL DEF Spec, OpensOnlyWhenFull, OpensWhenFull

--------------------------------------------------------------------------------
(* The refinement of PairAllocation: the pair tables are the owners of slots.   *)

Owner == [p \in Pair |-> pairs[p[1]][p[2]]]

(* Steps that leave the pair tables alone are stutters of PairAllocation.       *)
LEMMA OwnerUnchanged ==
  ASSUME UNCHANGED pairs
  PROVE  Owner' = Owner
PROOF
  BY DEF Owner

(* The slots of PairAllocation are the pairs of the client.                     *)
LEMMA SlotsArePairs == Allocation!Slot = Pair
PROOF
  BY DEF Allocation!Slot, Pair

(* A tunnel's load is no more than what the counter says.                       *)
LEMMA LoadIsCounted ==
  ASSUME Accounts, NEW t \in Tunnel
  PROVE  Allocation!Load(t) \in Nat /\ Allocation!Load(t) <= counter[t]
PROOF
  <1>1. \A s \in PairID : Owner[<<t, s>>] = pairs[t][s]
    BY DEF Owner, Pair
  <1>2. {s \in PairID : Owner[<<t, s>>] # NoSource} = UsedSeats(t)
    BY <1>1 DEF UsedSeats
  <1>3. Allocation!Load(t) = Cardinality(UsedSeats(t))
    <2>1. Allocation!Load(t) = Cardinality({s \in PairID : Owner[<<t, s>>] # NoSource})
      BY DEF Allocation!Load, Owner, Cardinality, Allocation!Cardinality
    <2> QED BY <1>2, <2>1
  <1> QED BY <1>3, SeatCounts DEF Accounts, TypesOfTables

(* A pair for a new source is an Allocate step.                                 *)
LEMMA AllocateStep ==
  ASSUME Accounts, NEW src \in Source, SendOnNewPair(src)
  PROVE  Allocation!Next
PROOF
  <1>1. PICK t \in Tunnel :
          \E seat \in SeatNumbers(t) \ {INVALID_PAIR_ID} :
            PickTunnel(t) /\ TakeSeat(t, seat) /\ BindPair(t, seat, src)
    BY DEF SendOnNewPair
  <1>2. PICK seat \in SeatNumbers(t) \ {INVALID_PAIR_ID} :
          PickTunnel(t) /\ TakeSeat(t, seat) /\ BindPair(t, seat, src)
    BY <1>1
  <1>3. /\ pairs \in [Tunnel -> [PairID -> Source \cup {NoSource}]]
        /\ seats \in [Tunnel -> SUBSET PairID]
        /\ sourceAddressMap[src] = NoPair /\ NoPair \notin Pair /\ src # NoSource
    BY NoPairAssumption, NoSourceAssumption
       DEF Accounts, TypesOfTables, SendOnNewPair, Pair
  <1>4. /\ counter[t] < Capacity
        /\ seat \in seats[t] /\ seat \in PairID
    <2>1. seat \in seats[t]
      BY <1>2 DEF SeatNumbers
    <2> QED BY <1>3, <2>1, RoomMeansSeats
  <1>5. pairs[t][seat] = NoSource
    BY <1>4 DEF Accounts, PoolBalance, UsedSeats
  <1>6. \A slot \in Pair : Owner[slot] # src
    <2> SUFFICES ASSUME NEW slot \in Pair, Owner[slot] = src PROVE FALSE
      OBVIOUS
    <2>1. slot[1] \in Tunnel /\ slot[2] \in PairID /\ pairs[slot[1]][slot[2]] = src
      BY DEF Owner, Pair
    <2>2. sourceAddressMap[src] = <<slot[1], slot[2]>>
      BY <1>3, <2>1 DEF Accounts, MapAgreesWithPairs
    <2> QED BY <1>3, <2>1, <2>2 DEF Pair
  <1>7. Owner' = [Owner EXCEPT ![<<t, seat>>] = src]
    <2>1. pairs' = [pairs EXCEPT ![t][seat] = src]
      BY <1>2 DEF BindPair
    <2>2. \A p \in Pair : pairs'[p[1]][p[2]] = IF p = <<t, seat>> THEN src ELSE pairs[p[1]][p[2]]
      BY <1>3, <1>4, <2>1 DEF Pair
    <2> QED BY <2>2 DEF Owner
  <1>8. Owner[<<t, seat>>] = NoSource
    BY <1>4, <1>5 DEF Owner, Pair
  <1>9. Allocation!Load(t) < Capacity
    <2>1. counter[t] \in Nat /\ Capacity \in Nat
      BY CapacityAssumption DEF Accounts, TypesOfTables
    <2> QED BY <1>4, <2>1, LoadIsCounted
  <1>10. Allocation!Allocate(src, t, seat)
    BY <1>2, <1>6, <1>7, <1>8, <1>9, SlotsArePairs DEF Allocation!Allocate, Owner
  <1> QED BY <1>4, <1>10 DEF Allocation!Next

(* A closed pair is a Release step.                                             *)
LEMMA ReleaseStep ==
  ASSUME Accounts, NEW t \in Tunnel, NEW seat \in PairID, UnbindPair(t, seat)
  PROVE  Allocation!Next
PROOF
  <1>1. pairs' = [pairs EXCEPT ![t][seat] = NoSource]
    BY DEF UnbindPair
  <1>2. \A p \in Pair : pairs'[p[1]][p[2]] = IF p = <<t, seat>> THEN NoSource ELSE pairs[p[1]][p[2]]
    BY <1>1 DEF Accounts, TypesOfTables, Pair
  <1>3. Owner' = [Owner EXCEPT ![<<t, seat>>] = NoSource]
    BY <1>2 DEF Owner
  <1>4. Allocation!Release(t, seat)
    BY <1>3 DEF Allocation!Release, Owner
  <1> QED BY <1>4 DEF Allocation!Next

(* A removed tunnel is a ReleaseTunnel step.                                    *)
LEMMA ReleaseTunnelStep ==
  ASSUME Accounts, NEW t \in Tunnel, ResetContext(t)
  PROVE  Allocation!Next
PROOF
  <1>1. pairs' = [pairs EXCEPT ![t] = EmptySeats]
    BY DEF ResetContext
  <1>2. \A p \in Pair : pairs'[p[1]][p[2]] = IF p[1] = t THEN NoSource ELSE pairs[p[1]][p[2]]
    BY <1>1 DEF Accounts, TypesOfTables, Pair, EmptySeats
  <1>3. Owner' = [slot \in Pair |-> IF slot[1] = t THEN NoSource ELSE Owner[slot]]
    BY <1>2 DEF Owner
  <1>4. Allocation!ReleaseTunnel(t)
    BY <1>3, SlotsArePairs DEF Allocation!ReleaseTunnel, Owner
  <1> QED BY <1>4 DEF Allocation!Next

(* The client hands out pair ids as PairAllocation says: a slot has one source, *)
(* a source one slot, a tunnel at most Capacity pairs, and a slot changes hands *)
(* only by being given back.                                                    *)
THEOREM ClientImplementsAllocation == Spec => ImplementsAllocation
PROOF
  <1>1. Init => Allocation!Init
    <2> SUFFICES ASSUME Init PROVE Allocation!Init
      OBVIOUS
    <2>1. pairs = [u \in Tunnel |-> EmptySeats]
      BY DEF Init
    <2>2. \A p \in Pair : pairs[p[1]][p[2]] = NoSource
      BY <2>1 DEF Pair, EmptySeats
    <2> QED BY <2>2, SlotsArePairs DEF Allocation!Init
  <1>2. ASSUME IInv, [Next]_vars PROVE Allocation!Next \/ Owner' = Owner
    <2>0. Accounts
      BY <1>2 DEF IInv
    <2>1. ASSUME TablesUnchanged PROVE Owner' = Owner
      BY <2>1, OwnerUnchanged DEF TablesUnchanged, contextVars
    <2>2. ASSUME NEW t \in Tunnel,
                 \/ OnOpen(t) \/ RedirectFails(t) \/ DestroyLater(t)
                 \/ \E seat \in PairID :
                      \/ OnReceive(t, seat)
                      \/ SendTimeout(<<t, seat>>) \/ ReceiveTimeout(<<t, seat>>)
          PROVE  Owner' = Owner
      BY <2>1, <2>2, QuietActions
    <2>3. ASSUME NEW t \in Tunnel, TunnelError(t) \/ TunnelDestroyed(t) \/ DestroyNow(t)
          PROVE  Allocation!Next
      BY <2>0, <2>3, ReleaseTunnelStep DEF TunnelError, TunnelDestroyed, DestroyNow, RemoveTunnel
    <2>4. ASSUME NEW src \in Source, SendOnPair(src) PROVE Owner' = Owner
      BY <2>1, <2>4, QuietActions
    <2>5. ASSUME NEW src \in Source, SendOnNewPair(src) PROVE Allocation!Next
      BY <2>0, <2>5, AllocateStep
    <2>6. ASSUME NEW src \in Source, SendWithoutSeat(src) PROVE Owner' = Owner
      BY <2>6, OwnerUnchanged DEF SendWithoutSeat
    <2>7. ASSUME NEW t \in Tunnel, NEW seat \in PairID, GcClosePair(t, seat)
          PROVE  Allocation!Next
      BY <2>0, <2>7, ReleaseStep DEF GcClosePair, ClosePair
    <2>8. CASE GcCollect \/ CleanUpUselessTunnels \/ UNCHANGED vars
      BY <2>1, <2>8, QuietActions
    <2> QED BY <1>2, <2>2, <2>3, <2>4, <2>5, <2>6, <2>7, <2>8 DEF Next
  <1>3. IInv /\ [Next]_vars => [Allocation!Next]_Owner
    BY <1>2
  <1>4. Spec => Allocation!Init /\ [][Allocation!Next]_Owner
    BY <1>1, <1>3, AlwaysIInv, PTL DEF Spec
  <1> QED BY <1>4, PTL DEF ImplementsAllocation, Allocation!Spec, Owner

--------------------------------------------------------------------------------
(* What PairAllocation promises about slots                                     *)

LoadOf(t) == Cardinality({s \in PairID : Owner[<<t, s>>] # NoSource})

(* A source has one slot at most, INVALID_PAIR_ID is nobody's, and no tunnel    *)
(* carries more pairs than --carrying-capacity says.                            *)
SlotsAreFairlyHeld ==
  /\ \A p, q \in Pair : Owner[p] # NoSource /\ Owner[p] = Owner[q] => p = q
  /\ \A t \in Tunnel : Owner[<<t, INVALID_PAIR_ID>>] = NoSource
  /\ \A t \in Tunnel : LoadOf(t) <= Capacity

(* The slots in use on a tunnel can be counted.                                 *)
LEMMA LoadIsFinite ==
  ASSUME NEW used, used \subseteq PairID
  PROVE  IsFiniteSet(used) /\ Cardinality(used) \in Nat
PROOF
  <1>1. IsFiniteSet(PairID)
    BY FS_Interval, CapacityAssumption DEF PairID
  <1> QED BY <1>1, FS_Subset, FS_CardinalityType

(* It follows from PairAllocation alone.                                        *)
LEMMA AllocationHoldsSlots == Allocation!Spec => []SlotsAreFairlyHeld
PROOF
  <1>1. Allocation!Init => SlotsAreFairlyHeld
    <2> SUFFICES ASSUME Allocation!Init PROVE SlotsAreFairlyHeld
      OBVIOUS
    <2>1. \A p \in Pair : Owner[p] = NoSource
      BY SlotsArePairs DEF Allocation!Init, Owner
    <2>2. \A t \in Tunnel, s \in PairID : Owner[<<t, s>>] = NoSource
      BY <2>1 DEF Pair
    <2>3. \A t \in Tunnel : LoadOf(t) = 0
      <3> TAKE t \in Tunnel
      <3>1. {s \in PairID : Owner[<<t, s>>] # NoSource} = {}
        BY <2>2
      <3> QED BY <3>1, FS_EmptySet DEF LoadOf
    <2> QED BY <2>1, <2>2, <2>3, SeatsArePairIDs, CapacityAssumption DEF SlotsAreFairlyHeld
  <1>2. ASSUME SlotsAreFairlyHeld, [Allocation!Next]_Owner PROVE SlotsAreFairlyHeld'
    <2> DEFINE Used(t) == {s \in PairID : Owner[<<t, s>>] # NoSource}
    <2>1. \A t \in Tunnel : /\ Allocation!Load(t) = LoadOf(t) /\ LoadOf(t) = Cardinality(Used(t))
                            /\ IsFiniteSet(Used(t)) /\ LoadOf(t) \in Nat
      <3> TAKE t \in Tunnel
      <3>1. Allocation!Load(t) = LoadOf(t)
        BY DEF Allocation!Load, LoadOf, Owner, Cardinality, Allocation!Cardinality
      <3> QED BY <3>1, LoadIsFinite DEF LoadOf
    <2>2. ASSUME \A p \in Pair : Owner'[p] \in {Owner[p], NoSource} PROVE SlotsAreFairlyHeld'
      <3>1. \A t \in Tunnel, s \in PairID : Owner'[<<t, s>>] \in {Owner[<<t, s>>], NoSource}
        BY <2>2 DEF Pair
      <3>2. \A t \in Tunnel : LoadOf(t)' <= Capacity
        <4> TAKE t \in Tunnel
        <4>1. Used(t)' \subseteq Used(t)
          BY <3>1
        <4>2. Cardinality(Used(t)') <= Cardinality(Used(t))
          BY <2>1, <4>1, FS_Subset
        <4>3. Cardinality(Used(t)') \in Nat
          BY LoadIsFinite
        <4> HIDE DEF Used
        <4> QED BY <1>2, <2>1, <4>2, <4>3, CapacityAssumption DEF SlotsAreFairlyHeld, LoadOf, Used
      <3>3. \A t \in Tunnel : Owner'[<<t, INVALID_PAIR_ID>>] = NoSource
        BY <1>2, <3>1, SeatsArePairIDs DEF SlotsAreFairlyHeld
      <3> QED BY <1>2, <2>2, <3>2, <3>3 DEF SlotsAreFairlyHeld, INVALID_PAIR_ID
    <2>3. ASSUME NEW src \in Source, NEW t \in Tunnel, NEW s \in PairID,
                 Allocation!Allocate(src, t, s)
          PROVE  SlotsAreFairlyHeld'
      <3>1. /\ \A p \in Pair : Owner[p] # src
            /\ s # INVALID_PAIR_ID /\ Owner[<<t, s>>] = NoSource
            /\ LoadOf(t) < Capacity
            /\ Owner' = [Owner EXCEPT ![<<t, s>>] = src]
        BY <2>1, <2>3, SlotsArePairs DEF Allocation!Allocate, Owner
      <3>2. \A p \in Pair : Owner'[p] = IF p = <<t, s>> THEN src ELSE Owner[p]
        BY <3>1 DEF Owner
      <3>3. \A u \in Tunnel, r \in PairID :
              Owner'[<<u, r>>] = IF u = t /\ r = s THEN src ELSE Owner[<<u, r>>]
        BY <3>2 DEF Pair
      <3>4. ASSUME NEW u \in Tunnel PROVE LoadOf(u)' <= Capacity
        <4>1. CASE u = t
          <5>1. Used(t)' = Used(t) \cup {s} /\ s \notin Used(t)
            BY <3>1, <3>3, NoSourceAssumption
          <5>2. Cardinality(Used(t) \cup {s}) = Cardinality(Used(t)) + 1
            BY <2>1, <5>1, FS_AddElement
          <5>3. LoadOf(t)' = LoadOf(t) + 1
            BY <2>1, <5>1, <5>2 DEF LoadOf
          <5> HIDE DEF Used
          <5> QED BY <2>1, <3>1, <4>1, <5>3, CapacityAssumption
        <4>2. CASE u # t
          <5>1. Used(u)' = Used(u)
            BY <3>3, <4>2
          <5> QED BY <1>2, <5>1 DEF LoadOf, SlotsAreFairlyHeld
        <4> QED BY <4>1, <4>2
      <3>5. \A u \in Tunnel : Owner'[<<u, INVALID_PAIR_ID>>] = NoSource
        BY <1>2, <3>1, <3>3, SeatsArePairIDs DEF SlotsAreFairlyHeld
      <3>6. \A p, q \in Pair : Owner'[p] # NoSource /\ Owner'[p] = Owner'[q] => p = q
        BY <1>2, <3>1, <3>2 DEF SlotsAreFairlyHeld
      <3> QED BY <3>4, <3>5, <3>6 DEF SlotsAreFairlyHeld, INVALID_PAIR_ID
    <2>4. ASSUME NEW t \in Tunnel, NEW s \in PairID, Allocation!Release(t, s)
          PROVE  \A p \in Pair : Owner'[p] \in {Owner[p], NoSource}
      BY <2>4 DEF Allocation!Release, Owner
    <2>5. ASSUME NEW t \in Tunnel, Allocation!ReleaseTunnel(t)
          PROVE  \A p \in Pair : Owner'[p] \in {Owner[p], NoSource}
      BY <2>5, SlotsArePairs DEF Allocation!ReleaseTunnel, Owner
    <2>6. CASE Owner' = Owner
      BY <2>2, <2>6
    <2> QED BY <1>2, <2>2, <2>3, <2>4, <2>5, <2>6 DEF Allocation!Next
  <1>3. SlotsAreFairlyHeld /\ [Allocation!Next]_Owner => SlotsAreFairlyHeld'
    BY <1>2
  <1> QED BY <1>1, <1>3, PTL DEF Allocation!Spec, Owner

(* So does the client: no source is served by two pairs, and no tunnel carries  *)
(* more than its capacity.                                                      *)
THEOREM ClientHoldsSlots == Spec => []SlotsAreFairlyHeld
PROOF
  <1> QED BY ClientImplementsAllocation, AllocationHoldsSlots, PTL DEF ImplementsAllocation

================================================================================
