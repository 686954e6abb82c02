--------------------------- MODULE TunnelIDPool_proof ---------------------------
(* Proofs about TunnelIDPool: for every pool size, every low mark and every     *)
(* number of tunnels, ids are unique, none is lost, and the counter is bounded. *)

EXTENDS TunnelIDPool, SequenceTheorems, FiniteSetTheorems, TLAPS

(* A queue, a counter and a set of ids in use account for all ids: the form in  *)
(* which the invariants are carried through FillPool and GetTunnelID, which one *)
(* action applies one after the other.                                          *)
Accounted(ids, last, used) ==
  /\ ids \in Seq(Nat)
  /\ last \in Nat \ {0}
  /\ used \in SUBSET Nat
  /\ IsFiniteSet(used)
  /\ \A i, j \in 1 .. Len(ids) : ids[i] = ids[j] => i = j
  /\ \A i \in 1 .. Len(ids) : ids[i] \notin used
  /\ Range(ids) \cup used = 1 .. (last - 1)
  /\ Len(ids) + Cardinality(used) = last - 1

IInv == Accounted(pool, lastTunnelID, live) /\ BoundedIds

(* The ids one refill adds are PoolSize + 1 consecutive numbers.                *)
LEMMA FreshIDsProperties ==
  ASSUME NEW last \in Nat
  PROVE  /\ FreshIDs(last) \in Seq(Nat)
         /\ Len(FreshIDs(last)) = PoolSize + 1
         /\ \A i \in 1 .. (PoolSize + 1) : FreshIDs(last)[i] = last + i - 1
PROOF
  <1>1. PoolSize + 1 \in Nat
    BY PoolAssumption
  <1>2. \A i \in 1 .. (PoolSize + 1) : last + i - 1 \in Nat
    BY <1>1
  <1> QED BY <1>1, <1>2, IsASeq DEF FreshIDs

(* Filling appends the next PoolSize + 1 numbers and moves the counter past     *)
(* them, so the account stays in balance.                                       *)
LEMMA FillKeepsAccount ==
  ASSUME NEW ids, NEW last, NEW used, Accounted(ids, last, used)
  PROVE  /\ Accounted(FillPool(ids, last), LastAfterFill(last), used)
         /\ FillPool(ids, last) # <<>>
PROOF
  <1> DEFINE n == Len(ids)
             fresh == FreshIDs(last)
             filled == FillPool(ids, last)
  <1>1. /\ ids \in Seq(Nat) /\ last \in Nat /\ last > 0 /\ n \in Nat
        /\ PoolSize \in Nat /\ PoolSize + 1 \in Nat
    BY PoolAssumption, LenProperties DEF Accounted
  <1>2. /\ fresh \in Seq(Nat) /\ Len(fresh) = PoolSize + 1
        /\ \A i \in 1 .. (PoolSize + 1) : fresh[i] = last + i - 1
    BY <1>1, FreshIDsProperties
  <1>3. /\ filled \in Seq(Nat)
        /\ Len(filled) = n + PoolSize + 1
        /\ \A i \in 1 .. n : filled[i] = ids[i]
        /\ \A i \in (n + 1) .. (n + PoolSize + 1) : filled[i] = last + i - n - 1
    <2>1. /\ filled \in Seq(Nat)
          /\ Len(filled) = n + (PoolSize + 1)
          /\ \A i \in 1 .. (n + (PoolSize + 1)) :
               filled[i] = IF i <= n THEN ids[i] ELSE fresh[i - n]
      <3> HIDE DEF fresh
      <3>1. /\ ids \o fresh \in Seq(Nat)
            /\ Len(ids \o fresh) = n + Len(fresh)
            /\ \A i \in 1 .. (n + Len(fresh)) :
                 (ids \o fresh)[i] = IF i <= n THEN ids[i] ELSE fresh[i - n]
        BY <1>1, <1>2, ConcatProperties
      <3>2. filled = ids \o fresh
        BY DEF FillPool, fresh
      <3> QED BY <3>1, <3>2, <1>2
    <2>2. ASSUME NEW i \in 1 .. n
          PROVE  filled[i] = ids[i]
      <3>1. i \in 1 .. (n + (PoolSize + 1)) /\ i <= n
        BY <1>1
      <3> QED BY <2>1, <3>1
    <2>3. ASSUME NEW i \in (n + 1) .. (n + PoolSize + 1)
          PROVE  filled[i] = last + i - n - 1
      <3>1. i \in 1 .. (n + (PoolSize + 1)) /\ ~(i <= n) /\ i - n \in 1 .. (PoolSize + 1)
        BY <1>1
      <3>2. filled[i] = fresh[i - n]
        BY <2>1, <3>1
      <3>3. fresh[i - n] = last + (i - n) - 1
        BY <1>2, <3>1
      <3> QED BY <3>1, <3>2, <3>3, <1>1
    <2> QED BY <2>1, <2>2, <2>3, <1>1
  <1>4. \A i \in 1 .. n : ids[i] \in 1 .. (last - 1)
    BY <1>1, LenProperties DEF Accounted, Range
  <1>5. \A u \in used : u \in 1 .. (last - 1)
    BY DEF Accounted
  <1>6. LastAfterFill(last) = last + PoolSize + 1 /\ LastAfterFill(last) \in Nat \ {0}
    BY <1>1 DEF LastAfterFill
  <1>7. \A i, j \in 1 .. Len(filled) : filled[i] = filled[j] => i = j
    <2> SUFFICES ASSUME NEW i \in 1 .. (n + PoolSize + 1),
                        NEW j \in 1 .. (n + PoolSize + 1),
                        filled[i] = filled[j]
                 PROVE  i = j
      BY <1>3
    <2>1. CASE i \in 1 .. n /\ j \in 1 .. n
      BY <2>1, <1>3 DEF Accounted
    <2>2. CASE i \in 1 .. n /\ j \in (n + 1) .. (n + PoolSize + 1)
      <3>1. filled[i] \in 1 .. (last - 1) /\ filled[j] = last + j - n - 1
        BY <2>2, <1>3, <1>4
      <3> QED BY <3>1, <2>2, <1>1
    <2>3. CASE i \in (n + 1) .. (n + PoolSize + 1) /\ j \in 1 .. n
      <3>1. filled[j] \in 1 .. (last - 1) /\ filled[i] = last + i - n - 1
        BY <2>3, <1>3, <1>4
      <3> QED BY <3>1, <2>3, <1>1
    <2>4. CASE i \in (n + 1) .. (n + PoolSize + 1) /\ j \in (n + 1) .. (n + PoolSize + 1)
      <3>1. filled[i] = last + i - n - 1 /\ filled[j] = last + j - n - 1
        BY <2>4, <1>3
      <3>2. last + i - n - 1 = last + j - n - 1
        BY <3>1
      <3>3. i \in Int /\ j \in Int
        BY <1>1
      <3> HIDE DEF n, filled
      <3> QED BY <3>2, <3>3, <1>1
    <2> QED BY <2>1, <2>2, <2>3, <2>4, <1>1
  <1>8. \A i \in 1 .. Len(filled) : filled[i] \notin used
    <2> SUFFICES ASSUME NEW i \in 1 .. (n + PoolSize + 1)
                 PROVE  filled[i] \notin used
      BY <1>3
    <2>1. CASE i \in 1 .. n
      BY <2>1, <1>3 DEF Accounted
    <2>2. CASE i \in (n + 1) .. (n + PoolSize + 1)
      <3>1. filled[i] = last + i - n - 1
        BY <2>2, <1>3
      <3>2. filled[i] \notin 1 .. (last - 1)
        BY <3>1, <2>2, <1>1
      <3> QED BY <3>2, <1>5
    <2> QED BY <2>1, <2>2, <1>1
  <1>9. Range(filled) \cup used = 1 .. (last + PoolSize)
    <2>1. ASSUME NEW x \in Range(filled) \cup used
          PROVE  x \in 1 .. (last + PoolSize)
      <3>1. CASE x \in used
        BY <3>1, <1>1, <1>5
      <3>2. CASE x \in Range(filled)
        <4>1. PICK i \in 1 .. (n + PoolSize + 1) : x = filled[i]
          BY <3>2, <1>1, <1>3, LenProperties DEF Range
        <4>2. CASE i \in 1 .. n
          <5>1. x \in 1 .. (last - 1)
            BY <4>1, <4>2, <1>3, <1>4
          <5> QED BY <5>1, <1>1
        <4>3. CASE i \in (n + 1) .. (n + PoolSize + 1)
          <5>1. x = last + i - n - 1
            BY <4>1, <4>3, <1>3
          <5> QED BY <5>1, <4>3, <1>1
        <4> QED BY <4>2, <4>3, <1>1
      <3> QED BY <2>1, <3>1, <3>2
    <2>2. ASSUME NEW x \in 1 .. (last + PoolSize)
          PROVE  x \in Range(filled) \cup used
      <3>1. CASE x < last
        <4>1. x \in Range(ids) \cup used
          BY <3>1, <1>1 DEF Accounted
        <4>2. CASE x \in Range(ids)
          <5>1. PICK i \in 1 .. n : x = ids[i]
            BY <4>2, <1>1, LenProperties DEF Range
          <5>2. i \in 1 .. (n + PoolSize + 1) /\ filled[i] = x
            BY <5>1, <1>1, <1>3
          <5> QED BY <5>2, <1>1, <1>3, LenProperties DEF Range
        <4> QED BY <4>1, <4>2
      <3>2. CASE x >= last
        <4> DEFINE i == n + (x - last) + 1
        <4>1. i \in 1 .. (n + PoolSize + 1) /\ i \in (n + 1) .. (n + PoolSize + 1)
          BY <3>2, <1>1
        <4>2. filled[i] = last + i - n - 1
          BY <4>1, <1>3
        <4>3. filled[i] = x
          BY <4>2, <1>1
        <4> QED BY <4>1, <4>3, <1>3, LenProperties DEF Range
      <3> QED BY <3>1, <3>2, <1>1
    <2> QED BY <2>1, <2>2
  <1>10. Len(filled) + Cardinality(used) = LastAfterFill(last) - 1
    <2> DEFINE c == Cardinality(used)
    <2>1. c \in Nat /\ n + c = last - 1
      BY FS_CardinalityType DEF Accounted
    <2>2. Len(filled) + c = (n + PoolSize + 1) + c
      BY <1>3
    <2> HIDE DEF c
    <2>3. Len(filled) + c = last + PoolSize
      BY <2>1, <2>2, <1>1
    <2> QED BY <2>3, <1>1, <1>6 DEF c
  <1>11. filled # <<>>
    BY <1>1, <1>3
  <1>12. LastAfterFill(last) - 1 = last + PoolSize
    BY <1>1, <1>6
  <1> HIDE DEF filled
  <1>13. Accounted(filled, LastAfterFill(last), used)
    BY <1>3, <1>6, <1>7, <1>8, <1>9, <1>10, <1>12 DEF Accounted
  <1> QED BY <1>11, <1>13 DEF filled

(* Taking the front id moves it from the queue to the ids in use.               *)
LEMMA GetKeepsAccount ==
  ASSUME NEW ids, NEW last, NEW used, Accounted(ids, last, used), ids # <<>>
  PROVE  Accounted(Tail(ids), last, used \cup {Head(ids)})
PROOF
  <1> DEFINE n == Len(ids)
             id == Head(ids)
             rest == Tail(ids)
             now == used \cup {id}
  <1>1. ids \in Seq(Nat) /\ n \in Nat /\ n >= 1 /\ last \in Nat
    BY LenProperties, EmptySeq DEF Accounted
  <1>2. /\ id = ids[1] /\ id \in Nat
        /\ rest \in Seq(Nat) /\ Len(rest) = n - 1
        /\ \A i \in 1 .. (n - 1) : rest[i] = ids[i + 1]
    BY <1>1, HeadTailProperties
  <1>3. \A i \in 1 .. (n - 1) : i + 1 \in 1 .. n /\ i + 1 # 1
    BY <1>1
  <1>4. 1 \in 1 .. n
    BY <1>1
  <1>5. id \notin used
    BY <1>2, <1>4 DEF Accounted
  <1>6. IsFiniteSet(now) /\ Cardinality(now) = Cardinality(used) + 1
    BY <1>5, FS_AddElement DEF Accounted
  <1>7. \A i, j \in 1 .. Len(rest) : rest[i] = rest[j] => i = j
    <2> SUFFICES ASSUME NEW i \in 1 .. (n - 1), NEW j \in 1 .. (n - 1), rest[i] = rest[j]
                 PROVE  i = j
      BY <1>2
    <2>1. i + 1 = j + 1
      BY <1>2, <1>3 DEF Accounted
    <2> QED BY <2>1, <1>1
  <1>8. \A i \in 1 .. Len(rest) : rest[i] \notin now
    <2> SUFFICES ASSUME NEW i \in 1 .. (n - 1)
                 PROVE  ids[i + 1] \notin used /\ ids[i + 1] # ids[1]
      BY <1>2
    <2> QED BY <1>3, <1>4 DEF Accounted
  <1>9. Range(rest) \cup now = 1 .. (last - 1)
    <2>1. Range(ids) = Range(rest) \cup {id}
      <3>1. ASSUME NEW x \in Range(ids)
            PROVE  x \in Range(rest) \cup {id}
        <4>1. PICK i \in 1 .. n : x = ids[i]
          BY <1>1, LenProperties DEF Range
        <4>2. CASE i = 1
          BY <4>1, <4>2, <1>2
        <4>3. CASE i # 1
          <5>1. i - 1 \in 1 .. (n - 1) /\ (i - 1) + 1 = i
            BY <4>3, <1>1
          <5>2. rest[i - 1] = x
            BY <5>1, <4>1, <1>2
          <5> QED BY <5>1, <5>2, <1>2, LenProperties DEF Range
        <4> QED BY <4>2, <4>3
      <3>2. ASSUME NEW x \in Range(rest) \cup {id}
            PROVE  x \in Range(ids)
        <4>1. CASE x = id
          BY <4>1, <1>1, <1>2, <1>4, LenProperties DEF Range
        <4>2. CASE x \in Range(rest)
          <5>1. PICK i \in 1 .. (n - 1) : x = rest[i]
            BY <4>2, <1>2, LenProperties DEF Range
          <5> QED BY <5>1, <1>1, <1>2, <1>3, LenProperties DEF Range
        <4> QED BY <3>2, <4>1, <4>2
      <3> QED BY <3>1, <3>2
    <2> QED BY <2>1 DEF Accounted
  <1>10. Len(rest) + Cardinality(now) = last - 1
    <2> DEFINE c == Cardinality(used)
    <2>1. c \in Nat /\ n + c = last - 1
      BY FS_CardinalityType DEF Accounted
    <2>2. Len(rest) + Cardinality(now) = (n - 1) + (c + 1)
      BY <1>2, <1>6
    <2> HIDE DEF c
    <2> QED BY <2>1, <2>2, <1>1
  <1>11. now \in SUBSET Nat
    BY <1>2 DEF Accounted
  <1> HIDE DEF rest, now
  <1>12. Accounted(rest, last, now)
    BY <1>2, <1>6, <1>7, <1>8, <1>9, <1>10, <1>11 DEF Accounted
  <1> QED BY <1>12 DEF rest, now, id

(* Putting an id back moves it the other way.                                   *)
LEMMA PutKeepsAccount ==
  ASSUME NEW ids, NEW last, NEW used, Accounted(ids, last, used), NEW id \in used
  PROVE  Accounted(Append(ids, id), last, used \ {id})
PROOF
  <1> DEFINE n == Len(ids)
             longer == Append(ids, id)
             now == used \ {id}
  <1>1. ids \in Seq(Nat) /\ n \in Nat /\ id \in Nat /\ last \in Nat
    BY LenProperties DEF Accounted
  <1>2. /\ longer \in Seq(Nat) /\ Len(longer) = n + 1
        /\ \A i \in 1 .. n : longer[i] = ids[i]
        /\ longer[n + 1] = id
    BY <1>1, AppendProperties
  <1>3. \A i \in 1 .. n : ids[i] \notin used /\ ids[i] # id
    BY DEF Accounted
  <1>4. \A i \in 1 .. (n + 1) : i \in 1 .. n \/ i = n + 1
    BY <1>1
  <1>5. IsFiniteSet(now) /\ Cardinality(now) = Cardinality(used) - 1
    BY FS_RemoveElement DEF Accounted
  <1>6. \A i, j \in 1 .. Len(longer) : longer[i] = longer[j] => i = j
    <2> SUFFICES ASSUME NEW i \in 1 .. (n + 1), NEW j \in 1 .. (n + 1),
                        longer[i] = longer[j]
                 PROVE  i = j
      BY <1>2
    <2>1. CASE i \in 1 .. n /\ j \in 1 .. n
      BY <2>1, <1>2 DEF Accounted
    <2>2. CASE i \in 1 .. n /\ j = n + 1
      BY <2>2, <1>2, <1>3
    <2>3. CASE i = n + 1 /\ j \in 1 .. n
      BY <2>3, <1>2, <1>3
    <2>4. CASE i = n + 1 /\ j = n + 1
      BY <2>4
    <2> QED BY <2>1, <2>2, <2>3, <2>4, <1>4
  <1>7. \A i \in 1 .. Len(longer) : longer[i] \notin now
    BY <1>2, <1>3, <1>4
  <1>8. Range(longer) = Range(ids) \cup {id}
    <2>1. ASSUME NEW x \in Range(longer)
          PROVE  x \in Range(ids) \cup {id}
      <3>1. PICK i \in 1 .. (n + 1) : x = longer[i]
        BY <1>2, LenProperties DEF Range
      <3>2. CASE i \in 1 .. n
        BY <3>1, <3>2, <1>1, <1>2, LenProperties DEF Range
      <3>3. CASE i = n + 1
        BY <3>1, <3>3, <1>2
      <3> QED BY <3>2, <3>3, <1>4
    <2>2. ASSUME NEW x \in Range(ids) \cup {id}
          PROVE  x \in Range(longer)
      <3>1. CASE x = id
        <4>1. n + 1 \in 1 .. (n + 1)
          BY <1>1
        <4> QED BY <3>1, <4>1, <1>2, LenProperties DEF Range
      <3>2. CASE x \in Range(ids)
        <4>1. PICK i \in 1 .. n : x = ids[i]
          BY <3>2, <1>1, LenProperties DEF Range
        <4>2. i \in 1 .. (n + 1)
          BY <1>1
        <4> QED BY <4>1, <4>2, <1>2, LenProperties DEF Range
      <3> QED BY <2>2, <3>1, <3>2
    <2> QED BY <2>1, <2>2
  <1>9. Range(longer) \cup now = 1 .. (last - 1)
    BY <1>8 DEF Accounted
  <1>10. Len(longer) + Cardinality(now) = last - 1
    <2> DEFINE c == Cardinality(used)
    <2>1. c \in Nat /\ n + c = last - 1
      BY FS_CardinalityType DEF Accounted
    <2>2. Len(longer) + Cardinality(now) = (n + 1) + (c - 1)
      BY <1>2, <1>5
    <2> HIDE DEF c
    <2> QED BY <2>1, <2>2, <1>1
  <1>11. now \in SUBSET Nat
    BY DEF Accounted
  <1> HIDE DEF longer, now
  <1>12. Accounted(longer, last, now)
    BY <1>2, <1>5, <1>6, <1>7, <1>9, <1>10, <1>11 DEF Accounted
  <1> QED BY <1>12 DEF longer, now

(* The constructor's first fill leaves a queue that accounts for its ids.       *)
LEMMA InitAccounted == Init => IInv
PROOF
  <1> SUFFICES ASSUME Init PROVE IInv
    OBVIOUS
  <1>1. Accounted(<<>>, INVALID_TUNNEL_ID + 1, {})
    <2>1. /\ <<>> \in Seq(Nat) /\ Len(<<>>) = 0
      OBVIOUS
    <2>2. Range(<<>>) = {}
      <3>1. DOMAIN <<>> = {}
        BY <2>1, LenProperties
      <3> QED BY <3>1 DEF Range
    <2>3. INVALID_TUNNEL_ID + 1 = 1 /\ 1 .. (1 - 1) = {} /\ 1 .. 0 = {}
      BY DEF INVALID_TUNNEL_ID
    <2>4. IsFiniteSet({}) /\ Cardinality({}) = 0
      BY FS_EmptySet
    <2>5. Len(<<>>) + Cardinality({}) = 1 - 1
      BY <2>1, <2>4
    <2>6. Accounted(<<>>, 1, {})
      <3>1. Range(<<>>) \cup {} = 1 .. (1 - 1)
        BY <2>2, <2>3
      <3>2. 1 .. Len(<<>>) = {}
        BY <2>1, <2>3
      <3> QED BY <2>1, <2>4, <2>5, <3>1, <3>2 DEF Accounted
    <2> QED BY <2>3, <2>6
  <1>2. Accounted(pool, lastTunnelID, live)
    BY <1>1, FillKeepsAccount DEF Init
  <1>3. lastTunnelID = PoolSize + 2
    BY PoolAssumption DEF Init, LastAfterFill, INVALID_TUNNEL_ID
  <1>4. LowWater \in Nat
    BY PoolAssumption DEF LowWater
  <1>5. BoundedIds
    BY <1>3, <1>4, PoolAssumption DEF BoundedIds
  <1> QED BY <1>2, <1>5 DEF IInv

(* Creations, with and without a refill, and put-backs keep the account.        *)
LEMMA NextKeepsAccount == IInv /\ [Next]_vars => IInv'
PROOF
  <1> SUFFICES ASSUME IInv, [Next]_vars PROVE IInv'
    OBVIOUS
  <1> USE DEF IInv
  <1>1. CASE CreateTunnel
    <2>1. Accounted(pool, lastTunnelID, live)'
      BY <1>1, GetKeepsAccount DEF CreateTunnel, GetTunnelID
    <2>2. BoundedIds'
      BY <1>1 DEF CreateTunnel, BoundedIds
    <2> QED BY <2>1, <2>2
  <1>2. CASE FillAndCreateTunnel
    <2> DEFINE filled == FillPool(pool, lastTunnelID)
               after == LastAfterFill(lastTunnelID)
    <2>1. Accounted(filled, after, live) /\ filled # <<>>
      BY FillKeepsAccount
    <2>2. Accounted(Tail(filled), after, live \cup {Head(filled)})
      BY <2>1, GetKeepsAccount
    <2>3. Accounted(pool, lastTunnelID, live)'
      BY <1>2, <2>2 DEF FillAndCreateTunnel, GetTunnelID
    <2>4. BoundedIds'
      <3> DEFINE n == Len(pool)
                 c == Cardinality(live)
      <3>1. /\ n \in Nat /\ c \in Nat /\ n + c = lastTunnelID - 1
            /\ lastTunnelID \in Nat
        BY FS_CardinalityType, LenProperties DEF Accounted
      <3>2. n <= LowWater /\ c < MaxLive /\ lastTunnelID' = lastTunnelID + PoolSize + 1
        BY <1>2 DEF FillAndCreateTunnel, LastAfterFill
      <3>3. LowWater \in Nat
        BY PoolAssumption DEF LowWater
      <3>4. MaxLive' = MaxLive /\ LowWater' = LowWater /\ PoolSize' = PoolSize
        BY DEF LowWater
      <3> HIDE DEF n, c
      <3> QED BY <3>1, <3>2, <3>3, PoolAssumption DEF BoundedIds, LowWater
    <2> QED BY <2>3, <2>4
  <1>3. ASSUME NEW id \in live, PutTunnelID(id)
        PROVE  IInv'
    <2>1. Accounted(pool, lastTunnelID, live)'
      BY <1>3, PutKeepsAccount DEF PutTunnelID
    <2>2. BoundedIds'
      BY <1>3 DEF PutTunnelID, BoundedIds
    <2> QED BY <2>1, <2>2
  <1>4. CASE UNCHANGED vars
    BY <1>4 DEF vars, Accounted, BoundedIds
  <1> QED BY <1>1, <1>2, <1>3, <1>4 DEF Next

(* Every reachable state accounts for all ids.                                  *)
LEMMA AlwaysAccounted == Spec => []IInv
PROOF
  <1> QED BY InitAccounted, NextKeepsAccount, PTL DEF Spec

(* A tunnel id names one tunnel at a time.                                      *)
THEOREM UniqueTunnelIds == Spec => []IdsAreUnique
PROOF
  <1>1. IInv => IdsAreUnique
    <2> SUFFICES ASSUME IInv PROVE IdsAreUnique
      OBVIOUS
    <2>1. DOMAIN pool = 1 .. Len(pool)
      BY LenProperties DEF IInv, Accounted
    <2> QED BY <2>1 DEF IInv, Accounted, IdsAreUnique
  <1> QED BY <1>1, AlwaysAccounted, PTL

(* Ids are neither lost nor invented, and 0 is never one of them.               *)
THEOREM ConservedTunnelIds == Spec => []IdsAreConserved
PROOF
  <1>1. IInv => IdsAreConserved
    BY DEF IInv, Accounted, IdsAreConserved
  <1> QED BY <1>1, AlwaysAccounted, PTL

(* The id counter is bounded by the tunnels alive together and the pool's size. *)
THEOREM BoundedTunnelIds == Spec => []BoundedIds
PROOF
  <1>1. IInv => BoundedIds
    BY DEF IInv
  <1> QED BY <1>1, AlwaysAccounted, PTL

(* Type correctness of the pool, its counter and the ids in use.                *)
THEOREM TunnelIDPoolTypes == Spec => []TypeOK
PROOF
  <1>1. IInv => TypeOK
    BY DEF IInv, Accounted, TypeOK
  <1> QED BY <1>1, AlwaysAccounted, PTL

================================================================================
