------------------------ MODULE ServerPairManager_proof ------------------------
(* Proofs about ServerPairManager, for any number of tunnels, ids and pair      *)
(* objects, with sockets that fail or do not: whatever the two threads do to    *)
(* the same pairs, what is in a table is alive, what is alive can be found, no  *)
(* successor is unlinked, and a tunnel that is gone has left nothing.           *)

EXTENDS ServerPairManager, TLAPS

Labels == {"idle", "add", "send", "gc", "scan", "judge",
           "close", "unlink", "stop", "mark", "erase", "crashed"}
Closing == {"unlink", "stop", "mark"}  \* inside Pair::close, with its mutex

InTable(p) == table[p[1]][p[2]] = p

Threads == pc \in [Thread -> Labels]

(* A pair's mutex and the thread that is closing it know each other.            *)
OneCloser ==
  /\ \A th \in Thread : pc[th] \in Closing => cur[th] \in Pair /\ closeMutex[cur[th]] = th
  /\ \A p \in Pair : closeMutex[p] # None =>
       pc[closeMutex[p]] \in Closing /\ cur[closeMutex[p]] = p

(* How far a close has come and what is undone by then.  W is the only one who  *)
(* adds, so after its own unlink the place stays empty; after L's it may not.   *)
Undone ==
  /\ \A th \in Thread :
       /\ pc[th] = "unlink" => InTable(cur[th])
       /\ pc[th] \in Closing => cur[th] \notin closed
       /\ pc[th] \in {"stop", "mark"} => ~InTable(cur[th])
       /\ pc[th] = "mark" => udp[cur[th]] = "stopped"
  /\ pc["W"] \in {"stop", "mark"} => table[cur["W"][1]][cur["W"][2]] = None

(* A closed pair has no socket, an open one is in the table, or W is about to   *)
(* put it there, or somebody is closing it.                                     *)
OpenPairs ==
  /\ \A p \in closed : udp[p] = "stopped"
  /\ \A p \in Pair \ closed :
       InTable(p) \/ (pc["W"] = "add" /\ cur["W"] = p) \/ closeMutex[p] # None

(* A pair that W has made and not yet added is known to W only.                 *)
NewPair ==
  pc["W"] = "add" =>
    /\ cur["W"] \in Pair \ closed
    /\ udp[cur["W"]] # "stopped" /\ closeMutex[cur["W"]] = None
    /\ table[cur["W"][1]][cur["W"][2]] = None
    /\ cur["W"] \notin todo["L"] \cup scan /\ cur["W"] # cur["L"]

(* W works on pairs of connected tunnels, or closes those of one that is not:   *)
(* what is left in that one's table is in its vector.                           *)
Tunnels ==
  /\ connected \subseteq tunnels
  /\ pc["W"] \in {"add", "send"} => cur["W"] \in Pair /\ cur["W"][1] \in connected
  /\ pc["W"] \in {"close", "erase"} \cup Closing => at["W"] \in tunnels \ connected
  /\ pc["W"] \in Closing => cur["W"][1] = at["W"]
  /\ \A p \in todo["W"] : p[1] = at["W"] /\ pc["W"] \in {"close"} \cup Closing
  /\ \A p \in Pair : InTable(p) /\ p[1] \notin connected =>
       /\ pc["W"] \in {"close"} \cup Closing /\ at["W"] = p[1]
       /\ p \in todo["W"] \/ (pc["W"] = "unlink" /\ cur["W"] = p)

(* The collector judges a pair.                                                 *)
Judged == pc["L"] = "judge" => cur["L"] \in Pair

IInv ==
  /\ TypeOK /\ Threads /\ OneCloser /\ Undone /\ OpenPairs /\ RegisteredPairIsLive
  /\ NewPair /\ Tunnels /\ Judged

--------------------------------------------------------------------------------
(* The tunnel and the id of a pair.                                             *)
LEMMA PairParts == \A p \in Pair : p[1] \in Tunnel /\ p[2] \in PairID
PROOF BY DEF Pair

(* A free mutex is no thread, a null pointer no pair.                           *)
LEMMA NoneIsNone == None \notin Tunnel /\ None \notin Thread /\ None \notin Pair
PROOF BY ServerConstantsAssumption DEF Thread, Pair

(* A tunnel is opened: its table is empty, since no tunnel was there.           *)
LEMMA OpenIInv ==
  ASSUME IInv, NEW t \in Tunnel, Open(t)
  PROVE  IInv'
PROOF
  <1> USE PairParts, NoneIsNone DEF Thread, Open, Idle, Running,
                                   tableVars, pairVars, lockVars, threadVars, gcVars
  <1>1. TypeOK'
    BY DEF IInv, TypeOK
  <1>2. Threads'
    BY DEF IInv, Threads
  <1>3. OneCloser'
    BY DEF IInv, OneCloser
  <1>4. Undone'
    BY DEF IInv, Undone, InTable
  <1>5. OpenPairs'
    BY DEF IInv, OpenPairs, InTable
  <1>6. RegisteredPairIsLive'
    BY DEF IInv, RegisteredPairIsLive
  <1>7. NewPair'
    BY DEF NewPair
  <1>8. Tunnels'
    BY DEF IInv, Tunnels, InTable
  <1>9. Judged'
    BY DEF IInv, Judged
  <1> QED BY <1>1, <1>2, <1>3, <1>4, <1>5, <1>6, <1>7, <1>8, <1>9 DEF IInv

(* The tunnel's close: all that is in its table is in W's vector.               *)
LEMMA OnCloseIInv ==
  ASSUME IInv, NEW t \in Tunnel, OnClose(t)
  PROVE  IInv'
PROOF
  <1> USE PairParts, NoneIsNone DEF Thread, OnClose, Idle, Running, Goto,
                                   tableVars, pairVars, lockVars, threadVars, gcVars
  <1>1. TypeOK'
    BY DEF IInv, TypeOK, Registered, PairsOf
  <1>2. Threads'
    BY DEF IInv, Threads, Labels
  <1>3. OneCloser'
    BY DEF IInv, OneCloser, Closing
  <1>4. Undone'
    BY DEF IInv, Undone, Closing, InTable
  <1>5. OpenPairs'
    BY DEF IInv, OpenPairs, InTable
  <1>6. RegisteredPairIsLive'
    BY DEF IInv, RegisteredPairIsLive
  <1>7. NewPair'
    BY DEF NewPair
  <1>8. Tunnels'
    BY DEF IInv, TypeOK, Threads, Tunnels, Closing, InTable, Registered, PairsOf
  <1>9. Judged'
    BY DEF IInv, Judged
  <1> QED BY <1>1, <1>2, <1>3, <1>4, <1>5, <1>6, <1>7, <1>8, <1>9 DEF IInv

(* The tunnel goes, with an empty table.                                        *)
LEMMA EraseTunnelIInv ==
  ASSUME IInv, EraseTunnel
  PROVE  IInv'
PROOF
  <1> USE PairParts, NoneIsNone DEF Thread, EraseTunnel, At, Running, Goto,
                                   tableVars, pairVars, lockVars, threadVars, gcVars
  <1>1. TypeOK'
    BY DEF IInv, TypeOK
  <1>2. Threads'
    BY DEF IInv, Threads, Labels
  <1>3. OneCloser'
    BY DEF IInv, OneCloser, Closing
  <1>4. Undone'
    BY DEF IInv, Undone, Closing, InTable
  <1>5. OpenPairs'
    BY DEF IInv, OpenPairs, InTable
  <1>6. RegisteredPairIsLive'
    BY DEF IInv, RegisteredPairIsLive
  <1>7. NewPair'
    BY DEF NewPair
  <1>8. Tunnels'
    BY DEF IInv, Threads, Tunnels, Closing, InTable
  <1>9. Judged'
    BY DEF IInv, Judged
  <1> QED BY <1>1, <1>2, <1>3, <1>4, <1>5, <1>6, <1>7, <1>8, <1>9 DEF IInv

(* A pair is found, ...                                                         *)
LEMMA FindPairIInv ==
  ASSUME IInv, NEW t \in Tunnel, NEW id \in PairID, FindPair(t, id)
  PROVE  IInv'
PROOF
  <1> USE PairParts, NoneIsNone DEF Thread, FindPair, Idle, Running, Goto,
                                   tableVars, pairVars, lockVars, threadVars, gcVars
  <1>1. TypeOK'
    BY DEF IInv, TypeOK
  <1>2. Threads'
    BY DEF IInv, Threads, Labels
  <1>3. OneCloser'
    BY DEF IInv, OneCloser, Closing
  <1>4. Undone'
    BY DEF IInv, Undone, Closing, InTable
  <1>5. OpenPairs'
    BY DEF IInv, OpenPairs, InTable
  <1>6. RegisteredPairIsLive'
    BY DEF IInv, RegisteredPairIsLive
  <1>7. NewPair'
    BY DEF NewPair
  <1>8. Tunnels'
    BY DEF IInv, TypeOK, Tunnels, RegisteredPairIsLive, Closing, InTable
  <1>9. Judged'
    BY DEF IInv, Judged
  <1> QED BY <1>1, <1>2, <1>3, <1>4, <1>5, <1>6, <1>7, <1>8, <1>9 DEF IInv

(* ... or made, from what nobody refers to, ...                                 *)
LEMMA CreatePairIInv ==
  ASSUME IInv, NEW t \in Tunnel, NEW id \in PairID, CreatePair(t, id)
  PROVE  IInv'
PROOF
  <1> USE PairParts, NoneIsNone DEF Thread, CreatePair, FreshPairs, PairsOf, Referenced,
                                   Idle, Running, Goto,
                                   tableVars, pairVars, lockVars, threadVars, gcVars
  <1>1. TypeOK'
    BY DEF IInv, TypeOK
  <1>2. Threads'
    BY DEF IInv, Threads, Labels
  <1>3. OneCloser'
    BY DEF IInv, OneCloser, Closing
  <1>4. Undone'
    BY DEF IInv, TypeOK, Undone, InTable
  <1>5. OpenPairs'
    BY DEF IInv, TypeOK, Threads, OpenPairs, InTable
  <1>6. RegisteredPairIsLive'
    BY DEF IInv, RegisteredPairIsLive
  <1>7. NewPair'
    BY DEF IInv, TypeOK, NewPair, OneCloser
  <1>8. Tunnels'
    BY DEF IInv, TypeOK, Tunnels, Closing, InTable
  <1>9. Judged'
    BY DEF IInv, Judged
  <1> QED BY <1>1, <1>2, <1>3, <1>4, <1>5, <1>6, <1>7, <1>8, <1>9 DEF IInv

(* ... or not, ...                                                              *)
LEMMA CreatePairFailsIInv ==
  ASSUME IInv, NEW t \in Tunnel, NEW id \in PairID, CreatePairFails(t, id)
  PROVE  IInv'
PROOF
  <1> USE PairParts, NoneIsNone DEF Thread, CreatePairFails, Idle, Running, Goto,
                                   tableVars, pairVars, lockVars, threadVars, gcVars
  <1>1. TypeOK'
    BY DEF IInv, TypeOK
  <1>2. Threads'
    BY DEF IInv, Threads, Labels
  <1>3. OneCloser'
    BY DEF IInv, OneCloser, Closing
  <1>4. Undone'
    BY DEF IInv, Undone, Closing, InTable
  <1>5. OpenPairs'
    BY DEF IInv, OpenPairs, InTable
  <1>6. RegisteredPairIsLive'
    BY DEF IInv, RegisteredPairIsLive
  <1>7. NewPair'
    BY DEF NewPair
  <1>8. Tunnels'
    BY DEF IInv, Tunnels, Closing, InTable
  <1>9. Judged'
    BY DEF IInv, Judged
  <1> QED BY <1>1, <1>2, <1>3, <1>4, <1>5, <1>6, <1>7, <1>8, <1>9 DEF IInv

(* ... and added, to a place that is still empty.                               *)
LEMMA AddPairIInv ==
  ASSUME IInv, AddPair
  PROVE  IInv'
PROOF
  <1> USE PairParts, NoneIsNone DEF Thread, AddPair, At, Running, Goto,
                                   tableVars, pairVars, lockVars, threadVars, gcVars
  <1>1. TypeOK'
    BY DEF IInv, TypeOK, Tunnels
  <1>2. Threads'
    BY DEF IInv, Threads, Labels
  <1>3. OneCloser'
    BY DEF IInv, OneCloser, Closing
  <1>4. Undone'
    BY DEF IInv, OneCloser, Undone, NewPair, Closing, InTable
  <1>5. OpenPairs'
    BY DEF IInv, TypeOK, OpenPairs, NewPair, InTable
  <1>6. ASSUME NEW t \in Tunnel, NEW id \in PairID, table'[t][id] # None
        PROVE  /\ table'[t][id][1] = t /\ table'[t][id][2] = id
               /\ table'[t][id] \notin closed' /\ udp'[table'[t][id]] # "stopped"
    <2>1. CASE table'[t][id] = table[t][id]
      <3>1. /\ table[t][id][1] = t /\ table[t][id][2] = id
            /\ table[t][id] \notin closed /\ udp[table[t][id]] # "stopped"
        BY <1>6, <2>1, Zenon DEF IInv, RegisteredPairIsLive
      <3>2. closed' = closed /\ udp' = udp
        OBVIOUS
      <3> QED BY <2>1, <3>1, <3>2, Zenon
    <2>2. CASE table'[t][id] # table[t][id]
      <3>1. cur["W"] \in Pair \ closed /\ udp[cur["W"]] # "stopped"
        BY DEF IInv, NewPair
      <3>2. t = cur["W"][1] /\ id = cur["W"][2] /\ table'[t][id] = cur["W"]
        BY <2>2, <3>1 DEF IInv, TypeOK
      <3> QED BY <3>1, <3>2
    <2> QED BY <2>1, <2>2
  <1>7. NewPair'
    BY DEF IInv, Threads, NewPair
  <1>8. Tunnels'
    BY DEF IInv, Tunnels, Closing, InTable
  <1>9. Judged'
    BY DEF IInv, Judged
  <1> QED BY <1>1, <1>2, <1>3, <1>4, <1>5, <1>6, <1>7, <1>8, <1>9 DEF IInv, RegisteredPairIsLive

(* A message is sent.                                                           *)
LEMMA SendIInv ==
  ASSUME IInv, Send
  PROVE  IInv'
PROOF
  <1> USE PairParts, NoneIsNone DEF Thread, Send, At, Running, Goto,
                                   tableVars, pairVars, lockVars, threadVars, gcVars
  <1>1. TypeOK'
    <2>1. silentSend' \in SUBSET Pair
      BY DEF IInv, TypeOK
    <2>2. ahead' \in BOOLEAN
      BY Zenon DEF IInv, TypeOK
    <2>3. pc' = [pc EXCEPT !["W"] = "idle"] /\ cur' = [cur EXCEPT !["W"] = None]
      OBVIOUS
    <2> QED BY <2>1, <2>2, <2>3 DEF IInv, TypeOK, Threads
  <1>2. Threads'
    BY DEF IInv, Threads, Labels
  <1>3. OneCloser'
    BY DEF IInv, OneCloser, Closing
  <1>4. Undone'
    BY DEF IInv, TypeOK, Undone, InTable
  <1>5. OpenPairs'
    BY DEF IInv, OpenPairs, InTable
  <1>6. RegisteredPairIsLive'
    BY DEF IInv, RegisteredPairIsLive
  <1>7. NewPair'
    BY DEF NewPair
  <1>8. Tunnels'
    BY DEF IInv, Threads, Tunnels, Closing, InTable
  <1>9. Judged'
    BY DEF IInv, Judged
  <1> QED BY <1>1, <1>2, <1>3, <1>4, <1>5, <1>6, <1>7, <1>8, <1>9 DEF IInv

(* Pair::close, by either thread.  What is closed already is in no table.       *)
LEMMA SkipClosedIInv ==
  ASSUME IInv, NEW th \in Thread, SkipClosed(th)
  PROVE  IInv'
PROOF
  <1> USE PairParts, NoneIsNone DEF Thread, SkipClosed, At, Running,
                                   tableVars, pairVars, lockVars, threadVars, gcVars
  <1>1. TypeOK'
    BY DEF IInv, TypeOK
  <1>2. Threads'
    BY DEF IInv, Threads
  <1>3. OneCloser'
    BY DEF IInv, OneCloser
  <1>4. Undone'
    BY DEF IInv, Undone, InTable
  <1>5. OpenPairs'
    BY DEF IInv, OpenPairs, InTable
  <1>6. RegisteredPairIsLive'
    BY DEF IInv, RegisteredPairIsLive
  <1>7. NewPair'
    BY DEF IInv, NewPair
  <1>8. Tunnels'
    BY DEF IInv, Tunnels, RegisteredPairIsLive, InTable
  <1>9. Judged'
    BY DEF IInv, Judged
  <1> QED BY <1>1, <1>2, <1>3, <1>4, <1>5, <1>6, <1>7, <1>8, <1>9 DEF IInv

(* What is not closed, in a vector and nobody's to close, is in the table.      *)
LEMMA BeginCloseIInv ==
  ASSUME IInv, NEW th \in Thread, BeginClose(th)
  PROVE  IInv'
PROOF
  <1> USE PairParts, NoneIsNone DEF Thread, BeginClose, At, Running, Goto,
                                   tableVars, pairVars, lockVars, threadVars, gcVars
  <1>1. TypeOK'
    BY DEF IInv, TypeOK
  <1>2. Threads'
    BY DEF IInv, Threads, Labels
  <1>3. OneCloser'
    BY DEF IInv, TypeOK, Threads, OneCloser, Closing
  <1>4. Undone'
    BY DEF IInv, TypeOK, Undone, NewPair, InTable, OpenPairs
  <1>5. OpenPairs'
    BY DEF IInv, OpenPairs, InTable
  <1>6. RegisteredPairIsLive'
    BY DEF IInv, RegisteredPairIsLive
  <1>7. NewPair'
    BY DEF IInv, NewPair
  <1>8. Tunnels'
    BY DEF IInv, TypeOK, Threads, Tunnels, Closing, InTable
  <1>9. Judged'
    BY DEF IInv, Judged
  <1> QED BY <1>1, <1>2, <1>3, <1>4, <1>5, <1>6, <1>7, <1>8, <1>9 DEF IInv

(* The entry that is erased is the pair's own.                                  *)
LEMMA UnlinkIInv ==
  ASSUME IInv, NEW th \in Thread, Unlink(th)
  PROVE  IInv'
PROOF
  <1> USE PairParts, NoneIsNone DEF Thread, Unlink, At, Running, Goto,
                                   tableVars, pairVars, lockVars, threadVars, gcVars
  <1>1. TypeOK'
    BY DEF IInv, TypeOK, Threads
  <1>2. Threads'
    BY DEF IInv, Threads, Labels
  <1>3. OneCloser'
    BY DEF IInv, OneCloser, Closing
  <1>4. Undone'
    BY DEF IInv, TypeOK, Threads, OneCloser, Undone, Closing, InTable
  <1>5. OpenPairs'
    BY DEF IInv, OneCloser, OpenPairs, Closing, InTable, Undone
  <1>6. RegisteredPairIsLive'
    BY DEF IInv, RegisteredPairIsLive
  <1>7. NewPair'
    BY DEF IInv, NewPair
  <1>8. Tunnels'
    BY DEF IInv, TypeOK, Tunnels, Closing, InTable
  <1>9. Judged'
    BY DEF IInv, Judged
  <1> QED BY <1>1, <1>2, <1>3, <1>4, <1>5, <1>6, <1>7, <1>8, <1>9 DEF IInv

(* The socket that is stopped is in no table.                                   *)
LEMMA StopSocketIInv ==
  ASSUME IInv, NEW th \in Thread, StopSocket(th)
  PROVE  IInv'
PROOF
  <1> USE PairParts, NoneIsNone DEF Thread, StopSocket, At, Running, Goto,
                                   tableVars, pairVars, lockVars, threadVars, gcVars
  <1>1. TypeOK'
    BY DEF IInv, TypeOK, Threads
  <1>2. Threads'
    BY DEF IInv, Threads, Labels
  <1>3. OneCloser'
    BY DEF IInv, OneCloser, Closing
  <1>4. Undone'
    BY DEF IInv, TypeOK, OneCloser, Undone, Closing, InTable
  <1>5. OpenPairs'
    BY DEF IInv, OpenPairs, InTable
  <1>6. RegisteredPairIsLive'
    BY DEF IInv, RegisteredPairIsLive, Undone, InTable
  <1>7. NewPair'
    BY DEF IInv, NewPair
  <1>8. Tunnels'
    BY DEF IInv, Tunnels, Closing, InTable
  <1>9. Judged'
    BY DEF IInv, Judged
  <1> QED BY <1>1, <1>2, <1>3, <1>4, <1>5, <1>6, <1>7, <1>8, <1>9 DEF IInv

(* What is marked has no socket.                                                *)
LEMMA MarkClosedIInv ==
  ASSUME IInv, NEW th \in Thread, MarkClosed(th)
  PROVE  IInv'
PROOF
  <1> USE PairParts, NoneIsNone DEF Thread, MarkClosed, At, Running, Goto,
                                   tableVars, pairVars, lockVars, threadVars, gcVars
  <1>1. TypeOK'
    BY DEF IInv, TypeOK, OneCloser, Closing
  <1>2. Threads'
    BY DEF IInv, Threads, Labels
  <1>3. OneCloser'
    BY DEF IInv, TypeOK, Threads, OneCloser, Closing
  <1>4. Undone'
    BY DEF IInv, Threads, OneCloser, Undone, Closing, InTable
  <1>5. OpenPairs'
    BY DEF IInv, OpenPairs, InTable, Undone
  <1>6. RegisteredPairIsLive'
    BY DEF IInv, RegisteredPairIsLive, Undone
  <1>7. NewPair'
    BY DEF IInv, NewPair
  <1>8. Tunnels'
    BY DEF IInv, Threads, Tunnels, Closing, InTable
  <1>9. Judged'
    BY DEF IInv, Judged
  <1> QED BY <1>1, <1>2, <1>3, <1>4, <1>5, <1>6, <1>7, <1>8, <1>9 DEF IInv

(* The vector is empty.                                                         *)
LEMMA EndClosingIInv ==
  ASSUME IInv, NEW th \in Thread, EndClosing(th)
  PROVE  IInv'
PROOF
  <1> USE PairParts, NoneIsNone DEF Thread, EndClosing, At, Running, Goto,
                                   tableVars, pairVars, lockVars, threadVars, gcVars
  <1>1. TypeOK'
    BY DEF IInv, TypeOK
  <1>2. Threads'
    BY DEF IInv, Threads, Labels
  <1>3. OneCloser'
    BY DEF IInv, OneCloser, Closing
  <1>4. Undone'
    BY DEF IInv, Undone, Closing, InTable
  <1>5. OpenPairs'
    BY DEF IInv, OpenPairs, InTable
  <1>6. RegisteredPairIsLive'
    BY DEF IInv, RegisteredPairIsLive
  <1>7. NewPair'
    BY DEF IInv, NewPair
  <1>8. Tunnels'
    BY DEF IInv, Tunnels, Closing, InTable
  <1>9. Judged'
    BY DEF IInv, Judged
  <1> QED BY <1>1, <1>2, <1>3, <1>4, <1>5, <1>6, <1>7, <1>8, <1>9 DEF IInv

(* L: a socket starts to receive, which is as little stopped as before.         *)
LEMMA StartRecvIInv ==
  ASSUME IInv, NEW p \in Pair, StartRecv(p)
  PROVE  IInv'
PROOF
  <1> USE PairParts, NoneIsNone DEF Thread, StartRecv, Idle, Running,
                                   tableVars, pairVars, lockVars, threadVars, gcVars
  <1>1. TypeOK'
    BY DEF IInv, TypeOK
  <1>2. Threads'
    BY DEF IInv, Threads
  <1>3. OneCloser'
    BY DEF IInv, OneCloser
  <1>4. Undone'
    BY DEF IInv, Undone, InTable
  <1>5. OpenPairs'
    BY DEF IInv, OpenPairs, InTable
  <1>6. RegisteredPairIsLive'
    BY DEF IInv, RegisteredPairIsLive
  <1>7. NewPair'
    BY DEF IInv, NewPair
  <1>8. Tunnels'
    BY DEF IInv, Tunnels, InTable
  <1>9. Judged'
    BY DEF Judged
  <1> QED BY <1>1, <1>2, <1>3, <1>4, <1>5, <1>6, <1>7, <1>8, <1>9 DEF IInv

--------------------------------------------------------------------------------
(* What the collector does before it closes, and what time does, leave tables,  *)
(* sockets and mutexes of pairs alone, and look at pairs in the table only.     *)
LEMMA AsideIInv ==
  ASSUME IInv, TypeOK', Threads', Judged',
         UNCHANGED <<tableVars, udp, closed, closeMutex>>,
         UNCHANGED <<pc["W"], cur["W"], at["W"], todo["W"]>>,
         \/ UNCHANGED <<pc["L"], cur["L"]>>
         \/ {pc["L"], pc'["L"]} \cap Closing = {},
         pc["W"] = "add" => cur["W"] \notin todo'["L"] \cup scan' /\ cur["W"] # cur'["L"]
  PROVE  IInv'
PROOF
  <1> USE DEF Thread, tableVars
  <1>1. OneCloser'
    <2>1. \A th \in Thread : /\ pc'[th] \in Closing => pc[th] = pc'[th]
                             /\ pc[th] \in Closing => pc[th] = pc'[th] /\ cur[th] = cur'[th]
      OBVIOUS
    <2> QED BY <2>1 DEF IInv, TypeOK, OneCloser
  <1>2. Undone'
    <2>1. \A th \in Thread : pc'[th] \in Closing => pc[th] = pc'[th] /\ cur[th] = cur'[th]
      OBVIOUS
    <2>2. \A th \in Thread : pc'[th] \in {"unlink", "stop", "mark"} => pc'[th] \in Closing
      BY DEF Closing
    <2> QED BY <2>1, <2>2 DEF IInv, Undone, InTable
  <1>3. OpenPairs'
    BY DEF IInv, OpenPairs, InTable
  <1>4. RegisteredPairIsLive'
    BY DEF IInv, RegisteredPairIsLive
  <1>5. NewPair'
    BY DEF IInv, NewPair
  <1>6. Tunnels'
    BY DEF IInv, Tunnels, InTable
  <1> QED BY <1>1, <1>2, <1>3, <1>4, <1>5, <1>6 DEF IInv

(* L renews a time, ...                                                         *)
LEMMA OnReceiveIInv ==
  ASSUME IInv, NEW p \in Pair, OnReceive(p)
  PROVE  IInv'
PROOF
  <1> USE PairParts, NoneIsNone DEF Thread, OnReceive, Idle, Running,
                                   tableVars, pairVars, lockVars, threadVars, gcVars
  <1>1. TypeOK' /\ Threads' /\ Judged'
    BY DEF IInv, TypeOK, Threads, Judged
  <1>2. pc["W"] = "add" => cur["W"] \notin todo'["L"] \cup scan' /\ cur["W"] # cur'["L"]
    BY DEF IInv, NewPair
  <1>3. /\ UNCHANGED <<pc["W"], cur["W"], at["W"], todo["W"]>>
        /\ UNCHANGED <<pc["L"], cur["L"]>> \/ {pc["L"], pc'["L"]} \cap Closing = {}
    OBVIOUS
  <1> QED BY <1>1, <1>2, <1>3, AsideIInv

(* ... which grows old, ...                                                     *)
LEMMA SendTimeoutIInv ==
  ASSUME IInv, NEW p \in Pair, SendTimeout(p)
  PROVE  IInv'
PROOF
  <1> USE PairParts, NoneIsNone DEF Thread, SendTimeout,
                                   tableVars, pairVars, lockVars, threadVars, gcVars
  <1>1. TypeOK' /\ Threads' /\ Judged'
    BY DEF IInv, TypeOK, Threads, Judged
  <1>2. pc["W"] = "add" => cur["W"] \notin todo'["L"] \cup scan' /\ cur["W"] # cur'["L"]
    BY DEF IInv, NewPair
  <1>3. /\ UNCHANGED <<pc["W"], cur["W"], at["W"], todo["W"]>>
        /\ UNCHANGED <<pc["L"], cur["L"]>> \/ {pc["L"], pc'["L"]} \cap Closing = {}
    OBVIOUS
  <1> QED BY <1>1, <1>2, <1>3, AsideIInv

(* ... as the other one does.                                                   *)
LEMMA ReceiveTimeoutIInv ==
  ASSUME IInv, NEW p \in Pair, ReceiveTimeout(p)
  PROVE  IInv'
PROOF
  <1> USE PairParts, NoneIsNone DEF Thread, ReceiveTimeout,
                                   tableVars, pairVars, lockVars, threadVars, gcVars
  <1>1. TypeOK' /\ Threads' /\ Judged'
    BY DEF IInv, TypeOK, Threads, Judged
  <1>2. pc["W"] = "add" => cur["W"] \notin todo'["L"] \cup scan' /\ cur["W"] # cur'["L"]
    BY DEF IInv, NewPair
  <1>3. /\ UNCHANGED <<pc["W"], cur["W"], at["W"], todo["W"]>>
        /\ UNCHANGED <<pc["L"], cur["L"]>> \/ {pc["L"], pc'["L"]} \cap Closing = {}
    OBVIOUS
  <1> QED BY <1>1, <1>2, <1>3, AsideIInv

(* The walk begins with all tunnels, ...                                        *)
LEMMA GcBeginIInv ==
  ASSUME IInv, GcBegin
  PROVE  IInv'
PROOF
  <1> USE PairParts, NoneIsNone DEF Thread, GcBegin, Idle, Running, Goto,
                                   tableVars, pairVars, lockVars, threadVars, gcVars
  <1>1. TypeOK' /\ Threads' /\ Judged'
    BY DEF IInv, TypeOK, Threads, Labels, Judged
  <1>2. pc["W"] = "add" => cur["W"] \notin todo'["L"] \cup scan' /\ cur["W"] # cur'["L"]
    BY DEF IInv, NewPair
  <1>3. /\ UNCHANGED <<pc["W"], cur["W"], at["W"], todo["W"]>>
        /\ UNCHANGED <<pc["L"], cur["L"]>> \/ {pc["L"], pc'["L"]} \cap Closing = {}
    BY DEF Closing
  <1> QED BY <1>1, <1>2, <1>3, AsideIInv

(* ... comes to one and to the pairs in its table, ...                          *)
LEMMA GcVisitTunnelIInv ==
  ASSUME IInv, NEW t \in Tunnel, GcVisitTunnel(t)
  PROVE  IInv'
PROOF
  <1> USE PairParts, NoneIsNone DEF Thread, GcVisitTunnel, At, Running, Goto,
                                   tableVars, pairVars, lockVars, threadVars, gcVars
  <1>1. TypeOK' /\ Threads' /\ Judged'
    BY DEF IInv, TypeOK, Threads, Labels, Judged, Registered, PairsOf
  <1>2. pc["W"] = "add" => cur["W"] \notin todo'["L"] \cup scan' /\ cur["W"] # cur'["L"]
    BY DEF IInv, NewPair, Registered, PairsOf
  <1>3. /\ UNCHANGED <<pc["W"], cur["W"], at["W"], todo["W"]>>
        /\ UNCHANGED <<pc["L"], cur["L"]>> \/ {pc["L"], pc'["L"]} \cap Closing = {}
    BY DEF Closing
  <1> QED BY <1>1, <1>2, <1>3, AsideIInv

(* ... takes one of them, which is in the table, ...                            *)
LEMMA GcReadClockIInv ==
  ASSUME IInv, NEW p \in Pair, GcReadClock(p)
  PROVE  IInv'
PROOF
  <1> USE PairParts, NoneIsNone DEF Thread, GcReadClock, At, Running, Goto,
                                   tableVars, pairVars, lockVars, threadVars, gcVars
  <1>1. TypeOK' /\ Threads' /\ Judged'
    BY DEF IInv, TypeOK, Threads, Labels, Judged
  <1>2. pc["W"] = "add" => cur["W"] \notin todo'["L"] \cup scan' /\ cur["W"] # cur'["L"]
    BY DEF IInv, NewPair
  <1>3. /\ UNCHANGED <<pc["W"], cur["W"], at["W"], todo["W"]>>
        /\ UNCHANGED <<pc["L"], cur["L"]>> \/ {pc["L"], pc'["L"]} \cap Closing = {}
    BY DEF Closing
  <1> QED BY <1>1, <1>2, <1>3, AsideIInv

(* ... and puts it in the vector, as one that may be closed.                    *)
LEMMA GcJudgeIInv ==
  ASSUME IInv, GcJudge
  PROVE  IInv'
PROOF
  <1> USE PairParts, NoneIsNone DEF Thread, GcJudge, At, Running, Goto,
                                   tableVars, pairVars, lockVars, threadVars, gcVars
  <1>1. TypeOK' /\ Threads' /\ Judged'
    BY DEF IInv, TypeOK, Threads, Labels, Judged
  <1>2. pc["W"] = "add" => cur["W"] \notin todo'["L"] \cup scan' /\ cur["W"] # cur'["L"]
    BY DEF IInv, NewPair
  <1>3. /\ UNCHANGED <<pc["W"], cur["W"], at["W"], todo["W"]>>
        /\ UNCHANGED <<pc["L"], cur["L"]>> \/ {pc["L"], pc'["L"]} \cap Closing = {}
    BY DEF Closing
  <1> QED BY <1>1, <1>2, <1>3, AsideIInv

(* It leaves the tunnel, ...                                                    *)
LEMMA GcLeaveTunnelIInv ==
  ASSUME IInv, GcLeaveTunnel
  PROVE  IInv'
PROOF
  <1> USE PairParts, NoneIsNone DEF Thread, GcLeaveTunnel, At, Running, Goto,
                                   tableVars, pairVars, lockVars, threadVars, gcVars
  <1>1. TypeOK' /\ Threads' /\ Judged'
    BY DEF IInv, TypeOK, Threads, Labels, Judged
  <1>2. pc["W"] = "add" => cur["W"] \notin todo'["L"] \cup scan' /\ cur["W"] # cur'["L"]
    BY DEF IInv, NewPair
  <1>3. /\ UNCHANGED <<pc["W"], cur["W"], at["W"], todo["W"]>>
        /\ UNCHANGED <<pc["L"], cur["L"]>> \/ {pc["L"], pc'["L"]} \cap Closing = {}
    BY DEF Closing
  <1> QED BY <1>1, <1>2, <1>3, AsideIInv

(* ... and ends, with the vector of what it will close.                         *)
LEMMA GcEndIInv ==
  ASSUME IInv, GcEnd
  PROVE  IInv'
PROOF
  <1> USE PairParts, NoneIsNone DEF Thread, GcEnd, At, Running, Goto,
                                   tableVars, pairVars, lockVars, threadVars, gcVars
  <1>1. TypeOK' /\ Threads' /\ Judged'
    BY DEF IInv, TypeOK, Threads, Labels, Judged
  <1>2. pc["W"] = "add" => cur["W"] \notin todo'["L"] \cup scan' /\ cur["W"] # cur'["L"]
    BY DEF IInv, NewPair
  <1>3. /\ UNCHANGED <<pc["W"], cur["W"], at["W"], todo["W"]>>
        /\ UNCHANGED <<pc["L"], cur["L"]>> \/ {pc["L"], pc'["L"]} \cap Closing = {}
    BY DEF Closing
  <1> QED BY <1>1, <1>2, <1>3, AsideIInv

--------------------------------------------------------------------------------
(* Before the first message there is nothing.                                   *)
LEMMA InitIInv == Init => IInv
PROOF
  <1> SUFFICES ASSUME Init PROVE IInv
    OBVIOUS
  <1>1. TypeOK /\ Threads
    BY DEF Init, TypeOK, Threads, Labels, Thread
  <1>2. OneCloser /\ Undone /\ OpenPairs /\ RegisteredPairIsLive
    BY PairParts, NoneIsNone
       DEF Init, Thread, OneCloser, Undone, OpenPairs, RegisteredPairIsLive, Closing, InTable
  <1>3. NewPair /\ Tunnels /\ Judged
    BY PairParts, NoneIsNone DEF Init, Thread, NewPair, Tunnels, Judged, Closing, InTable
  <1> QED BY <1>1, <1>2, <1>3 DEF IInv

(* One lemma for each step of each thread.                                      *)
LEMMA NextIInv == IInv /\ [Next]_vars => IInv'
PROOF
  <1> SUFFICES ASSUME IInv, [Next]_vars PROVE IInv'
    OBVIOUS
  <1>1. CASE UNCHANGED vars
    BY <1>1 DEF vars, tableVars, pairVars, lockVars, threadVars, gcVars, IInv, TypeOK, Threads,
                OneCloser, Undone, OpenPairs, RegisteredPairIsLive, NewPair, Tunnels, Judged, InTable
  <1>2. CASE \E t \in Tunnel : Open(t) \/ OnClose(t)
    BY <1>2, OpenIInv, OnCloseIInv
  <1>3. CASE \E t \in Tunnel, id \in PairID :
               FindPair(t, id) \/ CreatePair(t, id) \/ CreatePairFails(t, id)
    BY <1>3, FindPairIInv, CreatePairIInv, CreatePairFailsIInv
  <1>4. CASE MessageStep \/ EraseTunnel
    BY <1>4, AddPairIInv, SendIInv, EraseTunnelIInv DEF MessageStep
  <1>5. CASE \E th \in Thread : CloseStep(th)
    BY <1>5, SkipClosedIInv, BeginCloseIInv, UnlinkIInv, StopSocketIInv, MarkClosedIInv,
       EndClosingIInv DEF CloseStep
  <1>6. CASE GcBegin \/ GcStep
    BY <1>6, GcBeginIInv, GcVisitTunnelIInv, GcReadClockIInv, GcJudgeIInv, GcLeaveTunnelIInv,
       GcEndIInv DEF GcStep
  <1>7. CASE \E p \in Pair : StartRecv(p) \/ OnReceive(p) \/ SendTimeout(p) \/ ReceiveTimeout(p)
    BY <1>7, StartRecvIInv, OnReceiveIInv, SendTimeoutIInv, ReceiveTimeoutIInv
  <1> QED BY <1>1, <1>2, <1>3, <1>4, <1>5, <1>6, <1>7 DEF Next

(* The two threads never lose track of a pair: the others follow from this.     *)
THEOREM AlwaysIInv == Spec => []IInv
PROOF BY InitIInv, NextIInv, PTL DEF Spec

--------------------------------------------------------------------------------
(* Type correctness, for any number of tunnels, ids and pair objects.           *)
THEOREM ServerTypes == Spec => []TypeOK
PROOF
  <1>1. IInv => TypeOK
    BY DEF IInv
  <1> QED BY <1>1, AlwaysIInv, PTL

(* What is found in a table is open and has a socket.                           *)
THEOREM ServerTablesAreLive == Spec => []RegisteredPairIsLive
PROOF
  <1>1. IInv => RegisteredPairIsLive
    BY DEF IInv
  <1> QED BY <1>1, AlwaysIInv, PTL

(* No socket is forgotten.                                                      *)
THEOREM ServerSocketsAreReachable == Spec => []EverySocketIsReachable
PROOF
  <1>1. ASSUME IInv, NEW p \in Pair, udp[p] # "stopped"
        PROVE  \/ p \in Registered(p[1])
               \/ pc["W"] = "add" /\ cur["W"] = p
               \/ closeMutex[p] # None
    <2>1. InTable(p) \/ (pc["W"] = "add" /\ cur["W"] = p) \/ closeMutex[p] # None
      BY <1>1 DEF IInv, OpenPairs
    <2>2. InTable(p) => p \in Registered(p[1])
      BY DEF InTable, Registered, PairsOf
    <2> QED BY <2>1, <2>2
  <1>2. IInv => EverySocketIsReachable
    BY <1>1 DEF EverySocketIsReachable
  <1> QED BY <1>2, AlwaysIInv, PTL

(* removePair, which looks up an id, never erases a successor.                  *)
THEOREM ServerUnlinksItself == Spec => []UnlinksItself
PROOF
  <1>1. ASSUME IInv, NEW th \in Thread, pc[th] = "unlink"
        PROVE  cur[th] \in Registered(cur[th][1])
    <2>1. cur[th] \in Pair /\ InTable(cur[th])
      BY <1>1 DEF IInv, OneCloser, Undone, Closing
    <2> QED BY <2>1 DEF InTable, Registered, PairsOf
  <1>2. IInv => UnlinksItself
    BY <1>1 DEF UnlinksItself
  <1> QED BY <1>2, AlwaysIInv, PTL

(* While the loop delivers datagrams, an id has one socket at most: one that is *)
(* in the table, or that W is about to add to, or has just taken out of, an     *)
(* empty place.                                                                 *)
THEOREM ServerHasOneReceiver == Spec => []OneReceiverPerId
PROOF
  <1>1. ASSUME IInv, pc["L"] = "idle", NEW p \in Pair, udp[p] # "stopped"
        PROVE  \/ InTable(p)
               \/ /\ pc["W"] \in {"add", "stop"} /\ cur["W"] = p
                  /\ table[p[1]][p[2]] = None
    <2>1. CASE closeMutex[p] # None
      <3>1. pc[closeMutex[p]] \in Closing /\ cur[closeMutex[p]] = p /\ closeMutex[p] = "W"
        BY <1>1, <2>1 DEF IInv, TypeOK, OneCloser, Thread, Closing
      <3> QED BY <1>1, <3>1 DEF IInv, Undone, Closing, Thread
    <2>2. CASE closeMutex[p] = None
      BY <1>1, <2>2 DEF IInv, OpenPairs, NewPair
    <2> QED BY <2>1, <2>2
  <1>2. ASSUME IInv, pc["L"] = "idle", NEW p \in Pair, NEW q \in Pair,
               p[1] = q[1], p[2] = q[2], udp[p] # "stopped", udp[q] # "stopped"
        PROVE  p = q
    <2>1. p # None /\ q # None
      BY NoneIsNone
    <2> QED BY <1>1, <1>2, <2>1 DEF InTable
  <1>3. IInv => OneReceiverPerId
    BY <1>2 DEF OneReceiverPerId
  <1> QED BY <1>3, AlwaysIInv, PTL

(* A tunnel that is gone has left no pair and no socket but one that the        *)
(* collector is stopping.                                                       *)
THEOREM ServerErasedLeavesNothing == Spec => []ErasedTunnelLeavesNothing
PROOF
  <1>1. ASSUME IInv, NEW t \in Tunnel \ tunnels, NEW p \in PairsOf(t)
        PROVE  ~InTable(p) /\ (udp[p] # "stopped" => cur["L"] = p /\ pc["L"] = "stop")
    <2>1. p \in Pair /\ p[1] = t /\ t \notin connected
      BY <1>1 DEF PairsOf, IInv, Tunnels
    <2>2. ~InTable(p)
      BY <1>1, <2>1 DEF IInv, Tunnels
    <2>3. ASSUME udp[p] # "stopped"
          PROVE  cur["L"] = p /\ pc["L"] = "stop"
      <3>1. closeMutex[p] # None
        BY <1>1, <2>1, <2>2, <2>3 DEF IInv, OpenPairs, Tunnels
      <3>2. closeMutex[p] \in Thread
        BY <1>1, <2>1, <3>1 DEF IInv, TypeOK
      <3>3. pc[closeMutex[p]] \in Closing /\ cur[closeMutex[p]] = p
        BY <1>1, <2>1, <3>1 DEF IInv, OneCloser
      <3>4. closeMutex[p] # "W"
        BY <1>1, <2>1, <3>3 DEF IInv, Tunnels
      <3> QED BY <1>1, <2>2, <2>3, <3>2, <3>3, <3>4 DEF IInv, Undone, Closing, Thread
    <2> QED BY <2>2, <2>3
  <1>2. IInv => ErasedTunnelLeavesNothing
    BY <1>1 DEF ErasedTunnelLeavesNothing, Registered, PairsOf, InTable
  <1> QED BY <1>2, AlwaysIInv, PTL

--------------------------------------------------------------------------------
(* The collector's walk                                                         *)

Walking == {"gc", "scan", "judge"}

(* What the collector's iterators stand on: while it walks, _tunnelsMutex is    *)
(* its own and the tunnels it has yet to visit exist; in a tunnel the lock of   *)
(* the context is its own, and the pairs it has yet to look at, and the one it  *)
(* judges, are in the table.                                                    *)
WalksWhatIsThere ==
  /\ tunnelsMutex = "L" <=> pc["L"] \in Walking
  /\ pc["L"] \in Walking => visit \subseteq tunnels
  /\ pc["L"] \in {"scan", "judge"} =>
       /\ at["L"] \in tunnels /\ locker[at["L"]] = "L"
       /\ scan \subseteq Registered(at["L"])
  /\ pc["L"] = "judge" => cur["L"] \in Registered(at["L"])

(* W may add and remove pairs and tunnels between any two steps of the walk,    *)
(* but not where the collector stands: here the locks are needed.               *)
LEMMA NextWalk == IInv /\ WalksWhatIsThere /\ [Next]_vars => WalksWhatIsThere'
PROOF
  <1> SUFFICES ASSUME IInv, WalksWhatIsThere, [Next]_vars PROVE WalksWhatIsThere'
    OBVIOUS
  <1> USE NoneIsNone DEF Thread, Walking, WalksWhatIsThere
  <1> USE DEF Idle, At, Running, Goto, tableVars, pairVars, lockVars, threadVars, gcVars
  <1>0. TypeOK /\ Threads
    BY DEF IInv
  <1>1. ASSUME NEW t \in Tunnel, Open(t) PROVE WalksWhatIsThere'
    BY <1>0, <1>1 DEF TypeOK, Open, Registered, PairsOf
  <1>2. ASSUME EraseTunnel PROVE WalksWhatIsThere'
    <2>1. tunnelsMutex # "L" /\ pc["L"] \notin Walking
      BY <1>2 DEF EraseTunnel
    <2>2. tunnelsMutex' = tunnelsMutex /\ pc'["L"] = pc["L"]
      BY <1>0, <1>2 DEF EraseTunnel, Threads
    <2> QED BY <2>1, <2>2
  <1>3. ASSUME AddPair PROVE WalksWhatIsThere'
    <2>1. cur["W"] \in Pair /\ locker[cur["W"][1]] = None
      BY <1>3 DEF AddPair, IInv, NewPair
    <2>2. /\ pc'["L"] = pc["L"] /\ cur' = cur /\ at' = at /\ scan' = scan /\ visit' = visit
          /\ locker' = locker /\ tunnelsMutex' = tunnelsMutex /\ tunnels' = tunnels
          /\ \A u \in Tunnel : u # cur["W"][1] => table'[u] = table[u]
      BY <1>0, <1>3 DEF AddPair, Threads, TypeOK
    <2>3. pc["L"] \in {"scan", "judge"} => at["L"] \in Tunnel /\ at["L"] # cur["W"][1]
      BY <1>0, <2>1 DEF TypeOK
    <2>4. pc["L"] \in {"scan", "judge"} => Registered(at["L"])' = Registered(at["L"])
      BY <2>2, <2>3 DEF Registered, PairsOf
    <2> QED BY <2>2, <2>4
  <1>4. ASSUME NEW th \in Thread, Unlink(th) PROVE WalksWhatIsThere'
    <2>1. cur[th] \in Pair /\ locker[cur[th][1]] = None
      BY <1>4 DEF Unlink, IInv, OneCloser, Closing
    <2>2. /\ cur' = cur /\ at' = at /\ scan' = scan /\ visit' = visit
          /\ locker' = locker /\ tunnelsMutex' = tunnelsMutex /\ tunnels' = tunnels
          /\ \A u \in Tunnel : u # cur[th][1] => table'[u] = table[u]
      BY <1>0, <1>4 DEF Unlink, Threads, TypeOK
    <2>3. /\ th = "W" => pc'["L"] = pc["L"]
          /\ th = "L" => pc["L"] \notin Walking /\ pc'["L"] \notin Walking
      BY <1>0, <1>4 DEF Unlink, Threads
    <2>4. pc["L"] \in {"scan", "judge"} => at["L"] \in Tunnel /\ at["L"] # cur[th][1]
      BY <1>0, <2>1 DEF TypeOK
    <2>5. pc["L"] \in {"scan", "judge"} => Registered(at["L"])' = Registered(at["L"])
      BY <2>2, <2>4 DEF Registered, PairsOf
    <2> QED BY <2>2, <2>3, <2>5
  <1>5. ASSUME NEW th \in Thread,
               SkipClosed(th) \/ BeginClose(th) \/ StopSocket(th) \/ MarkClosed(th) \/ EndClosing(th)
        PROVE  WalksWhatIsThere'
    <2>1. /\ at' = at /\ scan' = scan /\ visit' = visit /\ table' = table
          /\ locker' = locker /\ tunnelsMutex' = tunnelsMutex /\ tunnels' = tunnels
      BY <1>5 DEF SkipClosed, BeginClose, StopSocket, MarkClosed, EndClosing
    <2>2. \/ pc'["L"] = pc["L"] /\ cur'["L"] = cur["L"]
          \/ pc["L"] \notin Walking /\ pc'["L"] \notin Walking
      BY <1>0, <1>5 DEF SkipClosed, BeginClose, StopSocket, MarkClosed, EndClosing, Threads, TypeOK
    <2>3. \A t \in Tunnel : Registered(t)' = Registered(t)
      BY <2>1 DEF Registered, PairsOf
    <2>4. tunnels \subseteq Tunnel
      BY <1>0 DEF TypeOK
    <2> QED BY <2>1, <2>2, <2>3, <2>4
  <1>6. CASE \/ \E t \in Tunnel : OnClose(t)
             \/ \E t \in Tunnel, id \in PairID :
                  FindPair(t, id) \/ CreatePair(t, id) \/ CreatePairFails(t, id)
             \/ Send
    <2>1. /\ scan' = scan /\ visit' = visit /\ table' = table
          /\ locker' = locker /\ tunnelsMutex' = tunnelsMutex /\ tunnels' = tunnels
      BY <1>6 DEF OnClose, FindPair, CreatePair, CreatePairFails, Send
    <2>2. pc'["L"] = pc["L"] /\ cur'["L"] = cur["L"] /\ at'["L"] = at["L"]
      <3>1. ASSUME NEW t \in Tunnel, OnClose(t)
            PROVE  pc'["L"] = pc["L"] /\ cur'["L"] = cur["L"] /\ at'["L"] = at["L"]
        BY <1>0, <3>1 DEF OnClose, Threads, TypeOK
      <3>2. ASSUME NEW t \in Tunnel, NEW id \in PairID,
                   FindPair(t, id) \/ CreatePair(t, id) \/ CreatePairFails(t, id)
            PROVE  pc'["L"] = pc["L"] /\ cur'["L"] = cur["L"] /\ at'["L"] = at["L"]
        BY <1>0, <3>2 DEF FindPair, CreatePair, CreatePairFails, Threads, TypeOK
      <3>3. ASSUME Send
            PROVE  pc'["L"] = pc["L"] /\ cur'["L"] = cur["L"] /\ at'["L"] = at["L"]
        BY <1>0, <3>3 DEF Send, Threads, TypeOK
      <3> QED BY <1>6, <3>1, <3>2, <3>3
    <2>3. \A u \in Tunnel : Registered(u)' = Registered(u)
      BY <2>1 DEF Registered, PairsOf
    <2>4. tunnels \subseteq Tunnel
      BY <1>0 DEF TypeOK
    <2> QED BY <2>1, <2>2, <2>3, <2>4
  <1>7. ASSUME GcBegin PROVE WalksWhatIsThere'
    BY <1>0, <1>7 DEF GcBegin, Threads
  <1>8. ASSUME NEW t \in Tunnel, GcVisitTunnel(t) PROVE WalksWhatIsThere'
    BY <1>0, <1>8 DEF GcVisitTunnel, Threads, TypeOK, Registered, PairsOf
  <1>9. ASSUME NEW p \in Pair, GcReadClock(p) PROVE WalksWhatIsThere'
    BY <1>0, <1>9 DEF GcReadClock, Threads, TypeOK, Registered, PairsOf
  <1>10. ASSUME GcJudge PROVE WalksWhatIsThere'
    BY <1>0, <1>10 DEF GcJudge, Threads, TypeOK, Registered, PairsOf
  <1>11. ASSUME GcLeaveTunnel PROVE WalksWhatIsThere'
    BY <1>0, <1>11 DEF GcLeaveTunnel, Threads, TypeOK
  <1>12. ASSUME GcEnd PROVE WalksWhatIsThere'
    BY <1>0, <1>12 DEF GcEnd, Threads
  <1>13. CASE (\E p \in Pair : StartRecv(p) \/ OnReceive(p) \/ SendTimeout(p) \/ ReceiveTimeout(p))
              \/ UNCHANGED vars
    BY <1>13 DEF StartRecv, OnReceive, SendTimeout, ReceiveTimeout, vars, Registered, PairsOf
  <1> QED BY <1>1, <1>2, <1>3, <1>4, <1>5, <1>6, <1>7, <1>8, <1>9, <1>10, <1>11, <1>12, <1>13
          DEF Next, MessageStep, CloseStep, GcStep

(* What the collector looks at is there, however the other thread goes on: its  *)
(* iterators over tunnels and pairs stay valid for the whole walk.              *)
THEOREM ServerWalkIsSafe == Spec => []WalksWhatIsThere
PROOF
  <1>1. Init => WalksWhatIsThere
    BY NoneIsNone DEF Init, WalksWhatIsThere, Walking, Thread
  <1> QED BY <1>1, NextWalk, AlwaysIInv, PTL DEF Spec

(* W holds _tunnelsMutex and a context's lock within one step only; L, the      *)
(* latter while it is in that tunnel.                                           *)
LockersAreTheCollectors ==
  /\ tunnelsMutex # "W"
  /\ \A t \in Tunnel : locker[t] # None =>
       locker[t] = "L" /\ pc["L"] \in {"scan", "judge"} /\ at["L"] = t

(* Nobody but the collector keeps a mutex of tables over a step.                *)
LEMMA NextLockers ==
  IInv /\ LockersAreTheCollectors /\ [Next]_vars => LockersAreTheCollectors'
PROOF
  <1>a. IInv /\ tunnelsMutex # "W" /\ [Next]_vars => tunnelsMutex' # "W"
    BY NoneIsNone
       DEF Next, vars, tableVars, lockVars, Thread, Open, OnClose, FindPair, CreatePair,
           CreatePairFails, MessageStep, AddPair, Send, EraseTunnel, CloseStep, SkipClosed,
           BeginClose, Unlink, StopSocket, MarkClosed, EndClosing, GcBegin, GcStep,
           GcVisitTunnel, GcReadClock, GcJudge, GcLeaveTunnel, GcEnd, StartRecv, OnReceive,
           SendTimeout, ReceiveTimeout
  <1> SUFFICES ASSUME IInv, LockersAreTheCollectors, [Next]_vars,
                      NEW t \in Tunnel, locker'[t] # None
               PROVE  locker'[t] = "L" /\ pc'["L"] \in {"scan", "judge"} /\ at'["L"] = t
    BY <1>a DEF LockersAreTheCollectors
  <1> USE NoneIsNone DEF Thread
  <1> USE DEF Idle, At, Running, Goto, tableVars, pairVars, lockVars, threadVars, gcVars
  <1>0. /\ TypeOK /\ Threads
        /\ locker[t] # None => locker[t] = "L" /\ pc["L"] \in {"scan", "judge"} /\ at["L"] = t
    BY DEF IInv, LockersAreTheCollectors
  <1>1. CASE GcBegin
    BY <1>0, <1>1 DEF GcBegin
  <1>2. ASSUME NEW u \in Tunnel, GcVisitTunnel(u)
        PROVE  locker'[t] = "L" /\ pc'["L"] \in {"scan", "judge"} /\ at'["L"] = t
    BY <1>0, <1>2 DEF GcVisitTunnel, Threads, TypeOK
  <1>3. CASE (\E p \in Pair : GcReadClock(p)) \/ GcJudge
    BY <1>0, <1>3 DEF GcReadClock, GcJudge, Threads
  <1>4. CASE GcLeaveTunnel
    BY <1>0, <1>4 DEF GcLeaveTunnel, TypeOK
  <1>5. CASE GcEnd
    BY <1>0, <1>5 DEF GcEnd
  <1>6. ASSUME NEW th \in Thread, CloseStep(th)
        PROVE  locker'[t] = "L" /\ pc'["L"] \in {"scan", "judge"} /\ at'["L"] = t
    <2>1. locker' = locker /\ at' = at
      BY <1>6 DEF CloseStep, SkipClosed, BeginClose, Unlink, StopSocket, MarkClosed, EndClosing
    <2>2. pc["L"] \in {"scan", "judge"} => pc'["L"] = pc["L"]
      BY <1>0, <1>6 DEF CloseStep, SkipClosed, BeginClose, Unlink, StopSocket, MarkClosed,
                       EndClosing, Threads
    <2> QED BY <1>0, <2>1, <2>2
  <1>7. CASE \/ \E u \in Tunnel : Open(u) \/ OnClose(u)
             \/ \E u \in Tunnel, id \in PairID :
                  FindPair(u, id) \/ CreatePair(u, id) \/ CreatePairFails(u, id)
             \/ MessageStep \/ EraseTunnel
    <2>1. locker' = locker
      BY <1>7 DEF Open, OnClose, FindPair, CreatePair, CreatePairFails, MessageStep, AddPair,
                  Send, EraseTunnel
    <2>2. pc'["L"] = pc["L"]
      BY <1>0, <1>7 DEF Open, OnClose, FindPair, CreatePair, CreatePairFails, MessageStep,
                        AddPair, Send, EraseTunnel, Threads
    <2>3. at'["L"] = at["L"]
      BY <1>0, <1>7 DEF Open, OnClose, FindPair, CreatePair, CreatePairFails, MessageStep,
                        AddPair, Send, EraseTunnel, TypeOK
    <2> QED BY <1>0, <2>1, <2>2, <2>3
  <1>8. CASE (\E p \in Pair : StartRecv(p) \/ OnReceive(p) \/ SendTimeout(p) \/ ReceiveTimeout(p))
             \/ UNCHANGED vars
    BY <1>0, <1>8 DEF StartRecv, OnReceive, SendTimeout, ReceiveTimeout, vars
  <1> QED BY <1>1, <1>2, <1>3, <1>4, <1>5, <1>6, <1>7, <1>8 DEF Next, GcStep

(* th may be about to lock what other holds: _tunnelsMutex, a context's lock,   *)
(* or the _closeMutex of a pair in its vector.                                  *)
WaitsFor(th, other) ==
  \/ tunnelsMutex = other /\ pc[th] \in {"idle", "erase"}
  \/ pc[th] \in {"add", "unlink"} /\ locker[cur[th][1]] = other
  \/ pc[th] \in {"idle", "gc"} /\ \E t \in Tunnel : locker[t] = other
  \/ pc[th] = "close" /\ \E p \in todo[th] : closeMutex[p] = other

(* No thread waits for itself (the mutexes are not recursive), and a thread     *)
(* that is waited for does not wait for the one that waits.                     *)
NobodyWaitsInACircle ==
  \A th, other \in Thread : WaitsFor(th, other) => th # other /\ ~WaitsFor(other, th)

(* The collector's thread and the WebSocket thread never block each other,      *)
(* whatever pairs they close and whichever tunnels go away meanwhile: closing   *)
(* starts with no lock held, and under a pair's mutex only the context's lock   *)
(* is taken, which nobody holds while waiting.                                  *)
THEOREM ServerNobodyWaitsInACircle == Spec => []NobodyWaitsInACircle
PROOF
  <1> USE NoneIsNone DEF Thread, Walking
  <1>1. ASSUME IInv, WalksWhatIsThere, LockersAreTheCollectors,
               NEW th \in Thread, NEW other \in Thread, WaitsFor(th, other)
        PROVE  th # other /\ ~WaitsFor(other, th)
    <2>1. \A t \in Tunnel, o \in Thread :
            locker[t] = o => o = "L" /\ pc["L"] \in {"scan", "judge"}
      BY <1>1 DEF LockersAreTheCollectors
    <2>2. \A o \in Thread : tunnelsMutex = o => o = "L" /\ pc["L"] \in Walking
      BY <1>1 DEF WalksWhatIsThere, LockersAreTheCollectors
    <2>3. \A o, r \in Thread : pc[r] = "close" /\ (\E p \in todo[r] : closeMutex[p] = o)
                                 => o # r /\ pc[o] \in Closing
      BY <1>1 DEF IInv, TypeOK, OneCloser, Closing
    <2>4. \A r \in Thread : pc[r] \in {"add", "unlink"} => cur[r][1] \in Tunnel
      <3>1. \A r \in Thread : pc[r] \in {"add", "unlink"} => cur[r] \in Pair
        BY <1>1 DEF IInv, TypeOK, OneCloser, NewPair, Closing
      <3> QED BY <3>1, PairParts
    <2> QED BY <1>1, <2>1, <2>2, <2>3, <2>4 DEF WaitsFor, Closing
  <1>2. IInv /\ WalksWhatIsThere /\ LockersAreTheCollectors => NobodyWaitsInACircle
    BY <1>1 DEF NobodyWaitsInACircle
  <1>3. Init => LockersAreTheCollectors
    BY NoneIsNone DEF Init, LockersAreTheCollectors
  <1> QED BY <1>2, <1>3, NextLockers, ServerWalkIsSafe, AlwaysIInv, PTL DEF Spec

--------------------------------------------------------------------------------
(* The life of a pair                                                           *)

Phase == [p \in Pair |-> PhaseOf(p)]

(* A step that changes the phase of one pair.                                   *)
LEMMA PhaseStep ==
  ASSUME NEW p \in Pair, NEW to, PhaseOf(p)' = to,
         \A q \in Pair \ {p} : PhaseOf(q)' = PhaseOf(q)
  PROVE  Phase' = [Phase EXCEPT ![p] = to]
PROOF BY DEF Phase

(* No pair of the place is registered when the place is empty.                  *)
LEMMA EmptyPlaceIsVacant ==
  ASSUME NEW p \in Pair, table[p[1]][p[2]] = None
  PROVE  Life!Vacant(p)
PROOF
  <1> SUFFICES ASSUME NEW q \in Pair, q[1] = p[1], q[2] = p[2]
               PROVE  Phase[q] # "registered"
    BY DEF Life!Vacant, Phase
  <1> QED BY NoneIsNone DEF Phase, PhaseOf

(* A pair is made, ...                                                          *)
LEMMA MakeStep ==
  ASSUME IInv, NEW t \in Tunnel, NEW id \in PairID, CreatePair(t, id)
  PROVE  Life!Next
PROOF
  <1>1. PICK p \in FreshPairs(t, id) :
          /\ cur' = [cur EXCEPT !["W"] = p]
          /\ udp' = [udp EXCEPT ![p] = "bound"]
          /\ closed' = closed \ {p}
    BY DEF CreatePair
  <1>2. p \in Pair /\ p[1] = t /\ p[2] = id /\ p \in closed
    BY DEF FreshPairs, PairsOf
  <1>3. /\ table[t][id] = None /\ table' = table
        /\ pc["W"] = "idle" /\ pc'["W"] = "add" /\ cur'["W"] = p /\ udp'[p] = "bound"
    BY <1>1, <1>2 DEF CreatePair, Idle, Goto, tableVars, IInv, Threads, TypeOK, Thread
  <1>4. PhaseOf(p) = "gone" /\ PhaseOf(p)' = "made"
    BY <1>1, <1>2, <1>3, NoneIsNone DEF PhaseOf
  <1>5. ASSUME NEW q \in Pair \ {p}
        PROVE  PhaseOf(q)' = PhaseOf(q)
    BY <1>1, <1>3, <1>5 DEF PhaseOf, IInv, TypeOK
  <1>6. \A q \in Pair : Phase[q] # "made"
    BY <1>3 DEF Phase, PhaseOf
  <1>7. Life!Make(p)
    BY <1>2, <1>3, <1>4, <1>5, <1>6, PhaseStep, EmptyPlaceIsVacant DEF Life!Make, Phase
  <1> QED BY <1>2, <1>7 DEF Life!Next

(* ... registered, ...                                                          *)
LEMMA RegisterStep ==
  ASSUME IInv, AddPair
  PROVE  Life!Next
PROOF
  <1> DEFINE p == cur["W"]
  <1>1. /\ p \in Pair /\ p \notin closed /\ table[p[1]][p[2]] = None
        /\ pc["W"] = "add" /\ pc'["W"] = "send"
        /\ UNCHANGED <<closed, udp, cur>>
    BY DEF AddPair, At, Goto, pairVars, IInv, NewPair, Threads, Thread
  <1>2. p[1] \in Tunnel /\ p[2] \in PairID
    BY <1>1, PairParts
  <1>3. table' = [table EXCEPT ![p[1]][p[2]] = p]
    BY <1>1, <1>2 DEF AddPair, IInv, TypeOK
  <1>4. PhaseOf(p) = "made" /\ PhaseOf(p)' = "registered"
    <2>1. table'[p[1]][p[2]] = p
      BY <1>2, <1>3 DEF IInv, TypeOK
    <2> QED BY <1>1, <2>1, NoneIsNone DEF PhaseOf
  <1>5. ASSUME NEW q \in Pair \ {p}
        PROVE  PhaseOf(q)' = PhaseOf(q)
    <2>1. q[1] \in Tunnel /\ q[2] \in PairID /\ q # None
      BY PairParts, NoneIsNone
    <2>2. InTable(q)' <=> InTable(q)
      BY <1>1, <1>2, <1>3, <2>1 DEF InTable, IInv, TypeOK
    <2> QED BY <1>1, <2>2 DEF PhaseOf, InTable
  <1>6. Life!Register(p)
    BY <1>1, <1>4, <1>5, PhaseStep, EmptyPlaceIsVacant DEF Life!Register, Phase
  <1> QED BY <1>1, <1>6 DEF Life!Next

(* ... unlinked, ...                                                            *)
LEMMA UnlinkStep ==
  ASSUME IInv, NEW th \in Thread, Unlink(th)
  PROVE  Life!Next
PROOF
  <1> DEFINE p == cur[th]
  <1>1. /\ p \in Pair /\ InTable(p) /\ p \notin closed
        /\ pc[th] = "unlink" /\ pc' = [pc EXCEPT ![th] = "stop"]
        /\ table' = [table EXCEPT ![p[1]][p[2]] = None]
        /\ UNCHANGED <<closed, udp, cur>>
    BY DEF Unlink, At, Goto, pairVars, IInv, OneCloser, Undone, Closing
  <1>2. p[1] \in Tunnel /\ p[2] \in PairID /\ p # None
    BY <1>1, PairParts, NoneIsNone
  <1>3. udp[p] # "stopped"
    BY <1>1, <1>2 DEF IInv, RegisteredPairIsLive, InTable
  <1>4. pc'["W"] = "add" <=> pc["W"] = "add"
    BY <1>1 DEF IInv, Threads
  <1>5. ~(pc["W"] = "add" /\ cur["W"] = p)
    BY <1>1, <1>2 DEF IInv, NewPair, InTable
  <1>6. PhaseOf(p) = "registered" /\ PhaseOf(p)' = "unlinked"
    <2>1. table'[p[1]][p[2]] = None
      BY <1>1, <1>2 DEF IInv, TypeOK
    <2> QED BY <1>1, <1>2, <1>3, <1>4, <1>5, <2>1 DEF PhaseOf, InTable
  <1>7. ASSUME NEW q \in Pair \ {p}
        PROVE  PhaseOf(q)' = PhaseOf(q)
    <2>1. q[1] \in Tunnel /\ q[2] \in PairID /\ q # None
      BY PairParts, NoneIsNone
    <2>2. InTable(q)' <=> InTable(q)
      BY <1>1, <1>2, <2>1 DEF InTable, IInv, TypeOK
    <2> QED BY <1>1, <1>4, <2>2 DEF PhaseOf, InTable
  <1>8. Life!Unlink(p)
    BY <1>1, <1>6, <1>7, PhaseStep DEF Life!Unlink, Phase
  <1> QED BY <1>1, <1>8 DEF Life!Next

(* ... stopped, ...                                                             *)
LEMMA StopStep ==
  ASSUME IInv, NEW th \in Thread, StopSocket(th)
  PROVE  Life!Next \/ Phase' = Phase
PROOF
  <1> DEFINE p == cur[th]
  <1>1. /\ p \in Pair /\ ~InTable(p) /\ p \notin closed /\ closeMutex[p] = th
        /\ pc[th] = "stop" /\ pc' = [pc EXCEPT ![th] = "mark"]
        /\ udp' = [udp EXCEPT ![p] = "stopped"]
        /\ UNCHANGED <<closed, table, cur>>
    BY DEF StopSocket, At, Goto, tableVars, IInv, OneCloser, Undone, Closing
  <1>2. pc'["W"] = "add" <=> pc["W"] = "add"
    BY <1>1 DEF IInv, Threads
  <1>3. ~(pc["W"] = "add" /\ cur["W"] = p)
    BY <1>1, NoneIsNone DEF IInv, NewPair
  <1>4. PhaseOf(p) \in {"unlinked", "stopped"} /\ PhaseOf(p)' = "stopped"
    BY <1>1, <1>2, <1>3 DEF PhaseOf, InTable, IInv, TypeOK
  <1>5. ASSUME NEW q \in Pair \ {p}
        PROVE  PhaseOf(q)' = PhaseOf(q)
    BY <1>1, <1>2 DEF PhaseOf, IInv, TypeOK
  <1>6. CASE PhaseOf(p) = "unlinked"
    BY <1>1, <1>4, <1>5, <1>6, PhaseStep DEF Life!Stop, Life!Next, Phase
  <1>7. CASE PhaseOf(p) = "stopped"
    <2>1. \A q \in Pair : PhaseOf(q)' = PhaseOf(q)
      BY <1>1, <1>4, <1>5, <1>7
    <2> QED BY <2>1 DEF Phase
  <1> QED BY <1>4, <1>6, <1>7

(* ... and gone.                                                                *)
LEMMA ForgetStep ==
  ASSUME IInv, NEW th \in Thread, MarkClosed(th)
  PROVE  Life!Next
PROOF
  <1>0. PICK p \in Pair : p = cur[th]
    BY DEF MarkClosed, At, IInv, OneCloser, Closing
  <1>1. /\ ~InTable(p) /\ p \notin closed /\ closeMutex[p] = th
        /\ udp[p] = "stopped"
        /\ pc[th] = "mark" /\ pc' = [pc EXCEPT ![th] = "close"]
        /\ closed' = closed \cup {p}
        /\ cur' = [cur EXCEPT ![th] = None]
        /\ UNCHANGED <<udp, table>>
    BY <1>0 DEF MarkClosed, At, Goto, tableVars, IInv, OneCloser, Undone, Closing
  <1>2. /\ pc'["W"] = "add" <=> pc["W"] = "add"
        /\ pc["W"] = "add" => cur'["W"] = cur["W"]
    BY <1>0, <1>1 DEF IInv, Threads, TypeOK
  <1>3. ~(pc["W"] = "add" /\ cur["W"] = p)
    BY <1>0, <1>1, NoneIsNone DEF IInv, NewPair
  <1>4. PhaseOf(p) = "stopped" /\ PhaseOf(p)' = "gone"
    BY <1>1, <1>3 DEF PhaseOf, InTable
  <1>5. ASSUME NEW q \in Pair \ {p}
        PROVE  PhaseOf(q)' = PhaseOf(q)
    BY <1>1, <1>2 DEF PhaseOf
  <1>6. Life!Forget(p)
    BY <1>1, <1>4, <1>5, PhaseStep DEF Life!Forget, Phase
  <1> QED BY <1>1, <1>6 DEF Life!Next

(* What is in no phase's way: nothing a phase depends on changes.               *)
LEMMA QuietStep ==
  ASSUME UNCHANGED <<table, closed>>,
         \A p \in Pair : udp'[p] = "stopped" <=> udp[p] = "stopped",
         \/ UNCHANGED <<pc["W"], cur["W"]>>
         \/ pc["W"] # "add" /\ pc'["W"] # "add"
  PROVE  Phase' = Phase
PROOF
  <1>1. \A p \in Pair : PhaseOf(p)' = PhaseOf(p)
    BY DEF PhaseOf
  <1> QED BY <1>1 DEF Phase

(* W's other steps are quiet, ...                                               *)
LEMMA OwnStepsAreQuiet ==
  ASSUME IInv,
         \/ \E t \in Tunnel : Open(t) \/ OnClose(t)
         \/ \E t \in Tunnel, id \in PairID : FindPair(t, id) \/ CreatePairFails(t, id)
         \/ Send \/ EraseTunnel
  PROVE  Phase' = Phase
PROOF
  <1>1. UNCHANGED <<table, closed, udp>>
    BY DEF Open, OnClose, FindPair, CreatePairFails, Send, EraseTunnel, tableVars, pairVars
  <1>2. UNCHANGED <<pc["W"], cur["W"]>> \/ (pc["W"] # "add" /\ pc'["W"] # "add")
    BY DEF Open, OnClose, FindPair, CreatePairFails, Send, EraseTunnel, threadVars, Idle, At,
           Goto, IInv, Threads, Thread
  <1> QED BY <1>1, <1>2, QuietStep

(* ... and so are the collector's walk, the vectors' and time's.                *)
LEMMA OtherStepsAreQuiet ==
  ASSUME IInv,
         \/ \E th \in Thread : SkipClosed(th) \/ BeginClose(th) \/ EndClosing(th)
         \/ GcBegin \/ GcStep
         \/ \E p \in Pair : StartRecv(p) \/ OnReceive(p) \/ SendTimeout(p) \/ ReceiveTimeout(p)
  PROVE  Phase' = Phase
PROOF
  <1> USE DEF tableVars, pairVars, lockVars, threadVars, gcVars, Idle, At, Goto, Thread
  <1>0. pc \in [Thread -> Labels] /\ cur \in [Thread -> Pair \cup {None}]
    BY DEF IInv, Threads, TypeOK
  <1>1. UNCHANGED <<table, closed>>
    BY DEF SkipClosed, BeginClose, EndClosing, GcBegin, GcStep, GcVisitTunnel, GcReadClock,
           GcJudge, GcLeaveTunnel, GcEnd, StartRecv, OnReceive, SendTimeout, ReceiveTimeout
  <1>2. \A p \in Pair : udp'[p] = "stopped" <=> udp[p] = "stopped"
    BY DEF SkipClosed, BeginClose, EndClosing, GcBegin, GcStep, GcVisitTunnel, GcReadClock,
           GcJudge, GcLeaveTunnel, GcEnd, StartRecv, OnReceive, SendTimeout, ReceiveTimeout,
           IInv, TypeOK
  <1>3. UNCHANGED <<pc["W"], cur["W"]>> \/ (pc["W"] # "add" /\ pc'["W"] # "add")
    BY <1>0 DEF SkipClosed, BeginClose, EndClosing, GcBegin, GcStep, GcVisitTunnel, GcReadClock,
                GcJudge, GcLeaveTunnel, GcEnd, StartRecv, OnReceive, SendTimeout, ReceiveTimeout
  <1> QED BY <1>1, <1>2, <1>3, QuietStep

(* Whatever the two threads do, every pair lives as PairLife says.              *)
THEOREM ServerImplementsPairLife == Spec => ImplementsPairLife
PROOF
  <1>1. Init => Life!Init
    BY DEF Init, Life!Init, PhaseOf
  <1>2. ASSUME IInv, [Next]_vars
        PROVE  Life!Next \/ Phase' = Phase
    <2>1. ASSUME NEW t \in Tunnel, NEW id \in PairID, CreatePair(t, id)
          PROVE  Life!Next
      BY <1>2, <2>1, MakeStep
    <2>2. ASSUME AddPair
          PROVE  Life!Next
      BY <1>2, <2>2, RegisterStep
    <2>3. ASSUME NEW th \in Thread, Unlink(th) \/ StopSocket(th) \/ MarkClosed(th)
          PROVE  Life!Next \/ Phase' = Phase
      BY <1>2, <2>3, UnlinkStep, StopStep, ForgetStep
    <2>4. CASE UNCHANGED vars
      BY <2>4, QuietStep DEF vars, tableVars, pairVars, threadVars
    <2> QED BY <1>2, <2>1, <2>2, <2>3, <2>4, OwnStepsAreQuiet, OtherStepsAreQuiet
            DEF Next, MessageStep, CloseStep
  <1>3. IInv /\ [Next]_vars => [Life!Next]_Phase
    BY <1>2
  <1> QED BY <1>1, <1>3, AlwaysIInv, PTL DEF Spec, ImplementsPairLife, Life!Spec, Phase

================================================================================
