-------------------------- MODULE WsClientTunnel_proof --------------------------
(* Proofs about WsClientTunnel, for any number of redirects and pings, with     *)
(* sockets that fail or do not: the tunnel and its client agree, the heartbeat  *)
(* counts only what is unanswered, and the tunnel implements TunnelLife.        *)

EXTENDS WsClientTunnel, SequenceTheorems, TLAPS

(* LayersAgree, and what a state of the channel says about the client: a tunnel *)
(* that has not started has nothing below it.                                   *)
Layers ==
  /\ LayersAgree
  /\ state.current = "INITIAL" => channel = "none" /\ ws = "WS_CLOSED"
  /\ channel = "connecting" => ws = "CONNECTING"
  /\ channel = "up" => ws \in {"WS_UPGRADING", "WS_OPENED"}

(* Until a tunnel is connected, nothing was told and no ping was counted.       *)
Quiet ==
  state.current \in {"INITIAL", "CONNECTING"} => told = <<>> /\ pingCnt = 0

(* The count of a channel that was not closed stays below the fourth ping.      *)
Counts ==
  channel = "up" => pingCnt <= 3 /\ pingCnt <= pings + pongs

IInv == TypeOK /\ Layers /\ Quiet /\ Counts

StateRecords == [previous : TunnelStates, current : TunnelStates]

--------------------------------------------------------------------------------
(* What the operators do to a state and to what is told.                        *)

LEMMA ChangedState ==
  ASSUME NEW st \in StateRecords, NEW to \in TunnelStates
  PROVE  /\ changeState(st, to) \in StateRecords
         /\ changeState(st, to).current = to
PROOF BY DEF changeState, StateRecords

(* onclose ends the tunnel: with an error while it connects, without otherwise. *)
LEMMA OnCloseEnds ==
  ASSUME NEW st \in StateRecords, told \in Seq({"ready", "error", "destroy"}), OnClose(st)
  PROVE  /\ state' \in StateRecords
         /\ told' \in Seq({"ready", "error", "destroy"})
         /\ \/ /\ st.current = "CONNECTING" /\ state'.current = "ERR"
               /\ told' = Append(told, "error")
            \/ /\ st.current # "CONNECTING" /\ state'.current = "DESTROYED"
               /\ told' = Append(told, "destroy")
PROOF
  <1>1. {"ERR", "DESTROYING", "DESTROYED"} \subseteq TunnelStates
    BY DEF TunnelStates
  <1>2. Destroying(st) \in StateRecords
    BY <1>1, ChangedState DEF Destroying
  <1>3. CASE st.current = "CONNECTING"
    <2>1. state' = changeState(st, "ERR") /\ told' = Append(told, "error")
      BY <1>3 DEF OnClose
    <2>2. state' \in StateRecords /\ state'.current = "ERR"
      BY <1>1, <2>1, ChangedState
    <2> QED BY <1>3, <2>1, <2>2
  <1>4. CASE st.current # "CONNECTING"
    <2>1. state' = changeState(Destroying(st), "DESTROYED") /\ told' = Append(told, "destroy")
      BY <1>4 DEF OnClose
    <2>2. state' \in StateRecords /\ state'.current = "DESTROYED"
      BY <1>1, <1>2, <2>1, ChangedState
    <2> QED BY <1>4, <2>1, <2>2
  <1> QED BY <1>3, <1>4

(* A close either ends the tunnel that stands at st, or leaves it at st with a  *)
(* channel that is closing.                                                     *)
LEMMA CloseChannelEnds ==
  ASSUME NEW st \in StateRecords, NEW wsAfter,
         told \in Seq({"ready", "error", "destroy"}), CloseChannel(st, wsAfter)
  PROVE  /\ state' \in StateRecords
         /\ told' \in Seq({"ready", "error", "destroy"})
         /\ \/ /\ channel' = "none" /\ ws' = "WS_CLOSED" /\ OnClose(st)
               /\ state'.current \in {"ERR", "DESTROYED"}
            \/ /\ channel = "up" /\ channel' = "closing" /\ ws' = wsAfter
               /\ state' = st /\ told' = told
PROOF
  <1>1. CASE ChannelGone(st)
    BY <1>1, OnCloseEnds DEF ChannelGone
  <1>2. CASE CloseLater(st, wsAfter)
    BY <1>2 DEF CloseLater
  <1> QED BY <1>1, <1>2 DEF CloseChannel

--------------------------------------------------------------------------------
(* The invariant                                                                *)

LEMMA InitIInv == Init => IInv
PROOF BY WsAssumption DEF Init, IInv, TypeOK, Layers, LayersAgree, Quiet, Counts, Ended,
         TunnelStates, WsStates

(* An action after which the tunnel has ended and nothing is below it.          *)
LEMMA EndedIsInvariant ==
  ASSUME IInv,
         state' \in StateRecords, told' \in Seq({"ready", "error", "destroy"}),
         state'.current \in {"ERR", "DESTROYED"}, channel' = "none", ws' = "WS_CLOSED",
         pingCnt' \in 0 .. MaxPings, UNCHANGED networkVars
  PROVE  IInv'
PROOF BY DEF IInv, TypeOK, Layers, LayersAgree, Quiet, Counts, Ended,
         StateRecords, WsStates, networkVars

(* An action that puts off the close of an open or upgrading channel.           *)
LEMMA ClosingIsInvariant ==
  ASSUME IInv,
         channel = "up", channel' = "closing", told' = told,
         \/ state' = state /\ ws' = ws
         \/ state' \in StateRecords /\ state'.current = "DESTROYING" /\ ws' = "WS_CLOSED",
         pingCnt' \in 0 .. MaxPings,
         pingCnt' = pingCnt \/ state.current = "CONNECTED",
         UNCHANGED networkVars
  PROVE  IInv'
PROOF BY DEF IInv, TypeOK, Layers, LayersAgree, Quiet, Counts, Ended,
         StateRecords, WsStates, networkVars

(* Every action preserves the invariant.                                        *)
LEMMA NextIInv == IInv /\ [Next]_vars => IInv'
PROOF
  <1> SUFFICES ASSUME IInv, [Next]_vars PROVE IInv'
    OBVIOUS
  <1> USE WsAssumption
  <1>1. /\ state \in StateRecords /\ told \in Seq({"ready", "error", "destroy"})
        /\ pingCnt \in 0 .. MaxPings
    BY DEF IInv, TypeOK, StateRecords
  <1>2. TunnelStates = {"INITIAL", "CONNECTING", "CONNECTED", "ERR", "DESTROYING", "DESTROYED"}
    BY DEF TunnelStates
  <1>3. CASE Construct
    <2>1. state' \in StateRecords /\ state'.current = "CONNECTING"
      BY <1>1, <1>2, <1>3, ChangedState DEF Construct
    <2> QED BY <2>1, <1>3 DEF Construct, Open, IInv, TypeOK, Layers, LayersAgree, Quiet,
               Counts, Ended, StateRecords, WsStates, networkVars
  <1>4. CASE OnConnection
    BY <1>4 DEF OnConnection, IInv, TypeOK, Layers, LayersAgree, Quiet, Counts, Ended,
       StateRecords, WsStates, networkVars, tunnelVars
  <1>5. CASE OnChannelClosed
    BY <1>1, <1>5, OnCloseEnds, EndedIsInvariant DEF OnChannelClosed, ChannelGone
  <1>6. CASE Redirect
    BY <1>6 DEF Redirect, Open, IInv, TypeOK, Layers, LayersAgree, Quiet, Counts, Ended,
       WsStates, tunnelVars
  <1>7. CASE UpgradeRefused
    BY <1>1, <1>7, CloseChannelEnds, EndedIsInvariant, ClosingIsInvariant DEF UpgradeRefused
  <1>8. CASE Upgraded
    <2>1. state' \in StateRecords /\ state'.current = "CONNECTED"
      BY <1>1, <1>2, <1>8, ChangedState DEF Upgraded
    <2>2. told' \in Seq({"ready", "error", "destroy"})
      BY <1>1, <1>8 DEF Upgraded
    <2> QED BY <2>1, <2>2, <1>8 DEF Upgraded, IInv, TypeOK, Layers, LayersAgree, Quiet,
               Counts, Ended, StateRecords, WsStates, networkVars
  <1>9. CASE OnCloseFrame
    BY <1>1, <1>9, CloseChannelEnds, EndedIsInvariant, ClosingIsInvariant DEF OnCloseFrame
  <1>10. CASE OnPong
    BY <1>10 DEF OnPong, IInv, TypeOK, Layers, LayersAgree, Quiet, Counts, Ended, tunnelVars
  <1>11. CASE Heartbeat
    <2>1. state.current = "CONNECTED" \/ channel = "closing"
      BY <1>11 DEF Heartbeat, Heartbeating, IInv, TypeOK, Layers, LayersAgree, Quiet, Ended
    <2>2. pingCnt' \in 0 .. MaxPings /\ (pingCnt < 3 => pingCnt' = pingCnt + 1)
      BY <1>1, <1>11 DEF Heartbeat, AtMost
    <2>3. state.current \notin {"INITIAL", "CONNECTING"}
      <3>1. told # <<>>
        BY <1>11 DEF Heartbeat, Heartbeating
      <3> QED BY <3>1 DEF IInv, Quiet
    <2>4. CASE pingCnt = 3 /\ CloseChannel(state, ws) /\ UNCHANGED <<pings, pongs, peer, redirects>>
      BY <1>1, <2>1, <2>2, <2>3, <2>4, CloseChannelEnds, EndedIsInvariant, ClosingIsInvariant
         DEF networkVars
    <2>5. CASE pingCnt # 3 /\ pings' = AtMost(pings + 1)
               /\ UNCHANGED <<tunnelVars, ws, channel, pongs, peer, redirects>>
      BY <2>2, <2>3, <2>5 DEF AtMost, IInv, TypeOK, Layers, LayersAgree, Quiet, Counts, Ended,
         tunnelVars
    <2> QED BY <1>11, <2>4, <2>5 DEF Heartbeat
  <1>12. CASE Destroy
    <2> DEFINE st == changeState(state, "DESTROYING")
    <2>1. st \in StateRecords /\ st.current = "DESTROYING"
      BY <1>1, <1>2, ChangedState
    <2>2. CASE CloseChannel(st, "WS_CLOSED") /\ UNCHANGED <<pingCnt, networkVars>>
      <3> HIDE DEF st
      <3> QED BY <1>1, <2>1, <2>2, CloseChannelEnds, EndedIsInvariant, ClosingIsInvariant
    <2>3. CASE channel = "none" /\ state' = st /\ ws' = "WS_CLOSED"
               /\ UNCHANGED <<told, channel, pingCnt, networkVars>>
      BY <2>1, <2>3 DEF IInv, TypeOK, Layers, LayersAgree, Quiet, Counts, Ended,
         StateRecords, WsStates, networkVars
    <2> QED BY <1>12, <2>2, <2>3 DEF Destroy
  <1>13. CASE PeerAnswers
    BY <1>13 DEF PeerAnswers, AtMost, IInv, TypeOK, Layers, LayersAgree, Quiet, Counts, Ended,
       tunnelVars
  <1>14. CASE PeerFallsSilent
    BY <1>14 DEF PeerFallsSilent, IInv, TypeOK, Layers, LayersAgree, Quiet, Counts, Ended,
       tunnelVars
  <1>15. CASE UNCHANGED vars
    BY <1>15 DEF vars, IInv, TypeOK, Layers, LayersAgree, Quiet, Counts, Ended, tunnelVars,
       networkVars
  <1> QED BY <1>3, <1>4, <1>5, <1>6, <1>7, <1>8, <1>9, <1>10, <1>11, <1>12, <1>13, <1>14, <1>15
          DEF Next

LEMMA AlwaysIInv == Spec => []IInv
PROOF BY InitIInv, NextIInv, PTL DEF Spec

--------------------------------------------------------------------------------
(* The theorems                                                                 *)

(* Type correctness of the tunnel, its client and the network, in particular    *)
(* that every state of the tunnel is one of Tunnel::State.                      *)
THEOREM TunnelTypes == Spec => []TypeOK
PROOF BY AlwaysIInv, PTL DEF IInv

(* A tunnel is CONNECTED exactly while its client is open, with a channel to    *)
(* send on, and no late answer makes a destroyed tunnel CONNECTED.              *)
THEOREM TunnelLayersAgree == Spec => []LayersAgree
PROOF
  <1>1. IInv => LayersAgree
    BY DEF IInv, Layers
  <1> QED BY <1>1, AlwaysIInv, PTL

(* However many pings are under way, the heartbeat counts no more than are      *)
(* unanswered when it decides to close.                                         *)
THEOREM HeartbeatIsRight == Spec => []HeartbeatCountsUnanswered
PROOF
  <1>1. IInv => HeartbeatCountsUnanswered
    BY DEF IInv, Counts, HeartbeatCountsUnanswered
  <1> QED BY <1>1, AlwaysIInv, PTL

(* The end of a tunnel is an abstract end, if it has begun and not ended.       *)
LEMMA OnCloseImplements ==
  ASSUME NEW st \in StateRecords, told \in Seq({"ready", "error", "destroy"}), OnClose(st),
         \/ st = state /\ state.current \in {"CONNECTING", "CONNECTED", "DESTROYING"}
         \/ /\ st.current = "DESTROYING"
            /\ state.current \in {"CONNECTING", "CONNECTED", "DESTROYING"}
  PROVE  Life!Next
PROOF BY OnCloseEnds DEF Life!Next, Life!Fail, Life!Destroyed

(* The tunnel goes through its states in one direction, says once that it is    *)
(* ready and ends with one of onError and onDestroy: it implements TunnelLife.  *)
THEOREM TunnelImplementsLife == Spec => ImplementsTunnelLife
PROOF
  <1>1. Init => Life!Init
    BY DEF Init, Life!Init
  <1>2. ASSUME IInv, [Next]_vars
        PROVE  Life!Next \/ UNCHANGED <<state.current, told>>
    <2>1. /\ state \in StateRecords /\ told \in Seq({"ready", "error", "destroy"})
      BY <1>2 DEF IInv, TypeOK, StateRecords
    <2>2. channel # "none" => state.current \in {"CONNECTING", "CONNECTED", "DESTROYING"}
      BY <1>2 DEF IInv, TypeOK, TunnelStates, Layers, LayersAgree, Ended
    <2>3. CASE Construct
      BY <2>1, <2>3, ChangedState DEF Construct, TunnelStates, Life!Next, Life!Start
    <2>4. CASE OnChannelClosed
      BY <2>1, <2>2, <2>4, OnCloseImplements DEF OnChannelClosed, ChannelGone
    <2>5. CASE \E wsAfter : CloseChannel(state, wsAfter)
      BY <2>1, <2>2, <2>5, OnCloseImplements, CloseChannelEnds DEF CloseChannel
    <2>6. CASE Upgraded
      <3>1. state.current = "CONNECTING"
        BY <1>2, <2>6 DEF Upgraded, IInv, Layers, LayersAgree
      <3>2. state'.current = "CONNECTED" /\ told' = Append(told, "ready")
        BY <2>1, <2>6, ChangedState DEF Upgraded, TunnelStates
      <3> QED BY <3>1, <3>2 DEF Life!Next, Life!Connect
    <2>7. CASE Destroy
      <3> DEFINE st == changeState(state, "DESTROYING")
      <3>1. st \in StateRecords /\ st.current = "DESTROYING"
        BY <2>1, ChangedState DEF TunnelStates
      <3>2. state.current \in {"CONNECTING", "CONNECTED", "DESTROYING"}
        BY <2>7 DEF Destroy
      <3>3. ASSUME state'.current = "DESTROYING", told' = told
            PROVE  Life!Next \/ UNCHANGED <<state.current, told>>
        BY <3>2, <3>3 DEF Life!Next, Life!AskDestroy
      <3>4. CASE CloseChannel(st, "WS_CLOSED")
        <4> HIDE DEF st
        <4> QED BY <2>1, <3>1, <3>2, <3>3, <3>4, CloseChannelEnds, OnCloseImplements
      <3>5. CASE state' = st /\ UNCHANGED told
        BY <3>1, <3>3, <3>5
      <3> QED BY <2>7, <3>4, <3>5 DEF Destroy
    <2>8. CASE UNCHANGED tunnelVars
      BY <2>8 DEF tunnelVars
    <2> QED BY <1>2, <2>3, <2>4, <2>5, <2>6, <2>7, <2>8 DEF Next, OnConnection, Redirect,
               UpgradeRefused, OnCloseFrame, OnPong, Heartbeat, PeerAnswers, PeerFallsSilent,
               vars, tunnelVars
  <1>3. IInv /\ [Next]_vars => [Life!Next]_<<state.current, told>>
    BY <1>2
  <1>4. Spec => Life!Init /\ [][Life!Next]_<<state.current, told>>
    BY <1>1, <1>3, AlwaysIInv, PTL DEF Spec
  <1> QED BY <1>4, PTL DEF ImplementsTunnelLife, Life!Spec, Life!lifeVars

--------------------------------------------------------------------------------
(* What the users of a tunnel are told                                          *)

(* The callbacks a tunnel's users have had, for each state of the tunnel: ready *)
(* once and first, an error only instead of it, and after onError or onDestroy  *)
(* nothing, so ClientPairManager and the factory free a tunnel exactly once.    *)
Story ==
  /\ state.current \in {"INITIAL", "CONNECTING"} => told = <<>>
  /\ state.current = "CONNECTED" => told = <<"ready">>
  /\ state.current = "DESTROYING" => told \in {<<>>, <<"ready">>}
  /\ state.current = "ERR" => told = <<"error">>
  /\ state.current = "DESTROYED" => told \in {<<"destroy">>, <<"ready", "destroy">>}

(* A second callback is told after the first.                                   *)
LEMMA AppendToOne ==
  ASSUME NEW a, NEW b
  PROVE  Append(<<a>>, b) = <<a, b>>
PROOF
  <1>1. <<a>> \in Seq({a, b}) /\ Len(<<a>>) = 1 /\ <<a, b>> \in Seq({a, b}) /\ Len(<<a, b>>) = 2
    OBVIOUS
  <1>2. /\ Append(<<a>>, b) \in Seq({a, b}) /\ Len(Append(<<a>>, b)) = 2
        /\ Append(<<a>>, b)[1] = a /\ Append(<<a>>, b)[2] = b
    BY <1>1, AppendProperties
  <1>3. \A i \in 1 .. 2 : i = 1 \/ i = 2
    OBVIOUS
  <1>4. \A i \in 1 .. 2 : Append(<<a>>, b)[i] = <<a, b>>[i]
    BY <1>2, <1>3
  <1> QED BY <1>1, <1>2, <1>4, SeqEqual

(* It follows from TunnelLife alone.                                            *)
LEMMA LifeTellsStory == Life!Spec => []Story
PROOF
  <1>1. Life!Init => Story
    BY DEF Life!Init, Story
  <1>2. Story /\ [Life!Next]_<<state.current, told>> => Story'
    <2> SUFFICES ASSUME Story, [Life!Next]_<<state.current, told>> PROVE Story'
      OBVIOUS
    <2> USE DEF Story
    <2>0. /\ Append(<<>>, "ready") = <<"ready">> /\ Append(<<>>, "error") = <<"error">>
          /\ Append(<<>>, "destroy") = <<"destroy">>
          /\ Append(<<"ready">>, "destroy") = <<"ready", "destroy">>
      BY AppendToOne
    <2>1. CASE Life!Start
      BY <2>1 DEF Life!Start
    <2>2. CASE Life!Connect
      BY <2>0, <2>2 DEF Life!Connect
    <2>3. CASE Life!Fail
      BY <2>0, <2>3 DEF Life!Fail
    <2>4. CASE Life!AskDestroy
      BY <2>4 DEF Life!AskDestroy
    <2>5. CASE Life!Destroyed
      BY <2>0, <2>5 DEF Life!Destroyed
    <2>6. CASE UNCHANGED <<state.current, told>>
      BY <2>6
    <2> QED BY <2>1, <2>2, <2>3, <2>4, <2>5, <2>6 DEF Life!Next
  <1> QED BY <1>1, <1>2, PTL DEF Life!Spec, Life!lifeVars

(* Users of a tunnel hear "ready" at most once, and one end.                    *)
THEOREM TunnelTellsOneStory == Spec => []Story
PROOF
  <1> QED BY TunnelImplementsLife, LifeTellsStory, PTL DEF ImplementsTunnelLife

================================================================================
