---------------------------- MODULE WsClientTunnel ----------------------------
(* One tunnel of the client, from its constructor to its last callback:         *)
(* LibhvWsClientTunnel over WebSocketClient over a TCP channel of libhv.        *)
(* WebSocketClient connects, writes the upgrade request, follows redirects,     *)
(* and, once it is open, counts the pings it sent without hearing a pong and    *)
(* closes at the fourth heartbeat in a row.  All of it runs on the client's     *)
(* loop, so a handler with the callbacks it triggers is one action.             *)
(*                                                                              *)
(* Assumed of libhv: a close runs onclose before it returns, or, when data is   *)
(* unwritten, some time later, and reading and the heartbeat go on meanwhile; a *)
(* second close does not wait.  A TCP connect that gets no answer fails (its    *)
(* connect timeout); nothing times out an upgrade that gets none.               *)
(*                                                                              *)
(* The reconnect policy that the constructor gives to libhv (setReconnect) has  *)
(* no counterpart.  libhv looks at it after onclose, and by then either the     *)
(* tunnel is freed, its users having dropped the last reference in onclose, or  *)
(* destroy() has cleared the policy (closesocket).                              *)

EXTENDS Integers, Sequences

CONSTANTS
  SocketMayFail,  \* may createsocket fail?
  MaxRedirects,   \* bound on the redirects a peer sends; the code has none
  MaxPings        \* bound on the pings and on ping_cnt; more are as good as these

ASSUME WsAssumption ==
  /\ SocketMayFail \in BOOLEAN
  /\ MaxRedirects \in Nat
  /\ MaxPings \in Nat /\ MaxPings > 4

VARIABLES
  state,      \* LibhvWsClientTunnel::_state
  told,       \* the callbacks triggered so far
  ws,         \* WebSocketClient::state
  channel,    \* the TCP channel: "none", "connecting", "up", "closing"
  pingCnt,    \* ping_cnt
  pings,      \* pings on their way to the peer
  pongs,      \* pongs on their way back
  peer,       \* does the peer still answer: "answers" or "silent"
  redirects   \* redirects so far

tunnelVars == <<state, told>>
networkVars == <<pings, pongs, peer, redirects>>
vars == <<tunnelVars, ws, channel, pingCnt, networkVars>>

TunnelStates == {"INITIAL", "CONNECTING", "CONNECTED", "ERR", "DESTROYING", "DESTROYED"}
WsStates == {"CONNECTING", "WS_UPGRADING", "WS_OPENED", "WS_CLOSED"}

Ended == state.current \in {"ERR", "DESTROYED"}
Heartbeating == channel \in {"up", "closing"} /\ "ready" \in {told[i] : i \in DOMAIN told}

(* The types of the tunnel, its client and the network below.                   *)
TypeOK ==
  /\ state \in [previous : TunnelStates, current : TunnelStates]
  /\ told \in Seq({"ready", "error", "destroy"})
  /\ ws \in WsStates
  /\ channel \in {"none", "connecting", "up", "closing"}
  /\ pingCnt \in 0 .. MaxPings
  /\ pings \in 0 .. MaxPings /\ pongs \in 0 .. MaxPings
  /\ peer \in {"answers", "silent"}
  /\ redirects \in 0 .. MaxRedirects

Init ==
  /\ state = [previous |-> "INITIAL", current |-> "INITIAL"]
  /\ told = <<>>
  /\ ws = "WS_CLOSED" /\ channel = "none"
  /\ pingCnt = 0 /\ pings = 0 /\ pongs = 0
  /\ peer = "answers" /\ redirects = 0

--------------------------------------------------------------------------------
(* changeState: nothing happens when the state is the current one.              *)
changeState(st, to) ==
  IF st.current = to THEN st ELSE [previous |-> st.current, current |-> to]

(* A connected tunnel is DESTROYING for a moment when its connection ends.      *)
Destroying(st) == IF st.current = "CONNECTED" THEN changeState(st, "DESTROYING") ELSE st

(* The tunnel's onclose, for a tunnel that stands at st: an error while         *)
(* connecting, the end of a life otherwise.                                     *)
OnCloseReconnects(st) ==  \* mutant: the diagram's RECONNECTING after all
  /\ state' = changeState(st, IF st.current = "CONNECTED" THEN "RECONNECTING" ELSE "DESTROYED")
  /\ told' = Append(told, "destroy")

OnClose(st) ==
  \/ /\ st.current = "CONNECTING"
     /\ state' = changeState(st, "ERR")
     /\ told' = Append(told, "error")
  \/ /\ st.current # "CONNECTING"
     /\ state' = changeState(Destroying(st), "DESTROYED")
     /\ told' = Append(told, "destroy")

(* The channel is closed: onConnection of a channel that is not connected.      *)
ChannelGone(st) ==
  /\ channel' = "none"
  /\ ws' = "WS_CLOSED"
  /\ OnClose(st)

(* close() of a channel: at once, or later while unwritten data is left.        *)
CloseLater(st, wsAfter) ==
  /\ channel = "up"
  /\ channel' = "closing"
  /\ ws' = wsAfter
  /\ state' = st
  /\ UNCHANGED told

CloseChannel(st, wsAfter) ==
  /\ channel # "none"
  /\ ChannelGone(st) \/ CloseLater(st, wsAfter)

(* open(): close what there is, create a socket, start to connect.  Without a   *)
(* socket it returns before it sets its state.                                  *)
Open ==
  /\ channel' \in IF SocketMayFail THEN {"none", "connecting"} ELSE {"connecting"}
  /\ ws' = IF channel' = "none" THEN "WS_CLOSED" ELSE "CONNECTING"

--------------------------------------------------------------------------------
(* The constructor: open(), whose result is ignored, then CONNECTING.  (For     *)
(* setReconnect see above.)                                                     *)
Construct ==
  /\ state.current = "INITIAL"
  /\ Open
  /\ state' = changeState(state, "CONNECTING")
  /\ UNCHANGED <<told, pingCnt, networkVars>>

(* The channel connects: CONNECTED, the upgrade request is written, UPGRADING.  *)
OnConnectionNotUpgrading ==  \* mutant: the state WS_UPGRADING is not set
  /\ channel = "connecting"
  /\ channel' = "up"
  /\ UNCHANGED <<ws, tunnelVars, pingCnt, networkVars>>

OnConnection ==
  /\ channel = "connecting"
  /\ channel' = "up"
  /\ ws' = "WS_UPGRADING"
  /\ UNCHANGED <<tunnelVars, pingCnt, networkVars>>

(* A connect that fails, a peer or network that closes, the end of a close that *)
(* was put off.                                                                 *)
OnChannelClosed ==
  /\ channel # "none"
  /\ ChannelGone(state)
  /\ UNCHANGED <<pingCnt, networkVars>>

(* The answer to the upgrade request sends us elsewhere: the channel loses its  *)
(* onclose, is closed, and open() starts again.                                 *)
RedirectTellsOnClose ==  \* mutant: the channel keeps its onclose
  /\ ws = "WS_UPGRADING" /\ channel = "up" /\ peer = "answers"
  /\ redirects < MaxRedirects /\ redirects' = redirects + 1
  /\ Open
  /\ OnClose(state)
  /\ UNCHANGED <<pingCnt, pings, pongs, peer>>

Redirect ==
  /\ ws = "WS_UPGRADING" /\ channel = "up" /\ peer = "answers"
  /\ redirects < MaxRedirects /\ redirects' = redirects + 1
  /\ Open
  /\ UNCHANGED <<tunnelVars, pingCnt, pings, pongs, peer>>

(* It is no answer, not 101, or its key is wrong.                               *)
UpgradeRefused ==
  /\ ws = "WS_UPGRADING" /\ channel \in {"up", "closing"} /\ peer = "answers"
  /\ CloseChannel(state, ws)
  /\ UNCHANGED <<pingCnt, networkVars>>

(* It is 101: the heartbeat starts, and onopen tells the tunnel.                *)
Upgraded ==
  /\ ws = "WS_UPGRADING" /\ channel = "up" /\ peer = "answers"
  /\ ws' = "WS_OPENED"
  /\ pingCnt' = 0
  /\ state' = changeState(state, "CONNECTED")
  /\ told' = Append(told, "ready")
  /\ UNCHANGED <<channel, networkVars>>

(* A close frame, or bytes that are no frame, on an open connection.  Messages  *)
(* and pings of the peer change nothing here.                                   *)
OnCloseFrame ==
  /\ ws = "WS_OPENED" /\ channel \in {"up", "closing"} /\ peer = "answers"
  /\ CloseChannel(state, ws)
  /\ UNCHANGED <<pingCnt, networkVars>>

(* A pong starts the count anew, whichever ping it answers.  After close() the  *)
(* client is WS_CLOSED and drops what it reads.                                 *)
OnPongIgnored ==  \* mutant: the count is never set back
  /\ pongs > 0 /\ channel \in {"up", "closing"}
  /\ pongs' = pongs - 1
  /\ UNCHANGED <<tunnelVars, ws, channel, pingCnt, pings, peer, redirects>>

OnPong ==
  /\ pongs > 0 /\ channel \in {"up", "closing"}
  /\ pongs' = pongs - 1
  /\ pingCnt' = IF ws = "WS_OPENED" THEN 0 ELSE pingCnt
  /\ UNCHANGED <<tunnelVars, ws, channel, pings, peer, redirects>>

AtMost(n) == IF n > MaxPings THEN MaxPings ELSE n

(* The heartbeat: if (ping_cnt++ == 3) close, else ping.                        *)
HeartbeatUncounted ==  \* mutant: the pings are not counted
  /\ Heartbeating
  /\ pings' = AtMost(pings + 1)
  /\ UNCHANGED <<tunnelVars, ws, channel, pingCnt, pongs, peer, redirects>>

Heartbeat ==
  /\ Heartbeating
  /\ pingCnt' = AtMost(pingCnt + 1)
  /\ \/ /\ pingCnt = 3
        /\ CloseChannel(state, ws)
        /\ UNCHANGED pings
     \/ /\ pingCnt # 3
        /\ pings' = AtMost(pings + 1)
        /\ UNCHANGED <<tunnelVars, ws, channel>>
  /\ UNCHANGED <<pongs, peer, redirects>>

(* LibhvWsClientTunnel::destroy, from cleanUpUselessTunnels: DESTROYING, then   *)
(* close(), after which the client is WS_CLOSED whatever came of it.            *)
DestroyStaysOpen ==  \* mutant: close() leaves the client's state as it is
  /\ state.current \in {"CONNECTING", "CONNECTED", "DESTROYING"}
  /\ LET st == changeState(state, "DESTROYING") IN
       \/ CloseChannel(st, ws)
       \/ /\ channel = "none"
          /\ state' = st
          /\ UNCHANGED <<told, ws, channel>>
  /\ UNCHANGED <<pingCnt, networkVars>>

Destroy ==
  /\ state.current \in {"CONNECTING", "CONNECTED", "DESTROYING"}
  /\ LET st == changeState(state, "DESTROYING") IN
       \/ CloseChannel(st, "WS_CLOSED")
       \/ /\ channel = "none"
          /\ state' = st /\ ws' = "WS_CLOSED"
          /\ UNCHANGED <<told, channel>>
  /\ UNCHANGED <<pingCnt, networkVars>>

(* The peer: it answers a ping, in its own time, until it falls silent with the *)
(* connection open.                                                             *)
PeerAnswers ==
  /\ peer = "answers" /\ pings > 0 /\ channel \in {"up", "closing"}
  /\ pings' = pings - 1 /\ pongs' = AtMost(pongs + 1)
  /\ UNCHANGED <<tunnelVars, ws, channel, pingCnt, peer, redirects>>

PeerFallsSilent ==
  /\ peer = "answers" /\ channel # "none"
  /\ peer' = "silent"
  /\ UNCHANGED <<tunnelVars, ws, channel, pingCnt, pings, pongs, redirects>>

Next ==
  \/ Construct
  \/ OnConnection \/ OnChannelClosed
  \/ Redirect \/ UpgradeRefused \/ Upgraded
  \/ OnCloseFrame \/ OnPong \/ Heartbeat
  \/ Destroy
  \/ PeerAnswers \/ PeerFallsSilent

Spec == Init /\ [][Next]_vars

(* The loop runs the constructor, the heartbeat's timer and what has arrived.   *)
(* A connect ends one way or the other, and a close that was put off ends.  A   *)
(* peer that has not fallen silent answers the upgrade request in the end.      *)
Fairness ==
  /\ WF_vars(Construct)
  /\ WF_vars(OnConnection \/ (channel = "connecting" /\ OnChannelClosed))
  /\ WF_vars(channel = "closing" /\ OnChannelClosed)
  /\ WF_vars(Redirect \/ UpgradeRefused \/ Upgraded)
  /\ WF_vars(OnPong)
  /\ WF_vars(Heartbeat)

FairSpec == Spec /\ Fairness

--------------------------------------------------------------------------------
(* The two state machines, which change in different handlers and only in part  *)
(* together, agree: a tunnel is CONNECTED exactly while its client is open, and *)
(* then has a channel (send and the heartbeat use it unchecked); a client that  *)
(* connects or upgrades belongs to a tunnel that is CONNECTING, so no answer    *)
(* that comes after destroy() can make the tunnel CONNECTED; nothing is left    *)
(* below a tunnel that has ended.                                               *)
LayersAgree ==
  /\ state.current = "CONNECTED" <=> ws = "WS_OPENED"
  /\ state.current = "CONNECTED" => channel \in {"up", "closing"}
  /\ ws \in {"CONNECTING", "WS_UPGRADING"} => state.current = "CONNECTING"
  /\ ws = "CONNECTING" => channel = "connecting"
  /\ Ended => channel = "none"

(* The heartbeat closes a connection only when the last three pings are really  *)
(* unanswered: the count never exceeds the pings whose pong is not here yet,    *)
(* however late and in whatever groups the pongs come.                          *)
HeartbeatCountsUnanswered ==
  channel = "up" => pingCnt <= pings + pongs

(* A tunnel goes through its states in one direction and tells its users once   *)
(* that it is ready and once, by one of two callbacks, that it is gone.         *)
Life == INSTANCE TunnelLife WITH phase <- state.current
ImplementsTunnelLife == Life!Spec

(* A peer that answers nothing more, without closing, costs an open tunnel its  *)
(* life in the end: its pairs do not wait for ever on a dead connection.        *)
SilentPeerIsCut ==
  peer = "silent" /\ state.current = "CONNECTED" ~> Ended

(* A tunnel that connects becomes CONNECTED, fails, or is destroyed, unless the *)
(* peer accepts the connection and then says nothing (no timer guards the       *)
(* upgrade, the heartbeat starts after it), or no socket could be created.      *)
HandshakeEnds ==
  state.current = "CONNECTING"
    ~> state.current # "CONNECTING" \/ peer = "silent" \/ channel = "none"

================================================================================
