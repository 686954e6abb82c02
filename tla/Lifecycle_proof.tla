---------------------------- MODULE Lifecycle_proof ----------------------------
(* Proofs about Lifecycle, for any set of ports, any width of an int and any    *)
(* number of signals: what has ended leaves nothing, what says it is running    *)
(* listens.                                                                     *)

EXTENDS Lifecycle, TLAPS

Up == {"started", "announcing", "loop"}   \* the listener was started

WorkerGone == worker \in {"none", "ended"}

(* How far run has come and what there is by then.                              *)
Started ==
  /\ main \in {"options", "armed", "ended", "terminated"} => WorkerGone
  /\ main \in {"options", "armed", "ended"} => listening = Nowhere
  /\ main \in {"options", "armed", "started", "ended"} => ~gcTimer /\ ~isRunning
  /\ main \in {"options", "ended", "terminated"} => handler = "none"
  /\ isRunning => main \in {"announcing", "loop"}
  /\ loopStopped => main \in {"announcing", "loop", "ended"}

(* How far shutdown has come and what is gone by then.                          *)
Stopped ==
  /\ handler \in {"stopListener", "join", "killTimer", "sayTimer", "stopLoop", "clear"} => isRunning
  /\ handler \in {"killTimer", "sayTimer", "stopLoop", "clear"} => WorkerGone /\ listening = Nowhere
  /\ handler \in {"sayTimer", "stopLoop", "clear"} => ~gcTimer
  /\ handler \in {"clear", "sayEnd"} => loopStopped
  /\ loopStopped => WorkerGone /\ listening = Nowhere /\ ~gcTimer
  /\ loopStopped => handler = "clear" \/ ~isRunning
  /\ main \in {"announcing", "loop"} /\ ~loopStopped => isRunning

ListensAsTold ==
  \/ listening = description.port
  \/ mode = "SERVER" /\ bindFails
  \/ mode = "SERVER" /\ description.port = 0
  \/ mode = "SERVER" /\ description.scheme = "file" /\ description.port > MaxPort

(* As long as nothing was stopped, the listener is what it was started as.      *)
Listens ==
  main \in Up /\ ~loopStopped /\ handler \in {"none", "check", "stopListener", "join"}
    => ListensAsTold

IInv == TypeOK /\ Started /\ Stopped /\ Listens

--------------------------------------------------------------------------------
LEMMA Numbers == MaxPort \in Nat /\ Nowhere \in Int /\ Nowhere <= 0
PROOF BY SMT DEF MaxPort, Nowhere

(* A socket has some port of 16 bits, and the one it was told if that has 16.   *)
LEMMA OnWireProperties ==
  ASSUME NEW port \in Nat
  PROVE  /\ OnWire(port) \in 0 .. MaxPort
         /\ port <= MaxPort => OnWire(port) = port
PROOF
  <1>1. port % (MaxPort + 1) \in 0 .. MaxPort
    BY Numbers, SMT
  <1>2. port <= MaxPort => port % (MaxPort + 1) = port
    BY Numbers, SMT
  <1> QED BY <1>1, <1>2 DEF OnWire

LEMMA PortsAreNumbers == TypeOK => description.port \in Nat
PROOF
  <1>1. TypeOK => description \in Description
    BY DEF TypeOK
  <1>2. description \in Description => description.port \in Port
    BY DEF Description
  <1>3. Port \subseteq Nat
    BY LifecycleAssumption
  <1> QED BY <1>1, <1>2, <1>3, Zenon

(* A URI or a client's address that is accepted has a port of 16 bits.          *)
LEMMA AcceptedPorts ==
  ASSUME NEW d, NEW port \in Nat, d.port = port, SplitIPAddress(d) = "SUCCESS"
  PROVE  port <= MaxPort
PROOF
  <1>1. ~(port > MaxPort)
    BY DEF SplitIPAddress
  <1> QED BY <1>1 DEF MaxPort

--------------------------------------------------------------------------------
(* The invariant                                                                *)

LEMMA InitIInv == Init => IInv
PROOF
  <1> SUFFICES ASSUME Init PROVE IInv
    OBVIOUS
  <1>1. TypeOK
    <2>1. /\ mode \in {"SERVER", "CLIENT", "NONE"} /\ description \in Description
          /\ bindFails \in BOOLEAN
      BY DEF Init
    <2>2. listening \in Nowhere .. MaxPort /\ signals \in 0 .. MaxSignals
      BY LifecycleAssumption DEF Init, Nowhere, MaxPort
    <2>3. holder \in [Lock -> {"free", "M", "W"}]
      BY DEF Init
    <2> QED BY <2>1, <2>2, <2>3 DEF Init, TypeOK
  <1>2. Started /\ Stopped /\ Listens
    BY DEF Init, Started, Stopped, Listens, Up, WorkerGone
  <1> QED BY <1>1, <1>2 DEF IInv

LEMMA ListeningIsLegal ==
  /\ Nowhere \in Nowhere .. MaxPort
  /\ \A port \in 0 .. MaxPort : port \in Nowhere .. MaxPort
PROOF BY Numbers, SMT

(* run gives up: it leaves nothing.                                             *)
LEMMA GiveUpIInv ==
  ASSUME IInv, main = "armed", handler = "none", NEW result, GiveUp(result),
         UNCHANGED <<configVars, wants, workerHandler, holder, handlerVars, signalVars>>
  PROVE  IInv'
PROOF
  <1>1. main' \in {"ended", "terminated"} /\ UNCHANGED <<isRunning, gcTimer, listening, worker>>
    BY DEF GiveUp
  <1>2. TypeOK'
    BY <1>1, SMT DEF IInv, TypeOK, configVars, handlerVars, signalVars
  <1>3. Started' /\ Stopped' /\ Listens'
    BY <1>1, SMT DEF IInv, Started, Stopped, Listens, Up, WorkerGone, handlerVars
  <1> QED BY <1>2, <1>3 DEF IInv

(* The listener is started.                                                     *)
LEMMA UpIInv ==
  ASSUME IInv, main = "armed", handler = "none",
         UNCHANGED <<configVars, wants, workerHandler, holder, handlerVars, signalVars>>,
         main' = "started", UNCHANGED <<isRunning, gcTimer>>,
         worker' \in {"none", "loop", "ended"}, listening' \in Nowhere .. MaxPort,
         ListensAsTold'
  PROVE  IInv'
PROOF
  <1>1. TypeOK'
    BY SMT DEF IInv, TypeOK, configVars, handlerVars, signalVars
  <1>2. ~isRunning /\ ~gcTimer /\ (loopStopped => ~gcTimer)
    BY SMT DEF IInv, Started
  <1>3. ~loopStopped
    BY SMT DEF IInv, Started
  <1>4. Started' /\ Stopped' /\ Listens'
    BY <1>2, <1>3, SMT DEF Started, Stopped, Listens, Up, WorkerGone, handlerVars
  <1> QED BY <1>1, <1>4 DEF IInv

(* A client, whose address has no scheme.                                       *)
LEMMA StartClientIInv ==
  ASSUME IInv, StartClient
  PROVE  IInv'
PROOF
  <1>1. /\ main = "armed" /\ handler = "none"
        /\ UNCHANGED <<configVars, wants, workerHandler, holder, handlerVars, signalVars>>
    BY DEF StartClient, Active
  <1>2. PICK result : \/ GiveUp(result)
                      \/ /\ SplitIPAddress(description) = "SUCCESS"
                         /\ listening' = OnWire(description.port)
                         /\ main' = "started"
                         /\ UNCHANGED <<isRunning, gcTimer, worker>>
    BY DEF StartClient
  <1>3. CASE GiveUp(result)
    BY <1>1, <1>3, GiveUpIInv
  <1>4. CASE /\ SplitIPAddress(description) = "SUCCESS"
             /\ listening' = OnWire(description.port)
             /\ main' = "started"
             /\ UNCHANGED <<isRunning, gcTimer, worker>>
    <2>1. PICK port \in Nat : port = description.port
      BY PortsAreNumbers DEF IInv
    <2>2. port <= MaxPort
      BY <1>4, <2>1, AcceptedPorts
    <2>3. listening' = port /\ listening' \in 0 .. MaxPort
      BY <1>4, <2>1, <2>2, OnWireProperties
    <2>4. listening' \in Nowhere .. MaxPort
      BY <2>3, ListeningIsLegal
    <2>5. ListensAsTold'
      BY <1>1, <2>1, <2>3 DEF ListensAsTold, configVars
    <2>6. worker' \in {"none", "loop", "ended"}
      BY <1>1, <1>4 DEF IInv, Started, WorkerGone
    <2> QED BY <1>1, <1>4, <2>4, <2>5, <2>6, UpIInv
  <1> QED BY <1>2, <1>3, <1>4

(* A server, whose address is a URI or in a file.                               *)
LEMMA StartServerIInv ==
  ASSUME IInv, StartServer
  PROVE  IInv'
PROOF
  <1>1. /\ main = "armed" /\ handler = "none" /\ mode = "SERVER"
        /\ UNCHANGED <<configVars, wants, workerHandler, holder, handlerVars, signalVars>>
    BY DEF StartServer, Active
  <1>2. PICK port \in Nat : port = description.port
    BY PortsAreNumbers DEF IInv
  <1>3. PICK result :
          \/ GiveUp(result)
          \/ /\ parse(description) = "SUCCESS"
             /\ worker' = IF bindFails /\ port # 0 THEN "none" ELSE "loop"
             /\ listening' = IF bindFails \/ port = 0 THEN Nowhere ELSE OnWire(port)
             /\ main' = "started"
             /\ UNCHANGED <<isRunning, gcTimer>>
    BY <1>2 DEF StartServer
  <1>4. CASE GiveUp(result)
    BY <1>1, <1>4, GiveUpIInv
  <1>5. CASE /\ parse(description) = "SUCCESS"
             /\ worker' = IF bindFails /\ port # 0 THEN "none" ELSE "loop"
             /\ listening' = IF bindFails \/ port = 0 THEN Nowhere ELSE OnWire(port)
             /\ main' = "started"
             /\ UNCHANGED <<isRunning, gcTimer>>
    <2>1. description.scheme \in {"ws", "file", "other"}
      BY DEF IInv, TypeOK, Description
    <2>2. port <= MaxPort \/ description.scheme = "file"
      <3>1. CASE description.scheme = "ws"
        BY <1>2, <1>5, <3>1, AcceptedPorts DEF parse
      <3>2. CASE description.scheme = "other"
        BY <1>5, <3>2 DEF parse
      <3> QED BY <2>1, <3>1, <3>2
    <2>3. OnWire(port) \in 0 .. MaxPort /\ (port <= MaxPort => OnWire(port) = port)
      BY OnWireProperties
    <2>4. listening' \in Nowhere .. MaxPort
      BY <1>5, <2>3, ListeningIsLegal
    <2>5. port <= MaxPort \/ port > MaxPort
      BY Numbers, SMT
    <2>6. \/ bindFails \/ port = 0 \/ listening' = port
          \/ description.scheme = "file" /\ port > MaxPort
      BY <1>5, <2>2, <2>3, <2>5
    <2>7. ListensAsTold'
      BY <1>1, <1>2, <2>6 DEF ListensAsTold, configVars
    <2> QED BY <1>1, <1>5, <2>4, <2>7, UpIInv
  <1> QED BY <1>3, <1>4, <1>5

--------------------------------------------------------------------------------
(* Main, from Configure to the return                                           *)

(* Locks, waits and signals are about none of the rest.                         *)
LEMMA AsideIInv ==
  ASSUME IInv, TypeOK', UNCHANGED <<configVars, runVars, worker, handler, loopStopped>>
  PROVE  IInv'
PROOF BY DEF IInv, Started, Stopped, Listens, ListensAsTold, Up, WorkerGone, configVars, runVars

LEMMA LockTypes ==
  ASSUME TypeOK, NEW l \in Lock, NEW who \in {"free", "M", "W"}
  PROVE  [holder EXCEPT ![l] = who] \in [Lock -> {"free", "M", "W"}]
PROOF BY DEF TypeOK

LEMMA MainIInv ==
  ASSUME IInv, Configure \/ SetRunning \/ RunLoop \/ RunReturns
  PROVE  IInv'
PROOF
  <1>1. "console" \in Lock
    BY DEF Lock
  <1>2. CASE Configure
    <2>1. TypeOK'
      BY <1>2 DEF Configure, IInv, TypeOK, configVars, workerVars, handlerVars, signalVars
    <2>2. Started' /\ Stopped' /\ Listens'
      BY <1>2, SMT DEF Configure, IInv, Started, Stopped, Listens, ListensAsTold, Up,
                       WorkerGone, configVars, workerVars, handlerVars
    <2> QED BY <2>1, <2>2 DEF IInv
  <1>3. CASE SetRunning
    <2>1. TypeOK'
      BY <1>1, <1>3, LockTypes
         DEF SetRunning, IInv, TypeOK, configVars, workerVars, handlerVars, signalVars
    <2>2. Started' /\ Stopped' /\ Listens'
      BY <1>3, SMT DEF SetRunning, Active, IInv, Started, Stopped, Listens, ListensAsTold, Up,
                       WorkerGone, configVars, workerVars, handlerVars
    <2> QED BY <2>1, <2>2 DEF IInv
  <1>4. CASE RunLoop
    <2>1. TypeOK'
      BY <1>1, <1>4, LockTypes
         DEF RunLoop, IInv, TypeOK, configVars, workerVars, handlerVars, signalVars
    <2>2. Started' /\ Stopped' /\ Listens'
      BY <1>4, SMT DEF RunLoop, Active, IInv, Started, Stopped, Listens, ListensAsTold, Up,
                       WorkerGone, configVars, workerVars, handlerVars
    <2> QED BY <2>1, <2>2 DEF IInv
  <1>5. CASE RunReturns
    <2>1. TypeOK'
      BY <1>5 DEF RunReturns, IInv, TypeOK, configVars, workerVars, handlerVars, signalVars
    <2>2. Started' /\ Stopped' /\ Listens'
      BY <1>5, SMT DEF RunReturns, Active, IInv, Started, Stopped, Listens, ListensAsTold, Up,
                       WorkerGone, configVars, workerVars, handlerVars
    <2> QED BY <2>1, <2>2 DEF IInv
  <1> QED BY <1>2, <1>3, <1>4, <1>5

LEMMA MainLocksIInv ==
  ASSUME IInv, (\E l \in Lock : MainTakes(l)) \/ MainReleases
  PROVE  IInv'
PROOF
  <1>1. PICK l \in Lock, who \in {"free", "M", "W"} :
          /\ holder' = [holder EXCEPT ![l] = who]
          /\ UNCHANGED <<configVars, runVars, workerVars, handlerVars, signalVars>>
    BY DEF MainTakes, MainReleases
  <1>2. TypeOK'
    BY <1>1, LockTypes DEF IInv, TypeOK, configVars, runVars, workerVars, handlerVars, signalVars
  <1> QED BY <1>1, <1>2, AsideIInv DEF workerVars, handlerVars

--------------------------------------------------------------------------------
(* W                                                                            *)

LEMMA WorkerIInv ==
  ASSUME IInv, (\E l \in Lock : WorkerWants(l)) \/ WorkerTakes \/ WorkerReleases \/ WorkerEnds
  PROVE  IInv'
PROOF
  <1>1. CASE \E l \in Lock : WorkerWants(l)
    <2>1. TypeOK'
      BY <1>1 DEF WorkerWants, IInv, TypeOK, configVars, runVars, handlerVars, signalVars
    <2> QED BY <1>1, <2>1, AsideIInv DEF WorkerWants, handlerVars
  <1>2. CASE WorkerTakes
    <2>1. wants \in Lock
      BY <1>2 DEF WorkerTakes, IInv, TypeOK
    <2>2. TypeOK'
      BY <1>2, <2>1, LockTypes
         DEF WorkerTakes, IInv, TypeOK, configVars, runVars, handlerVars, signalVars
    <2> QED BY <1>2, <2>2, AsideIInv DEF WorkerTakes, handlerVars
  <1>3. CASE WorkerReleases
    <2>1. holder' \in [Lock -> {"free", "M", "W"}]
      BY <1>3 DEF WorkerReleases, IInv, TypeOK
    <2>2. TypeOK'
      BY <1>3, <2>1
         DEF WorkerReleases, IInv, TypeOK, configVars, runVars, workerVars, handlerVars, signalVars
    <2> QED BY <1>3, <2>2, AsideIInv DEF WorkerReleases, workerVars, handlerVars
  <1>4. CASE WorkerEnds
    <2>1. TypeOK'
      BY <1>4 DEF WorkerEnds, IInv, TypeOK, configVars, runVars, handlerVars, signalVars
    <2>2. Started' /\ Stopped' /\ Listens'
      BY <1>4, SMT DEF WorkerEnds, IInv, Started, Stopped, Listens, ListensAsTold, Up,
                       WorkerGone, configVars, runVars, handlerVars
    <2> QED BY <2>1, <2>2 DEF IInv
  <1> QED BY <1>1, <1>2, <1>3, <1>4

--------------------------------------------------------------------------------
(* SIGINT                                                                       *)

LEMMA SignalIInv ==
  ASSUME IInv, SendSignal \/ Interrupt \/ InterruptWorker \/ Check
  PROVE  IInv'
PROOF
  <1>1. CASE SendSignal
    <2>1. signals' \in 0 .. MaxSignals
      BY <1>1, LifecycleAssumption DEF SendSignal, IInv, TypeOK
    <2>2. TypeOK'
      BY <1>1, <2>1 DEF SendSignal, IInv, TypeOK, configVars, runVars, workerVars, handlerVars
    <2> QED BY <1>1, <2>2, AsideIInv DEF SendSignal, workerVars, handlerVars
  <1>2. CASE Interrupt
    <2>0. pending' \in BOOLEAN /\ interrupted' \in {"quiet", "holding"}
      BY <1>2, Zenon DEF Interrupt
    <2>1. TypeOK'
      BY <1>2, <2>0 DEF Interrupt, IInv, TypeOK, configVars, runVars, workerVars
    <2>2. Started' /\ Stopped' /\ Listens'
      BY <1>2, SMT DEF Interrupt, Alive, IInv, TypeOK, Started, Stopped, Listens, ListensAsTold, Up,
                       WorkerGone, configVars, runVars, workerVars
    <2> QED BY <2>1, <2>2 DEF IInv
  <1>3. CASE InterruptWorker
    <2>0. pending' \in BOOLEAN /\ workerHandler' \in BOOLEAN
      BY <1>3, Zenon DEF InterruptWorker
    <2>1. TypeOK'
      BY <1>3, <2>0 DEF InterruptWorker, IInv, TypeOK, configVars, runVars, handlerVars
    <2> QED BY <1>3, <2>1, AsideIInv DEF InterruptWorker, handlerVars
  <1>4. CASE Check
    <2>1. TypeOK'
      BY <1>4 DEF Check, IInv, TypeOK, configVars, runVars, workerVars, signalVars
    <2>2. Started' /\ Stopped' /\ Listens'
      BY <1>4, SMT DEF Check, IInv, Started, Stopped, Listens, ListensAsTold, Up,
                       WorkerGone, configVars, runVars, workerVars
    <2> QED BY <2>1, <2>2 DEF IInv
  <1> QED BY <1>1, <1>2, <1>3, <1>4

LEMMA ShutdownIInv ==
  ASSUME IInv, shutdown
  PROVE  IInv'
PROOF
  <1>1. CASE StopListener
    <2>1. TypeOK'
      BY <1>1 DEF StopListener, IInv, TypeOK, configVars, runVars, signalVars
    <2>2. Started' /\ Stopped' /\ Listens'
      BY <1>1, SMT DEF StopListener, IInv, Started, Stopped, Listens, ListensAsTold, Up,
                       WorkerGone, configVars, runVars
    <2> QED BY <2>1, <2>2 DEF IInv
  <1>2. CASE Join
    <2>1. TypeOK'
      BY <1>2, ListeningIsLegal DEF Join, IInv, TypeOK, configVars, workerVars, signalVars
    <2>2. Started' /\ Stopped' /\ Listens'
      BY <1>2, SMT DEF Join, IInv, Started, Stopped, Listens, ListensAsTold, Up,
                       WorkerGone, configVars, workerVars
    <2> QED BY <2>1, <2>2 DEF IInv
  <1>3. CASE KillTimer
    <2>0. gcTimer' \in BOOLEAN
      BY <1>3, Zenon DEF KillTimer
    <2>1. TypeOK'
      BY <1>3, <2>0 DEF KillTimer, IInv, TypeOK, configVars, workerVars, signalVars
    <2>2. Started' /\ Stopped' /\ Listens'
      BY <1>3, SMT DEF KillTimer, IInv, Started, Stopped, Listens, ListensAsTold, Up,
                       WorkerGone, configVars, workerVars
    <2> QED BY <2>1, <2>2 DEF IInv
  <1>4. CASE StopLoop
    <2>1. TypeOK'
      BY <1>4 DEF StopLoop, IInv, TypeOK, configVars, runVars, workerVars, signalVars
    <2>2. Started' /\ Stopped' /\ Listens'
      BY <1>4, SMT DEF StopLoop, IInv, Started, Stopped, Listens, ListensAsTold, Up,
                       WorkerGone, configVars, runVars, workerVars
    <2> QED BY <2>1, <2>2 DEF IInv
  <1>5. CASE ClearRunning
    <2>0. isRunning' \in BOOLEAN
      BY <1>5, Zenon DEF ClearRunning
    <2>1. TypeOK'
      BY <1>5, <2>0 DEF ClearRunning, IInv, TypeOK, configVars, workerVars, signalVars
    <2>2. Started' /\ Stopped' /\ Listens'
      BY <1>5, SMT DEF ClearRunning, IInv, Started, Stopped, Listens, ListensAsTold, Up,
                       WorkerGone, configVars, workerVars
    <2> QED BY <2>1, <2>2 DEF IInv
  <1>6. CASE SayOnConsole
    <2>1. TypeOK'
      BY <1>6 DEF SayOnConsole, IInv, TypeOK, configVars, runVars, workerVars, signalVars
    <2>2. Started' /\ Stopped' /\ Listens'
      BY <1>6, SMT DEF SayOnConsole, IInv, Started, Stopped, Listens, ListensAsTold, Up,
                       WorkerGone, configVars, runVars, workerVars
    <2> QED BY <2>1, <2>2 DEF IInv
  <1> QED BY <1>1, <1>2, <1>3, <1>4, <1>5, <1>6 DEF shutdown

--------------------------------------------------------------------------------
LEMMA NextIInv == IInv /\ [Next]_vars => IInv'
PROOF
  <1> SUFFICES ASSUME IInv, [Next]_vars PROVE IInv'
    OBVIOUS
  <1>1. CASE UNCHANGED vars
    <2>1. TypeOK'
      BY <1>1 DEF IInv, TypeOK, vars, configVars, runVars, workerVars, handlerVars, signalVars
    <2> QED BY <1>1, <2>1, AsideIInv DEF vars, workerVars, handlerVars
  <1>2. CASE Next
    BY <1>2, StartServerIInv, StartClientIInv, MainIInv, MainLocksIInv, WorkerIInv,
       SignalIInv, ShutdownIInv DEF Next
  <1> QED BY <1>1, <1>2

THEOREM AlwaysIInv == Spec => []IInv
PROOF BY InitIInv, NextIInv, PTL DEF Spec

(* Type correctness, for any set of ports and any number of signals.            *)
THEOREM LifecycleTypes == Spec => []TypeOK
PROOF
  <1>1. IInv => TypeOK
    BY DEF IInv
  <1> QED BY <1>1, AlwaysIInv, PTL

(* However it was configured, whatever failed and whenever it was interrupted:  *)
(* when main returns, no thread, listener or timer is left.                     *)
THEOREM EndedIsClean == Spec => []EndedLeavesNothing
PROOF
  <1>1. IInv => EndedLeavesNothing
    BY DEF IInv, Started, WorkerGone, EndedLeavesNothing
  <1> QED BY <1>1, AlwaysIInv, PTL

(* What says that it is running listens on the port it was told, but for the    *)
(* cases that a server does not look at.                                        *)
THEOREM RunningIsListening == Spec => []RunningListens
PROOF
  <1>1. IInv => RunningListens
    BY DEF IInv, Started, Stopped, Listens, ListensAsTold, Up, RunningListens
  <1> QED BY <1>1, AlwaysIInv, PTL

================================================================================
