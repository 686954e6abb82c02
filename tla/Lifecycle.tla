------------------------------- MODULE Lifecycle -------------------------------
(* The process, client or server, from its options to its end: main, the        *)
(* description of the address to listen on, run, shutdown and the handler of    *)
(* SIGINT, which calls shutdown on whatever the thread was doing.               *)
(*                                                                              *)
(* M is the main thread; it runs the loop of Client or Server.  W is the        *)
(* thread libhv starts for the server's WebSocket loop.  Two locks stand for    *)
(* those a thread may hold when a signal comes: "tables" for the mutexes of     *)
(* tunnels and pairs, "console" for the one in the logger's sink.               *)
(*                                                                              *)
(* Assumed of the platform: a SIGINT goes to M; while M is in the handler,      *)
(* where it is blocked, it goes to W if there is one, and waits otherwise.      *)
(* Assumed of libhv: stopping the WebSocket server stops W's loop and waits     *)
(* for the thread; a loop that is stopped before it runs does not run.          *)

EXTENDS Integers

CONSTANTS
  Port,        \* the port numbers that descriptions name
  IntMax,      \* the largest int; std::stoi and asInt throw above it
  MaxSignals   \* bound on the SIGINTs that are sent

ASSUME LifecycleAssumption ==
  /\ Port \subseteq Nat
  /\ IntMax \in Nat /\ IntMax >= 65536
  /\ MaxSignals \in Nat

VARIABLES
  mode,         \* appContext.runMode, or "NONE" when no option chose one
  description,  \* --listen-description
  bindFails,    \* is the address in use, or not one of this machine?
  main,         \* how far M got in main and run
  isRunning,    \* Client::isRunning, Server::_isRunning
  gcTimer,      \* is the collector's timer set?
  listening,    \* the port that is listened on (0: one the system chose), or Nowhere
  worker,       \* W: "none", "loop", "stopping", "ended"
  wants,        \* the lock that W waits for, or "none"
  holder,       \* who holds each of the two locks
  handler,      \* how far M got in shutdown, "none" outside the handler
  workerHandler,\* is W in the handler, waiting for _shutdownMutex?
  interrupted,  \* what M held when its handler began: "quiet", "holding"
  loopStopped,  \* was M's event loop stopped?
  signals,      \* SIGINTs sent
  pending       \* is a SIGINT undelivered?

configVars == <<mode, description, bindFails>>
runVars == <<main, isRunning, gcTimer, listening>>
workerVars == <<worker, wants, workerHandler>>
handlerVars == <<handler, interrupted, loopStopped>>
signalVars == <<signals, pending>>
vars == <<configVars, runVars, workerVars, holder, handlerVars, signalVars>>

Nowhere == -1
MaxPort == 65535
Lock == {"tables", "console"}

(* "none" stands for text that is no address, or a file that is missing or no   *)
(* JSON; "octet" for an IPv4 address with a number over 255; the IPv6 pattern   *)
(* takes any run of digits and colons.                                          *)
Description ==
  [scheme : {"ws", "file", "other"}, address : {"ipv4", "octet", "ipv6", "none"},
   port : Port, https : BOOLEAN, keys : BOOLEAN]

(* The types of the process's state.                                            *)
TypeOK ==
  /\ mode \in {"SERVER", "CLIENT", "NONE"}
  /\ description \in Description
  /\ bindFails \in BOOLEAN
  /\ main \in {"options", "armed", "started", "announcing", "loop", "ended", "terminated"}
  /\ isRunning \in BOOLEAN /\ gcTimer \in BOOLEAN
  /\ listening \in Nowhere .. MaxPort
  /\ worker \in {"none", "loop", "stopping", "ended"}
  /\ wants \in Lock \cup {"none"}
  /\ holder \in [Lock -> {"free", "M", "W"}]
  /\ handler \in {"none", "check", "stopListener", "join", "killTimer",
                  "sayTimer", "stopLoop", "clear", "sayEnd"}
  /\ workerHandler \in BOOLEAN
  /\ interrupted \in {"quiet", "holding"}
  /\ loopStopped \in BOOLEAN
  /\ signals \in 0 .. MaxSignals /\ pending \in BOOLEAN

Init ==
  /\ mode \in {"SERVER", "CLIENT", "NONE"}
  /\ description \in Description
  /\ bindFails \in BOOLEAN
  /\ main = "options" /\ isRunning = FALSE /\ gcTimer = FALSE /\ listening = Nowhere
  /\ worker = "none" /\ wants = "none" /\ workerHandler = FALSE
  /\ holder = [l \in Lock |-> "free"]
  /\ handler = "none" /\ interrupted = "quiet" /\ loopStopped = FALSE
  /\ signals = 0 /\ pending = FALSE

--------------------------------------------------------------------------------
(* The description                                                              *)

(* Socket::SplitIPAddress: the pattern, std::stoi, the port, then the octets.   *)
SplitIPAddressAnyPort(d) ==  \* mutant: the port is not checked
  IF d.address = "none" THEN "INVALID_FORMAT"
  ELSE IF d.port > IntMax THEN "throws"
  ELSE IF d.address = "octet" THEN "INVALID_IPV4_OCTET"
  ELSE "SUCCESS"

SplitIPAddress(d) ==
  IF d.address = "none" THEN "INVALID_FORMAT"
  ELSE IF d.port > IntMax THEN "throws"
  ELSE IF d.port > MaxPort THEN "INVALID_PORT"
  ELSE IF d.address = "octet" THEN "INVALID_IPV4_OCTET"
  ELSE "SUCCESS"

(* LibhvWsListenConfig::fromFile: the port has a lower limit only, and https    *)
(* needs a key and a certificate.                                               *)
fromFile(d) ==
  IF d.address = "none" THEN "fails"
  ELSE IF d.port > IntMax THEN "throws"
  ELSE IF d.port < 1 \/ (d.https /\ ~d.keys) THEN "fails"
  ELSE "SUCCESS"

parse(d) ==
  CASE d.scheme = "ws" -> SplitIPAddress(d)
    [] d.scheme = "file" -> fromFile(d)
    [] d.scheme = "other" -> "fails"

UsesTls(d) == d.scheme = "file" /\ d.https

(* What a socket makes of a port: 16 bits of it.                                *)
OnWireUncut(port) == port  \* mutant: the width is forgotten

OnWire(port) == port % (MaxPort + 1)

--------------------------------------------------------------------------------
(* Main                                                                         *)

(* main: the options, and then the object of the mode and the handler.  Without *)
(* -s and -c there is nothing to do.                                            *)
Configure ==
  /\ main = "options"
  /\ main' = IF mode = "NONE" THEN "ended" ELSE "armed"
  /\ UNCHANGED <<configVars, isRunning, gcTimer, listening, workerVars, holder,
                 handlerVars, signalVars>>

(* What run does when it does not get as far as the loop: it returns -1, which  *)
(* main ignores, or an exception ends the process.                              *)
GiveUp(result) ==
  /\ main' = IF result = "throws" THEN "terminated" ELSE "ended"
  /\ UNCHANGED <<isRunning, gcTimer, listening, worker>>

Active == handler = "none"  \* M is not in the handler

(* Server::run up to the listener: LibhvWsListener::start.  The certificate may *)
(* be refused.  What run(false) returns is not looked at: when the address      *)
(* cannot be bound there is no W, and no error; at port 0 W has nothing to      *)
(* listen on.                                                                   *)
StartServerBeforeTls ==  \* mutant: W is started before the certificate is read
  /\ main = "armed" /\ mode = "SERVER" /\ Active
  /\ LET d == description IN
       \/ parse(d) # "SUCCESS" /\ GiveUp(parse(d))
       \/ /\ parse(d) = "SUCCESS" /\ UsesTls(d)
          /\ worker' = "loop" /\ main' = "ended"
          /\ UNCHANGED <<isRunning, gcTimer, listening>>
       \/ /\ parse(d) = "SUCCESS"
          /\ worker' = IF bindFails /\ d.port # 0 THEN "none" ELSE "loop"
          /\ listening' = IF bindFails \/ d.port = 0 THEN Nowhere ELSE OnWire(d.port)
          /\ main' = "started"
          /\ UNCHANGED <<isRunning, gcTimer>>
  /\ UNCHANGED <<configVars, wants, workerHandler, holder, handlerVars, signalVars>>

StartServer ==
  /\ main = "armed" /\ mode = "SERVER" /\ Active
  /\ LET d == description IN
       \/ parse(d) # "SUCCESS" /\ GiveUp(parse(d))
       \/ parse(d) = "SUCCESS" /\ UsesTls(d) /\ GiveUp("fails")
       \/ /\ parse(d) = "SUCCESS"
          /\ worker' = IF bindFails /\ d.port # 0 THEN "none" ELSE "loop"
          /\ listening' = IF bindFails \/ d.port = 0 THEN Nowhere ELSE OnWire(d.port)
          /\ main' = "started"
          /\ UNCHANGED <<isRunning, gcTimer>>
  /\ UNCHANGED <<configVars, wants, workerHandler, holder, handlerVars, signalVars>>

(* Client::init: parse the address, which has no scheme, and create the socket. *)
StartClient ==
  /\ main = "armed" /\ mode = "CLIENT" /\ Active
  /\ LET result == IF description.scheme = "other" THEN SplitIPAddress(description)
                   ELSE "INVALID_FORMAT" IN
       \/ result # "SUCCESS" /\ GiveUp(result)
       \/ result = "SUCCESS" /\ bindFails /\ GiveUp("fails")
       \/ /\ result = "SUCCESS" /\ ~bindFails
          /\ listening' = OnWire(description.port)
          /\ main' = "started"
          /\ UNCHANGED <<isRunning, gcTimer, worker>>
  /\ UNCHANGED <<configVars, wants, workerHandler, holder, handlerVars, signalVars>>

(* run: the timer, the flag, and a line on the console, in the sink's lock.     *)
SetRunning ==
  /\ main = "started" /\ Active /\ holder["console"] = "free"
  /\ gcTimer' = TRUE /\ isRunning' = TRUE
  /\ holder' = [holder EXCEPT !["console"] = "M"]
  /\ main' = "announcing"
  /\ UNCHANGED <<configVars, listening, workerVars, handlerVars, signalVars>>

RunLoop ==
  /\ main = "announcing" /\ Active
  /\ holder' = [holder EXCEPT !["console"] = "free"]
  /\ main' = "loop"
  /\ UNCHANGED <<configVars, isRunning, gcTimer, listening, workerVars,
                 handlerVars, signalVars>>

(* A callback of M's loop takes a lock, or logs, and goes on.                   *)
MainTakes(l) ==
  /\ main = "loop" /\ Active /\ ~loopStopped
  /\ holder[l] = "free" /\ \A k \in Lock : holder[k] # "M"
  /\ holder' = [holder EXCEPT ![l] = "M"]
  /\ UNCHANGED <<configVars, runVars, workerVars, handlerVars, signalVars>>

MainReleases ==
  /\ main = "loop" /\ Active
  /\ \E l \in Lock : holder[l] = "M" /\ holder' = [holder EXCEPT ![l] = "free"]
  /\ UNCHANGED <<configVars, runVars, workerVars, handlerVars, signalVars>>

(* The loop was stopped: run returns, main returns.                             *)
RunReturns ==
  /\ main = "loop" /\ Active /\ loopStopped /\ \A l \in Lock : holder[l] # "M"
  /\ main' = "ended"
  /\ UNCHANGED <<configVars, isRunning, gcTimer, listening, workerVars, holder,
                 handlerVars, signalVars>>

--------------------------------------------------------------------------------
(* W: its callbacks log and lock, also those that close its channels while it   *)
(* stops; one of them logs while it holds the tables (onTunnelOpen).            *)

WorkerRuns == worker \in {"loop", "stopping"} /\ ~workerHandler

WorkerWants(l) ==
  /\ WorkerRuns /\ wants = "none" /\ holder[l] # "W"
  /\ l = "tables" => holder["console"] # "W"
  /\ wants' = l
  /\ UNCHANGED <<configVars, runVars, worker, workerHandler, holder, handlerVars, signalVars>>

WorkerTakes ==
  /\ WorkerRuns /\ wants # "none" /\ holder[wants] = "free"
  /\ holder' = [holder EXCEPT ![wants] = "W"]
  /\ wants' = "none"
  /\ UNCHANGED <<configVars, runVars, worker, workerHandler, handlerVars, signalVars>>

WorkerReleases ==
  /\ WorkerRuns /\ wants = "none" /\ \E l \in Lock : holder[l] = "W"
  /\ holder' = [l \in Lock |-> IF holder[l] = "W" THEN "free" ELSE holder[l]]
  /\ UNCHANGED <<configVars, runVars, workerVars, handlerVars, signalVars>>

WorkerEnds ==
  /\ WorkerRuns /\ worker = "stopping"
  /\ wants = "none" /\ \A l \in Lock : holder[l] # "W"
  /\ worker' = "ended"
  /\ UNCHANGED <<configVars, runVars, wants, workerHandler, holder, handlerVars, signalVars>>

--------------------------------------------------------------------------------
(* SIGINT                                                                       *)

Alive == main \notin {"options", "ended", "terminated"}

SendSignal ==
  /\ Alive /\ signals < MaxSignals
  /\ signals' = signals + 1 /\ pending' = TRUE
  /\ UNCHANGED <<configVars, runVars, workerVars, holder, handlerVars>>

(* handleSystemSignal on M, which is anywhere in what it was doing.             *)
Interrupt ==
  /\ pending /\ Alive /\ handler = "none"
  /\ pending' = FALSE
  /\ handler' = "check"
  /\ interrupted' = IF \E l \in Lock : holder[l] = "M" THEN "holding" ELSE "quiet"
  /\ UNCHANGED <<configVars, runVars, workerVars, holder, loopStopped, signals>>

(* Another SIGINT while M waits for W: W gets it, finds isRunning still set,    *)
(* and waits for _shutdownMutex, which M holds.                                 *)
InterruptWorker ==
  /\ pending /\ handler \in {"stopListener", "join"} /\ WorkerRuns
  /\ pending' = FALSE
  /\ workerHandler' = TRUE
  /\ UNCHANGED <<configVars, runVars, worker, wants, holder, handlerVars, signals>>

(* shutdown: nothing, when the flag is not set (yet, or any more).              *)
Check ==
  /\ handler = "check"
  /\ handler' = IF isRunning THEN "stopListener" ELSE "none"
  /\ UNCHANGED <<configVars, runVars, workerVars, holder, interrupted, loopStopped, signalVars>>

StopListener ==
  /\ handler = "stopListener"
  /\ worker' = IF worker = "loop" THEN "stopping" ELSE worker
  /\ handler' = "join"
  /\ UNCHANGED <<configVars, runVars, wants, workerHandler, holder, interrupted,
                 loopStopped, signalVars>>

Join ==
  /\ handler = "join" /\ worker \in {"none", "ended"}
  /\ listening' = Nowhere
  /\ handler' = "killTimer"
  /\ UNCHANGED <<configVars, main, isRunning, gcTimer, workerVars, holder, interrupted,
                 loopStopped, signalVars>>

KillTimer ==
  /\ handler = "killTimer"
  /\ gcTimer' = FALSE
  /\ handler' = "sayTimer"
  /\ UNCHANGED <<configVars, main, isRunning, listening, workerVars, holder, interrupted,
                 loopStopped, signalVars>>

StopLoopNot ==  \* mutant: M's loop is left running
  /\ handler = "stopLoop"
  /\ handler' = "clear"
  /\ UNCHANGED <<configVars, runVars, workerVars, holder, interrupted, loopStopped, signalVars>>

StopLoop ==
  /\ handler = "stopLoop"
  /\ loopStopped' = TRUE
  /\ handler' = "clear"
  /\ UNCHANGED <<configVars, runVars, workerVars, holder, interrupted, signalVars>>

ClearRunning ==
  /\ handler = "clear"
  /\ isRunning' = FALSE
  /\ handler' = "sayEnd"
  /\ UNCHANGED <<configVars, main, gcTimer, listening, workerVars, holder, interrupted,
                 loopStopped, signalVars>>

(* The two lines that shutdown writes to the console, for which it waits.       *)
SayOnConsole ==
  /\ handler \in {"sayTimer", "sayEnd"} /\ holder["console"] = "free"
  /\ handler' = IF handler = "sayTimer" THEN "stopLoop" ELSE "none"
  /\ UNCHANGED <<configVars, runVars, workerVars, holder, interrupted, loopStopped, signalVars>>

shutdown == StopListener \/ Join \/ KillTimer \/ StopLoop \/ ClearRunning \/ SayOnConsole

Next ==
  \/ Configure \/ StartServer \/ StartClient \/ SetRunning \/ RunLoop
  \/ \E l \in Lock : MainTakes(l) \/ WorkerWants(l)
  \/ MainReleases \/ RunReturns
  \/ WorkerTakes \/ WorkerReleases \/ WorkerEnds
  \/ SendSignal \/ Interrupt \/ InterruptWorker \/ Check \/ shutdown

Spec == Init /\ [][Next]_vars

(* Threads run: a started callback or handler goes on, a stopped loop ends, a   *)
(* free lock is obtained in the end.  Nobody has to send a signal.              *)
Fairness ==
  /\ WF_vars(Interrupt) /\ WF_vars(Check) /\ WF_vars(StopListener) /\ WF_vars(Join)
  /\ WF_vars(KillTimer) /\ WF_vars(StopLoop) /\ WF_vars(ClearRunning)
  /\ SF_vars(SayOnConsole)
  /\ WF_vars(RunLoop) /\ WF_vars(MainReleases) /\ WF_vars(RunReturns)
  /\ SF_vars(WorkerTakes) /\ WF_vars(WorkerReleases) /\ SF_vars(WorkerEnds)

FairSpec == Spec /\ Fairness

--------------------------------------------------------------------------------
(* When main returns, and the globals are about to be destroyed, W has ended,   *)
(* nothing listens, and the collector's timer is off: after a shutdown at any   *)
(* point and after every way in which starting can fail.                        *)
EndedLeavesNothing ==
  main = "ended" =>
    /\ worker \in {"none", "ended"}
    /\ listening = Nowhere
    /\ ~gcTimer /\ ~isRunning

(* A program that says it is running listens on the port it was told, except    *)
(* for what a server does not look at: whether its address can be bound, a port *)
(* over 65535 in a file, and port 0.                                            *)
RunningListens ==
  isRunning /\ handler = "none" =>
    \/ listening = description.port
    \/ mode = "SERVER" /\ bindFails
    \/ mode = "SERVER" /\ description.port = 0
    \/ mode = "SERVER" /\ description.scheme = "file" /\ description.port > MaxPort

(* A SIGINT that comes when the flag is set and finds M without a lock ends the *)
(* process, unless another one meets W while M waits for it.  (A SIGINT that    *)
(* interrupts M in a lock that the shutdown, or W, needs hangs it; one that     *)
(* comes before the flag is set is lost.)                                       *)
QuietInterruptEnds ==
  handler = "check" /\ isRunning /\ interrupted = "quiet"
    ~> main = "ended" \/ workerHandler

================================================================================
