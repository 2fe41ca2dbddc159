---------------------------- MODULE GrpcStreamer ----------------------------
(***************************************************************************)
(* grpcStreamer, the failover state machine of the gRPC client: the        *)
(* dispatch loop (run), the goroutines it spawns (handleMain,              *)
(* handleFailover, handleFallback, handleRestart), GRPCMain that starts    *)
(* and stops it, and the main client's Received channel.                   *)
(*                                                                         *)
(* A goroutine that pc shows at the name of a state is in sendState with   *)
(* it.  Durations are not modelled: a stream may end at any time, before   *)
(* or after grpcRetryWindow, and a timer may fire at any time.             *)
(***************************************************************************)
EXTENDS Naturals, FiniteSets

CONSTANTS
  Mains, Failovers, Fallbacks, Restarts,  \* handle* goroutines that may exist at a time
  Dispatcher, Caller,                     \* run, and GRPCMain itself
  RetryCount,                             \* Config.Common.RetryCount
  None                                    \* an empty stateChan

Handlers == Mains \cup Failovers \cup Fallbacks \cup Restarts
Procs == Handlers \cup {Dispatcher, Caller}

ASSUME StreamerAssumption ==
  /\ RetryCount \in Nat
  /\ IsFiniteSet(Handlers)
  /\ Mains \cap Failovers = {} /\ Mains \cap Fallbacks = {} /\ Mains \cap Restarts = {}
  /\ Failovers \cap Fallbacks = {} /\ Failovers \cap Restarts = {}
  /\ Fallbacks \cap Restarts = {}
  /\ Dispatcher \notin Handlers /\ Caller \notin Handlers /\ Dispatcher # Caller
  /\ None \notin {"STOP", "MAIN", "FAILOVER", "TRY_FALLBACK", "RESTART_MAIN"}

VARIABLES
  standbyExists,   \* whether a standby server is configured (never changes)
  stateChan,       \* the state in the channel of capacity one, or None
  mainRetryCount,
  standbyActive,
  holds,           \* the goroutines whose session is the current one (others are done)
  sessionDone,     \* whether the current session was cancelled
  inHand,          \* a message Recv returned and Received does not show yet
  pc,
  stopped          \* whether rootCtx is done

session == <<holds, sessionDone>>
vars == <<stateChan, mainRetryCount, standbyActive, session, inHand, pc, stopped, standbyExists>>

States == {"STOP", "MAIN", "FAILOVER", "TRY_FALLBACK", "RESTART_MAIN"}

TypeOK ==
  /\ standbyExists \in BOOLEAN
  /\ stateChan \in States \cup {None}
  /\ mainRetryCount \in 0 .. RetryCount /\ standbyActive \in BOOLEAN
  /\ holds \subseteq Handlers /\ sessionDone \in BOOLEAN
  /\ inHand \in BOOLEAN /\ stopped \in BOOLEAN
  /\ DOMAIN pc = Procs
  /\ pc[Dispatcher] \in {"select", "TRY_FALLBACK", "RESTART_MAIN", "off"}
  /\ pc[Caller] \in {"MAIN", "serve", "STOP", "wait", "returned"}
  /\ \A m \in Mains : pc[m] \in {"off", "stream", "backoff"} \cup States
  /\ \A f \in Failovers : pc[f] \in {"off", "top", "stream", "pause", "exit"}
  /\ \A b \in Fallbacks : pc[b] \in {"off", "load", "wait", "fired"}
  /\ \A r \in Restarts : pc[r] \in {"off", "sleep", "MAIN"}

\* newGRPCStreamer, and GRPCMain with run just spawned.
Init ==
  /\ standbyExists \in BOOLEAN
  /\ stateChan = None /\ mainRetryCount = 0 /\ standbyActive = FALSE
  /\ holds = {} /\ sessionDone = FALSE
  /\ inHand = FALSE /\ stopped = FALSE
  /\ pc = [p \in Procs |->
             IF p = Dispatcher THEN "select" ELSE IF p = Caller THEN "MAIN" ELSE "off"]

Goto(p, l) == pc' = [pc EXCEPT ![p] = l]

\* Slip: a send on stateChan that does not look at rootCtx.
sendState_Blocks(p) == stateChan = None /\ stateChan' = pc[p]

\* The select of sendState.
sendState(p) ==
  \/ stateChan = None /\ stateChan' = pc[p]
  \/ stopped /\ UNCHANGED stateChan

\* Err() of the context in s.sessionCtx, and of the session p was given.
CurrentDone == stopped \/ sessionDone
SessionErr(p) == CurrentDone \/ p \notin holds

-----------------------------------------------------------------------------
(* run *)

\* The dispatcher takes state from the channel and spawns p, at l, under the
\* current session.
receives(state) == pc[Dispatcher] = "select" /\ stateChan = state /\ stateChan' = None
spawn(p, l, next) ==
  /\ pc[p] = "off"
  /\ pc' = [pc EXCEPT ![p] = l, ![Dispatcher] = next]

onMain ==
  /\ receives("MAIN")
  /\ \E m \in Mains : spawn(m, "stream", "select")
  /\ UNCHANGED <<mainRetryCount, standbyActive, session, inHand, stopped, standbyExists>>

\* The old session is cancelled and a new one takes its place.
onFailover ==
  /\ receives("FAILOVER")
  /\ holds' = {} /\ sessionDone' = FALSE
  /\ standbyActive' = TRUE
  /\ \E f \in Failovers : spawn(f, "top", "TRY_FALLBACK")
  /\ UNCHANGED <<mainRetryCount, inHand, stopped, standbyExists>>

onTryFallback ==
  /\ receives("TRY_FALLBACK")
  /\ \E b \in Fallbacks : spawn(b, "load", "RESTART_MAIN") /\ holds' = holds \cup {b}
  /\ UNCHANGED <<mainRetryCount, standbyActive, sessionDone, inHand, stopped, standbyExists>>

onRestart ==
  /\ receives("RESTART_MAIN")
  /\ \E r \in Restarts : spawn(r, "sleep", "select") /\ holds' = holds \cup {r}
  /\ UNCHANGED <<mainRetryCount, standbyActive, sessionDone, inHand, stopped, standbyExists>>

\* The dispatcher sends itself the next state of the cycle.
selfSend ==
  /\ pc[Dispatcher] \in States
  /\ sendState(Dispatcher)
  /\ Goto(Dispatcher, "select")
  /\ UNCHANGED <<mainRetryCount, standbyActive, session, inHand, stopped, standbyExists>>

onStop ==
  /\ pc[Dispatcher] = "select"
  /\ \/ stateChan = "STOP" /\ stateChan' = None
     \/ stopped /\ UNCHANGED stateChan
  /\ sessionDone' = TRUE
  /\ Goto(Dispatcher, "off")
  /\ UNCHANGED <<mainRetryCount, standbyActive, holds, inHand, stopped, standbyExists>>

run == onMain \/ onFailover \/ onTryFallback \/ onRestart \/ selfSend \/ onStop

-----------------------------------------------------------------------------
(* handleMain, and the receiving goroutine of the main client's Stream *)

\* Slips: standbyActive is not looked at; no restart is scheduled.
afterBudget_NoFlag == IF standbyExists THEN "FAILOVER" ELSE "RESTART_MAIN"
afterBudget_Rests == IF standbyExists /\ ~standbyActive THEN "FAILOVER" ELSE "off"

afterBudget ==
  IF standbyExists /\ ~standbyActive THEN "FAILOVER" ELSE "RESTART_MAIN"

\* Slip: the counter is not reset when the budget is used up.
mainEnds_NoReset(m) ==
  /\ pc[m] = "stream" /\ ~stopped
  /\ mainRetryCount' = mainRetryCount + 1
  /\ Goto(m, IF mainRetryCount + 1 < RetryCount THEN "backoff" ELSE afterBudget)
  /\ UNCHANGED <<stateChan, standbyActive, session, inHand, stopped, standbyExists>>

\* Stream returns, and handleMain decides what comes next.
mainEnds(m) ==
  /\ pc[m] = "stream"
  /\ \/ stopped /\ Goto(m, "STOP") /\ UNCHANGED mainRetryCount
     \/ ~stopped /\ Goto(m, "MAIN") /\ mainRetryCount' = 0
     \/ /\ ~stopped /\ mainRetryCount + 1 < RetryCount
        /\ mainRetryCount' = mainRetryCount + 1
        /\ Goto(m, "backoff")
     \/ /\ ~stopped /\ mainRetryCount + 1 >= RetryCount
        /\ mainRetryCount' = 0
        /\ Goto(m, afterBudget)
  /\ UNCHANGED <<stateChan, standbyActive, session, inHand, stopped, standbyExists>>

mainBackoff(m) ==
  /\ pc[m] = "backoff"
  /\ Goto(m, "MAIN") \/ (stopped /\ Goto(m, "off"))
  /\ UNCHANGED <<stateChan, mainRetryCount, standbyActive, session, inHand, stopped, standbyExists>>

\* Slip: a return is missing after sendState.
mainSends_NoReturn(m) ==
  /\ pc[m] \in States /\ sendState(m)
  /\ Goto(m, IF pc[m] = "MAIN" THEN "backoff" ELSE "off")
  /\ UNCHANGED <<mainRetryCount, standbyActive, session, inHand, stopped, standbyExists>>

mainSends(m) ==
  /\ pc[m] \in States
  /\ sendState(m)
  /\ Goto(m, "off")
  /\ UNCHANGED <<mainRetryCount, standbyActive, session, inHand, stopped, standbyExists>>

\* stream.Recv returns a message.
recv(m) ==
  /\ pc[m] = "stream" /\ ~inHand
  /\ inHand' = TRUE
  /\ UNCHANGED <<stateChan, mainRetryCount, standbyActive, session, pc, stopped, standbyExists>>

\* Received is swapped and the old channel closed, perhaps after Stream returned.
swapReceived ==
  /\ inHand
  /\ inHand' = FALSE
  /\ pc' = [p \in Procs |-> IF p \in Fallbacks /\ pc[p] = "wait" THEN "fired" ELSE pc[p]]
  /\ UNCHANGED <<stateChan, mainRetryCount, standbyActive, session, stopped, standbyExists>>

handleMain(m) == mainEnds(m) \/ mainBackoff(m) \/ mainSends(m)

-----------------------------------------------------------------------------
(* handleFailover; it reads s.sessionCtx anew each time *)

failoverTop(f) ==
  /\ pc[f] = "top"
  /\ Goto(f, IF CurrentDone THEN "exit" ELSE "stream")
  /\ holds' = holds \cup {f}
  /\ UNCHANGED <<stateChan, mainRetryCount, standbyActive, sessionDone, inHand, stopped, standbyExists>>

\* The standby's Stream returns: the session is over, the stream was long-lived,
\* or a pause follows (grpcRetryBackoff or ReconnectDuration, by standbyRetryCount).
failoverEnds(f) ==
  /\ pc[f] = "stream"
  /\ \/ CurrentDone /\ Goto(f, "exit")
     \/ ~CurrentDone /\ \E l \in {"top", "pause"} : Goto(f, l)
  /\ UNCHANGED <<stateChan, mainRetryCount, standbyActive, session, inHand, stopped, standbyExists>>

failoverPause(f) ==
  /\ pc[f] = "pause"
  /\ Goto(f, "top") \/ (CurrentDone /\ Goto(f, "exit"))
  /\ UNCHANGED <<stateChan, mainRetryCount, standbyActive, session, inHand, stopped, standbyExists>>

\* The deferred function, after its wg.Done.
failoverExit(f) ==
  /\ pc[f] = "exit"
  /\ standbyActive' = FALSE
  /\ Goto(f, "off")
  /\ UNCHANGED <<stateChan, mainRetryCount, session, inHand, stopped, standbyExists>>

handleFailover(f) ==
  failoverTop(f) \/ failoverEnds(f) \/ failoverPause(f) \/ failoverExit(f)

-----------------------------------------------------------------------------
(* handleFallback and handleRestart *)

\* Received.Load(), then the select.
fallbackLoad(b) ==
  /\ pc[b] = "load"
  /\ Goto(b, "wait")
  /\ UNCHANGED <<stateChan, mainRetryCount, standbyActive, session, inHand, stopped, standbyExists>>

\* Slip: the standby is killed but its session goes on.
mainRecovered_KillsOnly(b) ==
  /\ pc[b] = "fired" /\ Goto(b, "off")
  /\ UNCHANGED <<stateChan, mainRetryCount, standbyActive, session, inHand, stopped, standbyExists>>

\* Kill ends the standby's current stream, if there is one (a stream may end at any
\* time anyway); sessionCancel cancels the session the goroutine was given.
mainRecovered(b) ==
  /\ pc[b] = "fired"
  /\ sessionDone' = (sessionDone \/ b \in holds)
  /\ Goto(b, "off")
  /\ UNCHANGED <<stateChan, mainRetryCount, standbyActive, holds, inHand, stopped, standbyExists>>

fallbackReset(b) ==
  /\ pc[b] \in {"wait", "fired"} /\ SessionErr(b)
  /\ Goto(b, "off")
  /\ UNCHANGED <<stateChan, mainRetryCount, standbyActive, session, inHand, stopped, standbyExists>>

handleFallback(b) == fallbackLoad(b) \/ mainRecovered(b) \/ fallbackReset(b)

restartSleep(r) ==
  /\ pc[r] = "sleep"
  /\ Goto(r, "MAIN") \/ (SessionErr(r) /\ Goto(r, "off"))
  /\ UNCHANGED <<stateChan, mainRetryCount, standbyActive, session, inHand, stopped, standbyExists>>

restartSends(r) ==
  /\ pc[r] = "MAIN"
  /\ sendState(r)
  /\ Goto(r, "off")
  /\ UNCHANGED <<mainRetryCount, standbyActive, session, inHand, stopped, standbyExists>>

handleRestart(r) == restartSleep(r) \/ restartSends(r)

-----------------------------------------------------------------------------
(* GRPCMain and Stop *)

\* wg counts run and the handlers; handleFailover calls Done before it resets
\* standbyActive.
wgZero ==
  /\ pc[Dispatcher] = "off"
  /\ \A p \in Handlers : pc[p] \in {"off", "exit"}

callerSends ==
  /\ pc[Caller] \in States
  /\ sendState(Caller)
  /\ Goto(Caller, IF pc[Caller] = "MAIN" THEN "serve" ELSE "wait")
  /\ UNCHANGED <<mainRetryCount, standbyActive, session, inHand, stopped, standbyExists>>

\* rootCtx is done; and wg.Wait returns.
callerGoesOn ==
  /\ \/ pc[Caller] = "serve" /\ stopped /\ Goto(Caller, "STOP")
     \/ pc[Caller] = "wait" /\ wgZero /\ Goto(Caller, "returned")
  /\ UNCHANGED <<stateChan, mainRetryCount, standbyActive, session, inHand, stopped, standbyExists>>

GRPCMain == callerSends \/ callerGoesOn

Stop ==
  /\ ~stopped
  /\ stopped' = TRUE
  /\ UNCHANGED <<stateChan, mainRetryCount, standbyActive, session, inHand, pc, standbyExists>>

Next ==
  \/ run \/ GRPCMain \/ swapReceived \/ Stop
  \/ \E m \in Mains : handleMain(m) \/ recv(m)
  \/ \E f \in Failovers : handleFailover(f)
  \/ \E b \in Fallbacks : handleFallback(b)
  \/ \E r \in Restarts : handleRestart(r)

Spec == Init /\ [][Next]_vars

\* Every goroutine that can run does, and timers fire.  Of a stream only this is
\* assumed, that Stream returns once its context is done.
FairSpec ==
  /\ Spec
  /\ WF_vars(run) /\ WF_vars(GRPCMain) /\ WF_vars(swapReceived)
  /\ \A m \in Mains :
       WF_vars((pc[m] = "stream" => stopped) /\ handleMain(m))
  /\ \A f \in Failovers :
       WF_vars((pc[f] = "stream" => SessionErr(f)) /\ handleFailover(f))
  /\ \A b \in Fallbacks : WF_vars(handleFallback(b))
  /\ \A r \in Restarts : WF_vars(handleRestart(r))

-----------------------------------------------------------------------------
(* Safety *)

\* Who may bring the machine to its next attempt at the main server.
Drivers ==
  {p \in Mains \cup Restarts : pc[p] # "off"}
    \cup {p \in {Dispatcher, Caller} : pc[p] \in States \ {"STOP"}}
Pending == stateChan \notin {None, "STOP"}

\* The next attempt is in one hand, a goroutine's or the channel's.  So there is one
\* handleMain at a time, its unsynchronised mainRetryCount has no race, and the
\* dispatcher, the only reader of stateChan, never blocks sending to itself.  And before
\* Stop it is in some hand, unless the main server has answered and the standby's
\* session is cancelled: only a handleRestart which that session resets can drop it.
OneDriver ==
  /\ Cardinality(Drivers) <= 1
  /\ Drivers # {} => ~Pending
  /\ ~stopped /\ ~(standbyExists /\ sessionDone) => Drivers # {} \/ Pending

\* The dispatcher replaces sessionCtx, and there starts a standby stream, only when
\* no handleFailover is left that reads the field or streams from the standby.
SessionSwapAlone ==
  [][pc[Dispatcher] = "select" /\ pc'[Dispatcher] = "TRY_FALLBACK" =>
       \A f \in Failovers : pc[f] = "off"]_vars

-----------------------------------------------------------------------------
(* Liveness, under FairSpec *)

\* Once the main server has answered while the standby is in use, the standby
\* goroutine ends, whether or not Kill found a stream to end.
RecoveryEndsStandby ==
  (\E b \in Fallbacks \cap holds : pc[b] = "fired") ~> ~standbyActive

\* After Stop, GRPCMain returns: no goroutine blocks on stateChan for ever.
StopReturns == stopped ~> pc[Caller] = "returned"

\* The main server is tried again and again, with a standby in use or without one: only
\* a session that was cancelled can leave it untried.
MainTriedAgain ==
  []<>(\/ standbyExists /\ CurrentDone
       \/ stopped
       \/ \E m \in Mains : pc[m] = "stream")

-----------------------------------------------------------------------------
(* What a document says, and the code does not guarantee *)

\* The main server is tried again and again ("periodically retries the main server
\* based on reconnectInterval"), whether a standby exists or not.
MainRetried == []<>(stopped \/ \E m \in Mains : pc[m] = "stream")
=============================================================================
