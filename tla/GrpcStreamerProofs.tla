------------------------- MODULE GrpcStreamerProofs -------------------------
(* Proofs about GrpcStreamer, for any number of goroutines and any budget. *)
EXTENDS GrpcStreamer, FiniteSetTheorems, TLAPS

(***************************************************************************)
(* Every step of the streamer keeps the types.                             *)
(***************************************************************************)
LEMMA TypeStep == TypeOK /\ [Next]_vars => TypeOK'
<1> SUFFICES ASSUME TypeOK, [Next]_vars PROVE TypeOK'
  OBVIOUS
<1> USE StreamerAssumption DEF TypeOK, Handlers, Procs, States, session, Goto, sendState
<1>1. CASE run
  <2> USE DEF receives, spawn
  <2>1. CASE onMain
    BY <2>1 DEF onMain
  <2>2. CASE onFailover
    BY ZenonT(30), <2>2 DEF onFailover
  <2>3. CASE onTryFallback
    BY <2>3 DEF onTryFallback
  <2>4. CASE onRestart
    BY <2>4 DEF onRestart
  <2>5. CASE selfSend
    BY <2>5 DEF selfSend
  <2>6. CASE onStop
    BY <2>6 DEF onStop
  <2> QED BY <1>1, <2>1, <2>2, <2>3, <2>4, <2>5, <2>6 DEF run
<1>2. CASE GRPCMain
  <2>1. CASE callerSends
    BY <2>1 DEF callerSends
  <2>2. CASE callerGoesOn
    BY <2>2 DEF callerGoesOn
  <2> QED BY <1>2, <2>1, <2>2 DEF GRPCMain
<1>3. CASE swapReceived
  BY Zenon, <1>3 DEF swapReceived
<1>4. CASE Stop
  BY <1>4 DEF Stop
<1>5. ASSUME NEW m \in Mains, handleMain(m) \/ recv(m) PROVE TypeOK'
  <2>1. CASE mainEnds(m)
    BY <2>1 DEF mainEnds, afterBudget
  <2>2. CASE mainBackoff(m)
    BY <2>2 DEF mainBackoff
  <2>3. CASE mainSends(m)
    BY <2>3 DEF mainSends
  <2>4. CASE recv(m)
    BY <2>4 DEF recv
  <2> QED BY <1>5, <2>1, <2>2, <2>3, <2>4 DEF handleMain
<1>6. ASSUME NEW f \in Failovers, handleFailover(f) PROVE TypeOK'
  <2>1. CASE failoverTop(f)
    BY <2>1 DEF failoverTop
  <2>2. CASE failoverEnds(f)
    BY <2>2 DEF failoverEnds
  <2>3. CASE failoverPause(f)
    BY <2>3 DEF failoverPause
  <2>4. CASE failoverExit(f)
    BY Zenon, <2>4 DEF failoverExit
  <2> QED BY <1>6, <2>1, <2>2, <2>3, <2>4 DEF handleFailover
<1>7. ASSUME NEW b \in Fallbacks, handleFallback(b) PROVE TypeOK'
  <2>1. CASE fallbackLoad(b)
    BY <2>1 DEF fallbackLoad
  <2>2. CASE mainRecovered(b)
    BY <2>2 DEF mainRecovered
  <2>3. CASE fallbackReset(b)
    BY <2>3 DEF fallbackReset
  <2> QED BY <1>7, <2>1, <2>2, <2>3 DEF handleFallback
<1>8. ASSUME NEW r \in Restarts, handleRestart(r) PROVE TypeOK'
  <2>1. CASE restartSleep(r)
    BY <2>1 DEF restartSleep
  <2>2. CASE restartSends(r)
    BY <2>2 DEF restartSends
  <2> QED BY <1>8, <2>1, <2>2 DEF handleRestart
<1>9. CASE UNCHANGED vars
  BY <1>9 DEF vars
<1> QED
  BY Zenon, <1>1, <1>2, <1>3, <1>4, <1>5, <1>6, <1>7, <1>8, <1>9 DEF Next

(***************************************************************************)
(* The streamer is type correct: in particular mainRetryCount never passes *)
(* the budget.                                                             *)
(***************************************************************************)
THEOREM TypeCorrect == Spec => []TypeOK
<1>1. Init => TypeOK
  <2> SUFFICES ASSUME Init PROVE TypeOK
    OBVIOUS
  <2>1. mainRetryCount \in 0 .. RetryCount
    BY StreamerAssumption DEF Init
  <2>2. /\ DOMAIN pc = Procs
        /\ pc[Dispatcher] = "select" /\ pc[Caller] = "MAIN"
        /\ \A p \in Handlers : pc[p] = "off"
    BY Zenon, StreamerAssumption DEF Init, Procs
  <2> QED BY Zenon, <2>1, <2>2 DEF Init, TypeOK, Handlers, States
<1> QED BY <1>1, TypeStep, PTL DEF Spec

-----------------------------------------------------------------------------
(* The next attempt at the main server *)

\* The inductive form of OneDriver: a handleRestart at work belongs to the current
\* session, and a handleMain says STOP only after Stop, so neither drops the attempt
\* while the session lives.
DriverInv ==
  /\ \A p, q \in Drivers : p = q
  /\ Drivers # {} => ~Pending
  /\ ~CurrentDone => Drivers # {} \/ Pending
  /\ \A r \in Restarts : pc[r] # "off" => r \in holds
  /\ \A m \in Mains : pc[m] = "STOP" => stopped

(***************************************************************************)
(* Every step of the streamer keeps the next attempt in one hand.          *)
(***************************************************************************)
LEMMA DriverStep == TypeOK /\ DriverInv /\ [Next]_vars => DriverInv'
<1> SUFFICES ASSUME TypeOK, DriverInv, [Next]_vars PROVE DriverInv'
  OBVIOUS
<1> USE StreamerAssumption
    DEF TypeOK, DriverInv, Drivers, Pending, CurrentDone, Handlers, Procs, States, session,
        Goto, sendState
<1>1. CASE run
  <2> USE DEF receives, spawn
  <2>1. CASE onMain
    BY <2>1 DEF onMain
  <2>2. CASE onFailover
    BY <2>2 DEF onFailover
  <2>3. CASE onTryFallback
    BY <2>3 DEF onTryFallback
  <2>4. CASE onRestart
    BY <2>4 DEF onRestart
  <2>5. CASE selfSend
    BY <2>5 DEF selfSend
  <2>6. CASE onStop
    BY <2>6 DEF onStop
  <2> QED BY <1>1, <2>1, <2>2, <2>3, <2>4, <2>5, <2>6 DEF run
<1>2. CASE GRPCMain
  <2>1. CASE callerSends
    BY <2>1 DEF callerSends
  <2>2. CASE callerGoesOn
    BY <2>2 DEF callerGoesOn
  <2> QED BY <1>2, <2>1, <2>2 DEF GRPCMain
<1>3. CASE swapReceived
  BY <1>3 DEF swapReceived
<1>4. CASE Stop
  BY <1>4 DEF Stop
<1>5. ASSUME NEW m \in Mains, handleMain(m) \/ recv(m) PROVE DriverInv'
  <2>1. CASE mainEnds(m)
    BY <2>1 DEF mainEnds, afterBudget
  <2>2. CASE mainBackoff(m)
    BY <2>2 DEF mainBackoff
  <2>3. CASE mainSends(m)
    BY <2>3 DEF mainSends
  <2>4. CASE recv(m)
    BY <2>4 DEF recv
  <2> QED BY Zenon, <1>5, <2>1, <2>2, <2>3, <2>4 DEF handleMain
<1>6. ASSUME NEW f \in Failovers, handleFailover(f) PROVE DriverInv'
  BY <1>6 DEF handleFailover, failoverTop, failoverEnds, failoverPause, failoverExit
<1>7. ASSUME NEW b \in Fallbacks, handleFallback(b) PROVE DriverInv'
  BY <1>7 DEF handleFallback, fallbackLoad, mainRecovered, fallbackReset
<1>8. ASSUME NEW r \in Restarts, handleRestart(r) PROVE DriverInv'
  <2>1. CASE restartSleep(r)
    BY <2>1 DEF restartSleep, SessionErr
  <2>2. CASE restartSends(r)
    BY <2>2 DEF restartSends
  <2> QED BY <1>8, <2>1, <2>2 DEF handleRestart
<1>9. CASE UNCHANGED vars
  BY <1>9 DEF vars
<1> QED
  BY <1>1, <1>2, <1>3, <1>4, <1>5, <1>6, <1>7, <1>8, <1>9 DEF Next

\* Without a standby nothing of the failover cycle exists, and nobody cancels the
\* session before Stop; STOP is sent only after it.
AloneInv ==
  /\ stateChan = "STOP" \/ pc[Caller] = "STOP" => stopped
  /\ ~standbyExists =>
       /\ \A p \in Failovers \cup Fallbacks : pc[p] = "off"
       /\ \A m \in Mains : pc[m] \notin {"FAILOVER", "TRY_FALLBACK"}
       /\ stateChan \notin {"FAILOVER", "TRY_FALLBACK"} /\ pc[Dispatcher] # "TRY_FALLBACK"
       /\ sessionDone => stopped

(***************************************************************************)
(* Every step keeps a streamer without a standby out of the failover       *)
(* cycle.                                                                  *)
(***************************************************************************)
LEMMA AloneStep == TypeOK /\ DriverInv /\ AloneInv /\ [Next]_vars => AloneInv'
<1> SUFFICES ASSUME TypeOK, DriverInv, AloneInv, [Next]_vars PROVE AloneInv'
  OBVIOUS
<1> USE StreamerAssumption
    DEF TypeOK, AloneInv, Handlers, Procs, States, session, Goto, sendState
<1>1. CASE run
  <2> USE DEF receives, spawn
  <2>1. CASE onMain
    BY <2>1 DEF onMain
  <2>2. CASE onFailover
    BY <2>2 DEF onFailover
  <2>3. CASE onTryFallback
    BY <2>3 DEF onTryFallback
  <2>4. CASE onRestart
    BY <2>4 DEF onRestart
  <2>5. CASE selfSend
    BY <2>5 DEF selfSend
  <2>6. CASE onStop
    BY <2>6 DEF onStop
  <2> QED BY <1>1, <2>1, <2>2, <2>3, <2>4, <2>5, <2>6 DEF run
<1>2. CASE GRPCMain
  BY <1>2 DEF GRPCMain, callerSends, callerGoesOn
<1>3. CASE swapReceived
  BY <1>3 DEF swapReceived
<1>4. CASE Stop
  BY <1>4 DEF Stop
<1>5. ASSUME NEW m \in Mains, handleMain(m) \/ recv(m) PROVE AloneInv'
  <2>1. CASE mainEnds(m)
    BY <2>1 DEF mainEnds, afterBudget
  <2>2. CASE mainBackoff(m)
    BY <2>2 DEF mainBackoff
  <2>3. CASE mainSends(m)
    BY <2>3 DEF mainSends, DriverInv
  <2>4. CASE recv(m)
    BY <2>4 DEF recv
  <2> QED BY <1>5, <2>1, <2>2, <2>3, <2>4 DEF handleMain
<1>6. ASSUME NEW f \in Failovers, handleFailover(f) PROVE AloneInv'
  BY <1>6 DEF handleFailover, failoverTop, failoverEnds, failoverPause, failoverExit
<1>7. ASSUME NEW b \in Fallbacks, handleFallback(b) PROVE AloneInv'
  BY <1>7 DEF handleFallback, fallbackLoad, mainRecovered, fallbackReset
<1>8. ASSUME NEW r \in Restarts, handleRestart(r) PROVE AloneInv'
  BY <1>8 DEF handleRestart, restartSleep, restartSends
<1>9. CASE UNCHANGED vars
  BY <1>9 DEF vars
<1> QED
  BY <1>1, <1>2, <1>3, <1>4, <1>5, <1>6, <1>7, <1>8, <1>9 DEF Next

(***************************************************************************)
(* A set any two members of which are the same has at most one member.     *)
(***************************************************************************)
LEMMA AtMostOne ==
  ASSUME NEW S, \A p, q \in S : p = q
  PROVE  Cardinality(S) <= 1
<1>1. CASE S = {}
  BY <1>1, FS_EmptySet
<1>2. ASSUME NEW p \in S PROVE Cardinality(S) <= 1
  <2>1. S = {p}
    OBVIOUS
  <2>2. Cardinality(S) = 1
    BY Zenon, <2>1, FS_Singleton
  <2> QED BY <2>2
<1> QED BY <1>1, <1>2

(***************************************************************************)
(* OneDriver: the next attempt at the main server is never in two hands,   *)
(* and before Stop it is in one: always when there is no standby, and      *)
(* otherwise until the session is cancelled.                               *)
(***************************************************************************)
THEOREM AttemptInOneHand == Spec => []OneDriver
<1>1. Init => DriverInv /\ AloneInv
  BY StreamerAssumption
     DEF Init, DriverInv, AloneInv, Drivers, Pending, CurrentDone, Procs, Handlers, States
<1>2. TypeOK /\ DriverInv /\ AloneInv => OneDriver
  BY Zenon, AtMostOne DEF TypeOK, DriverInv, AloneInv, OneDriver, CurrentDone
<1> QED BY <1>1, <1>2, DriverStep, AloneStep, TypeCorrect, PTL DEF Spec

-----------------------------------------------------------------------------
(* The session and the standby *)

\* There is one handleFailover at most, standbyActive is set exactly as long as there is
\* one, and FAILOVER is on its way only when it is not set.
StandbyInv ==
  /\ \A f, g \in Failovers : pc[f] # "off" /\ pc[g] # "off" => f = g
  /\ \A f \in Failovers : pc[f] # "off" => standbyActive
  /\ standbyActive => \E f \in Failovers : pc[f] # "off"
  /\ stateChan = "FAILOVER" => ~standbyActive
  /\ \A m \in Mains : pc[m] = "FAILOVER" => ~standbyActive

(***************************************************************************)
(* Every step keeps standbyActive in line with the standby goroutine.      *)
(***************************************************************************)
LEMMA StandbyStep == TypeOK /\ DriverInv /\ StandbyInv /\ [Next]_vars => StandbyInv'
<1> SUFFICES ASSUME TypeOK, DriverInv, StandbyInv, [Next]_vars PROVE StandbyInv'
  OBVIOUS
<1> USE StreamerAssumption
    DEF TypeOK, StandbyInv, Handlers, Procs, States, session, Goto, sendState
<1>1. CASE run
  <2> USE DEF receives, spawn
  <2>1. CASE onMain
    BY <2>1 DEF onMain
  <2>2. CASE onFailover
    BY <2>2 DEF onFailover, DriverInv, Drivers, Pending
  <2>3. CASE onTryFallback
    BY <2>3 DEF onTryFallback
  <2>4. CASE onRestart
    BY <2>4 DEF onRestart
  <2>5. CASE selfSend
    BY <2>5 DEF selfSend
  <2>6. CASE onStop
    BY <2>6 DEF onStop
  <2> QED BY <1>1, <2>1, <2>2, <2>3, <2>4, <2>5, <2>6 DEF run
<1>2. CASE GRPCMain
  BY <1>2 DEF GRPCMain, callerSends, callerGoesOn
<1>3. CASE swapReceived
  BY <1>3 DEF swapReceived
<1>4. CASE Stop
  BY Zenon, <1>4 DEF Stop
<1>5. ASSUME NEW m \in Mains, handleMain(m) \/ recv(m) PROVE StandbyInv'
  <2>1. CASE mainEnds(m)
    BY <2>1 DEF mainEnds, afterBudget
  <2>2. CASE mainBackoff(m)
    BY <2>2 DEF mainBackoff
  <2>3. CASE mainSends(m)
    BY <2>3 DEF mainSends
  <2>4. CASE recv(m)
    BY Zenon, <2>4 DEF recv
  <2> QED BY <1>5, <2>1, <2>2, <2>3, <2>4 DEF handleMain
<1>6. ASSUME NEW f \in Failovers, handleFailover(f) PROVE StandbyInv'
  <2>1. CASE failoverTop(f)
    BY <2>1 DEF failoverTop
  <2>2. CASE failoverEnds(f)
    BY <2>2 DEF failoverEnds
  <2>3. CASE failoverPause(f)
    BY <2>3 DEF failoverPause
  <2>4. CASE failoverExit(f)
    BY <2>4 DEF failoverExit
  <2> QED BY <1>6, <2>1, <2>2, <2>3, <2>4 DEF handleFailover
<1>7. ASSUME NEW b \in Fallbacks, handleFallback(b) PROVE StandbyInv'
  BY <1>7 DEF handleFallback, fallbackLoad, mainRecovered, fallbackReset
<1>8. ASSUME NEW r \in Restarts, handleRestart(r) PROVE StandbyInv'
  BY <1>8 DEF handleRestart, restartSleep, restartSends
<1>9. CASE UNCHANGED vars
  BY <1>9 DEF vars
<1> QED
  BY Zenon, <1>1, <1>2, <1>3, <1>4, <1>5, <1>6, <1>7, <1>8, <1>9 DEF Next

(***************************************************************************)
(* StandbyInv holds of every behaviour.                                    *)
(***************************************************************************)
LEMMA StandbyInvariant == Spec => []StandbyInv
<1>1. Init => DriverInv /\ StandbyInv
  BY StreamerAssumption
     DEF Init, DriverInv, StandbyInv, Drivers, Pending, CurrentDone, Procs, Handlers, States
<1> QED BY <1>1, DriverStep, StandbyStep, TypeCorrect, PTL DEF Spec

\* The flag handleMain looks at says whether a handleFailover exists, and there are
\* never two.
StandbyFlagExact ==
  /\ standbyActive <=> \E f \in Failovers : pc[f] # "off"
  /\ \A f, g \in Failovers : pc[f] # "off" /\ pc[g] # "off" => f = g

(***************************************************************************)
(* standbyActive, set by the dispatcher and cleared by the goroutine it    *)
(* spawned, is exact at all times: a budget used up while the standby is   *)
(* in use never starts a second one, and a flag left set never keeps the   *)
(* streamer from failing over again.                                       *)
(***************************************************************************)
THEOREM StandbyFlag == Spec => []StandbyFlagExact
<1>1. TypeOK /\ StandbyInv => StandbyFlagExact
  BY Zenon DEF TypeOK, StandbyInv, StandbyFlagExact
<1> QED BY <1>1, StandbyInvariant, TypeCorrect, PTL

\* When the dispatcher takes a state from the channel, no goroutine of the kind it is
\* about to spawn is alive.
DispatchFindsNone ==
  /\ stateChan = "MAIN" => \A m \in Mains : pc[m] = "off"
  /\ stateChan = "FAILOVER" => \A f \in Failovers : pc[f] = "off"
  /\ stateChan = "RESTART_MAIN" => \A r \in Restarts : pc[r] = "off"

(***************************************************************************)
(* Each goroutine the dispatcher spawns is the only one of its kind (the   *)
(* fallback watcher apart, whose predecessor may still have to see that    *)
(* its session is over): the goroutines of a streamer never pile up, and   *)
(* one place of each kind is enough for the model to lose no behaviour.    *)
(***************************************************************************)
THEOREM GoroutinesNeverPileUp == Spec => []DispatchFindsNone
<1>1. Init => DriverInv
  BY StreamerAssumption
     DEF Init, DriverInv, Drivers, Pending, CurrentDone, Procs, Handlers, States
<1>2. DriverInv /\ StandbyInv => DispatchFindsNone
  <2> SUFFICES ASSUME DriverInv, StandbyInv PROVE DispatchFindsNone
    OBVIOUS
  <2>1. stateChan \in {"MAIN", "RESTART_MAIN"} => Drivers = {}
    BY StreamerAssumption DEF DriverInv, Pending
  <2> QED BY <2>1 DEF StandbyInv, Drivers, DispatchFindsNone
<1> QED BY <1>1, <1>2, DriverStep, StandbyInvariant, TypeCorrect, PTL DEF Spec

(***************************************************************************)
(* SessionSwapAlone: only onFailover takes the dispatcher to TRY_FALLBACK, *)
(* and when it does, FAILOVER was in the channel and no standby goroutine  *)
(* is left.                                                                *)
(***************************************************************************)
THEOREM SwapAlone == Spec => SessionSwapAlone
<1> DEFINE Swap == pc[Dispatcher] = "select" /\ pc'[Dispatcher] = "TRY_FALLBACK" =>
                     \A f \in Failovers : pc[f] = "off"
<1>1. TypeOK /\ StandbyInv /\ [Next]_vars => [Swap]_vars
  <2> SUFFICES ASSUME TypeOK, StandbyInv, Next, pc[Dispatcher] = "select",
                      pc'[Dispatcher] = "TRY_FALLBACK"
               PROVE  \A f \in Failovers : pc[f] = "off"
    OBVIOUS
  <2> USE StreamerAssumption DEF TypeOK, Handlers, Procs, States, Goto
  <2>1. CASE run
    BY <2>1 DEF run, onMain, onFailover, onTryFallback, onRestart, selfSend, onStop,
                receives, spawn, StandbyInv
  <2>2. CASE ~run
    <3>1. pc'[Dispatcher] = pc[Dispatcher]
      BY <2>2 DEF Next, GRPCMain, callerSends, callerGoesOn, swapReceived, Stop, handleMain,
           mainEnds, mainBackoff, mainSends, recv, handleFailover, failoverTop, failoverEnds,
           failoverPause, failoverExit, handleFallback, fallbackLoad, mainRecovered,
           fallbackReset, handleRestart, restartSleep, restartSends
    <3> QED BY Zenon, <3>1
  <2> QED BY <2>1, <2>2
<1> QED
  BY <1>1, StandbyInvariant, TypeCorrect, PTL DEF Spec, SessionSwapAlone
=============================================================================
