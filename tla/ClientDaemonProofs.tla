------------------------- MODULE ClientDaemonProofs -------------------------
(* Proofs about ClientDaemon, for any retry budget and any number of certificates. *)
EXTENDS ClientDaemon, TLAPS

\* The type TypeOK gives to poller.
Pollers == [at : {"off", "request", "backoff", "put", "sleep"},
            server : Servers, attempt : 0 .. RetryCount, got : Certs]

\* TypeOK alone is not inductive: retry.Do waits only while its budget is not used up.
BudgetLeft == poller.at = "backoff" => poller.attempt < RetryCount

(***************************************************************************)
(* The constructors of the daemon's state have their types.                *)
(***************************************************************************)
LEMMA ConstructorTypes ==
  /\ \A c, k \in Certs : Pair(c, k) \in [fullchain : Certs, key : Certs]
  /\ Zero \in [fullchain : Certs, key : Certs]
  /\ \A place \in {"off", "request", "backoff", "put", "sleep"}, s \in Servers,
        n \in 0 .. RetryCount : Polling(place, s, n) \in Pollers
  /\ Idle \in Pollers
BY ConstantsAssumption DEF Zero, Pair, Idle, Polling, Pollers, Certs, Servers

(***************************************************************************)
(* Every step of the daemon and of the servers keeps the types.            *)
(***************************************************************************)
LEMMA TypeStep == TypeOK /\ BudgetLeft /\ [Next]_vars => TypeOK'
<1> SUFFICES ASSUME TypeOK, BudgetLeft, [Next]_vars PROVE TypeOK'
  OBVIOUS
<1> USE ConstructorTypes DEF TypeOK, servers, files, saving
<1>0. "main" \in Servers /\ "standby" \in Servers /\ 0 \in 0 .. RetryCount
  BY ConstantsAssumption DEF Servers
<1>r. ASSUME NEW s \in Servers, renewed(s)
      PROVE  /\ issued' \in Certs /\ serverCert' \in [Servers -> Certs]
             /\ standby' = standby /\ subscribed' = subscribed
  BY <1>r, ConstantsAssumption DEF renewed, Certs
<1>1. ASSUME NEW s \in Servers, subscription(s) \/ renewal(s) PROVE TypeOK'
  BY <1>1, <1>r DEF subscription, renewal
<1>2. CASE httpPollingCert
  <2>t. poller \in Pollers
    BY DEF Pollers
  <2>1. SUFFICES /\ poller' \in Pollers
                 /\ issued' \in Certs /\ serverCert' \in [Servers -> Certs]
                 /\ standby' = standby /\ subscribed' = subscribed
                 /\ updateChan' \in Certs \cup {None}
    BY <1>2, <2>1
       DEF Pollers, httpPollingCert, answered, refused, failed, backoff, put, sleep, pollerStops
  <2>n. NextServer \in Pollers
    BY <1>0 DEF NextServer
  <2>2. CASE answered
    <3>1. /\ issued' \in Certs /\ serverCert' \in [Servers -> Certs]
          /\ standby' = standby /\ subscribed' = subscribed
      BY <2>2, <2>t, <1>r DEF answered, reply, Pollers
    <3>2. serverCert'[poller.server] \in Certs
      BY <3>1, <2>t DEF Pollers
    <3>3. poller' \in Pollers
      BY <2>2, <3>2, <1>0 DEF answered, Pollers
    <3> QED BY <2>2, <3>1, <3>3 DEF answered
  <2>3. CASE refused
    BY <2>3, <1>0 DEF refused
  <2>4. CASE failed
    <3>1. AfterFailure \in Pollers
      BY <2>n, <2>t DEF AfterFailure, Pollers
    <3> QED BY <2>4, <2>n, <3>1 DEF failed
  <2>5. CASE backoff
    <3>0. poller.attempt \in 0 .. RetryCount /\ poller.attempt < RetryCount
      BY <2>5, <2>t DEF BudgetLeft, Pollers, backoff
    <3>1. poller.attempt + 1 \in 0 .. RetryCount
      BY <3>0, ConstantsAssumption
    <3>2. Polling("request", poller.server, poller.attempt + 1) \in Pollers
      BY <2>5, <2>t, <3>1 DEF backoff, Pollers
    <3> QED BY <2>5, <2>n, <3>2 DEF backoff
  <2>6. CASE put
    <3>1. poller.got \in Certs
      BY <2>t DEF Pollers
    <3>2. poller' \in Pollers
      BY <2>6, <1>0 DEF put
    <3> QED BY <2>6, <3>1, <3>2 DEF put
  <2>7. CASE sleep \/ pollerStops
    BY <2>7, <1>0 DEF sleep, pollerStops
  <2> QED BY <1>2, <2>2, <2>3, <2>4, <2>5, <2>6, <2>7 DEF httpPollingCert
<1>3. CASE Watcher
  <2>1. CASE watchUpdate
    BY <2>1 DEF watchUpdate
  <2>2. CASE saveFails \/ prepare
    BY Zenon, <2>2 DEF saveFails, prepare
  <2>3. CASE renameCert \/ renameKey
    BY <2>3 DEF renameCert, renameKey
  <2>4. CASE watcherStops
    BY <2>4 DEF watcherStops
  <2> QED BY <1>3, <2>1, <2>2, <2>3, <2>4 DEF Watcher
<1>4. CASE reload
  BY <1>4 DEF reload
<1>5. CASE start
  <2>1. data' = Zero \/ (data' = Pair(certFile, keyFile) /\ certFile # None /\ keyFile # None)
    BY Zenon, <1>5 DEF start, loadSavedCert
  <2>2. CASE data' = Zero
    BY Zenon, <1>5, <1>0, <2>2 DEF start, Pollers
  <2>3. CASE data' = Pair(certFile, keyFile) /\ certFile # None /\ keyFile # None
    <3>1. certFile \in Certs /\ keyFile \in Certs
      BY Zenon, <2>3
    <3>2. data' \in [fullchain : Certs, key : Certs]
      BY Zenon, <2>3, <3>1
    <3> QED BY Zenon, <1>5, <1>0, <3>2 DEF start, Pollers
  <2> QED BY Zenon, <2>1, <2>2, <2>3
<1>6. CASE Stop
  BY <1>6 DEF Stop
<1>7. CASE HttpMain \/ crash
  BY Zenon, <1>7 DEF HttpMain, crash, gone, Pollers
<1>8. CASE UNCHANGED vars
  BY <1>8 DEF vars
<1> QED
  BY <1>1, <1>2, <1>3, <1>4, <1>5, <1>6, <1>7, <1>8 DEF Next

(***************************************************************************)
(* Every step leaves retry.Do an attempt to wait for.                      *)
(***************************************************************************)
LEMMA BudgetStep == TypeOK /\ BudgetLeft /\ [Next]_vars => BudgetLeft'
<1> SUFFICES ASSUME TypeOK, BudgetLeft, [Next]_vars PROVE BudgetLeft'
  OBVIOUS
<1> USE DEF BudgetLeft, Polling, Idle
<1>1. CASE httpPollingCert
  <2>1. CASE failed
    BY <2>1, ConstantsAssumption DEF failed, NextServer, AfterFailure, TypeOK
  <2>2. CASE ~failed
    BY <1>1, <2>2
       DEF httpPollingCert, answered, refused, backoff, NextServer, put, sleep, pollerStops
  <2> QED BY <2>1, <2>2
<1>2. CASE start \/ HttpMain \/ crash
  BY <1>2 DEF start, HttpMain, crash, gone
<1>3. CASE UNCHANGED poller
  BY <1>3
<1> QED
  BY <1>1, <1>2, <1>3
     DEF Next, vars, subscription, renewal, Watcher, watchUpdate, saveFails, prepare,
         renameCert, renameKey, watcherStops, reload, Stop

(***************************************************************************)
(* The daemon is type correct: in particular retry.Do never exceeds its    *)
(* budget of attempts.                                                     *)
(***************************************************************************)
THEOREM TypeCorrect == Spec => []TypeOK
<1>1. Init => TypeOK
  <2> SUFFICES ASSUME Init PROVE TypeOK
    OBVIOUS
  <2>1. issued \in Certs /\ serverCert \in [Servers -> Certs]
    BY ConstantsAssumption DEF Init, Certs
  <2> QED BY Zenon, <2>1, ConstructorTypes DEF Init, TypeOK, Pollers
<1>2. Init => BudgetLeft
  BY DEF Init, BudgetLeft, Idle, Polling
<1> QED BY <1>1, <1>2, TypeStep, BudgetStep, PTL DEF Spec

-----------------------------------------------------------------------------
(* Memory and files *)

\* DiskMatchesMemory with what the save under way has done so far.  Only loadSavedCert
\* brings a chain and a key into memory that may not belong together.
DiskInv ==
  /\ DiskMatchesMemory
  /\ watcher \in {"prepare", "renameCert", "renameKey", "reload"} \/ saved # "none" =>
       data.fullchain = data.key
  /\ watcher = "renameKey" => certFile = data.fullchain
  /\ watcher = "reload" =>
       saved = "ok" /\ certFile = data.fullchain /\ keyFile = data.key

(***************************************************************************)
(* Every step keeps memory and files in line.                              *)
(***************************************************************************)
LEMMA DiskStep == TypeOK /\ DiskInv /\ [Next]_vars => DiskInv'
<1> SUFFICES ASSUME TypeOK, DiskInv, [Next]_vars PROVE DiskInv'
  OBVIOUS
<1> USE DEF DiskInv, DiskMatchesMemory, files, saving
<1>1. ASSUME NEW s \in Servers, subscription(s) \/ renewal(s) PROVE DiskInv'
  BY <1>1 DEF subscription, renewal
<1>2. CASE httpPollingCert
  BY <1>2 DEF httpPollingCert, answered, refused, failed, backoff, put, sleep, pollerStops
<1>3. CASE Watcher
  <2>1. CASE watchUpdate
    BY <2>1 DEF watchUpdate, Pair
  <2>2. CASE saveFails \/ prepare
    BY <2>2 DEF saveFails, prepare
  <2>3. CASE renameCert
    BY <2>3 DEF renameCert
  <2>4. CASE renameKey
    BY <2>4 DEF renameKey
  <2>5. CASE watcherStops
    BY <2>5 DEF watcherStops
  <2> QED BY <1>3, <2>1, <2>2, <2>3, <2>4, <2>5 DEF Watcher
<1>4. CASE reload
  BY <1>4 DEF reload
<1>5. CASE start
  <2>1. data' = Zero \/ (data' = Pair(certFile, keyFile))
    BY Zenon, <1>5 DEF start, loadSavedCert
  <2> QED BY <1>5, <2>1 DEF start, Pair
<1>6. CASE Stop
  BY <1>6 DEF Stop
<1>7. CASE HttpMain \/ crash
  BY <1>7 DEF HttpMain, crash, gone
<1>8. CASE UNCHANGED vars
  BY <1>8 DEF vars
<1> QED
  BY <1>1, <1>2, <1>3, <1>4, <1>5, <1>6, <1>7, <1>8 DEF Next

(***************************************************************************)
(* DiskInv holds of every behaviour.                                       *)
(***************************************************************************)
LEMMA DiskInvariant == Spec => []DiskInv
<1>1. Init => DiskInv
  BY DEF Init, DiskInv, DiskMatchesMemory
<1> QED BY <1>1, DiskStep, TypeCorrect, PTL DEF Spec

(***************************************************************************)
(* DiskMatchesMemory: unless a save failed, what memory claims is on disk. *)
(***************************************************************************)
THEOREM MemoryOnDisk == Spec => []DiskMatchesMemory
<1>1. DiskInv => DiskMatchesMemory
  BY DEF DiskInv
<1> QED BY <1>1, DiskInvariant, PTL

\* The reload command finds a chain and a key that belong together, the ones in memory.
ReloadSeesPair ==
  watcher = "reload" =>
    certFile = keyFile /\ certFile = data.fullchain /\ keyFile = data.key

(***************************************************************************)
(* The reload command never runs over a torn pair of files, whatever the   *)
(* daemon found on disk when it started: it runs after both renames, of    *)
(* material that came in one answer.                                       *)
(***************************************************************************)
THEOREM ReloadOverMatchingFiles == Spec => []ReloadSeesPair
<1>1. DiskInv => ReloadSeesPair
  BY DEF DiskInv, ReloadSeesPair
<1> QED BY <1>1, DiskInvariant, PTL

(***************************************************************************)
(* NotOnDiskIsSaved: memory is empty or is what the files hold, so an      *)
(* update that the files do not hold differs from it.                      *)
(***************************************************************************)
THEOREM UnsavedIsSaved == Spec => NotOnDiskIsSaved
<1> DEFINE A == watchUpdate /\ updateChan # 0 /\ saved # "error"
                  /\ ~(certFile = updateChan /\ keyFile = updateChan) => watcher' = "prepare"
<1>1. TypeOK /\ DiskInv /\ [Next]_vars => [A]_vars
  <2> SUFFICES ASSUME TypeOK, DiskInv, watchUpdate, updateChan # 0, saved # "error",
                      ~(certFile = updateChan /\ keyFile = updateChan)
               PROVE  watcher' = "prepare"
    OBVIOUS
  <2>1. data = Zero \/ (data.fullchain = certFile /\ data.key = keyFile)
    BY DEF TypeOK, DiskInv, DiskMatchesMemory, watchUpdate
  <2>2. Differs(updateChan)
    BY <2>1 DEF Differs, Pair, Zero
  <2> QED BY <2>2 DEF watchUpdate
<1> QED BY <1>1, DiskInvariant, TypeCorrect, PTL DEF Spec, NotOnDiskIsSaved
=============================================================================
