------------------------------ MODULE CertEntry ------------------------------
(***************************************************************************)
(* One certEntry of the server's certificate cache and every goroutine     *)
(* that touches it: the SDS handlers that subscribe to it (Streams), the   *)
(* HTTP requests that fetch from it (Requests) and the renewal goroutines  *)
(* that subscribe spawns (Renewers).                                       *)
(*                                                                         *)
(* A step is one critical section of stateMu, or one blocking operation    *)
(* (taking renewMu, the ACME call, the hand-off to the cache file writer,  *)
(* a select).  A certificate is the number of the issuance that minted it, *)
(* 0 being the zero CertT.                                                 *)
(***************************************************************************)
EXTENDS Integers, FiniteSets

CONSTANTS
  Streams,     \* handleCert goroutines, one per certificate pack of a stream
  Requests,    \* HTTP requests being served
  Renewers,    \* renewal goroutines that may exist at one time
  MaxVersion,  \* bound: number of successful renewals
  None         \* a nil CancelFunc, or an unlocked mutex

ASSUME ConstantsAssumption ==
  /\ IsFiniteSet(Streams)
  /\ Streams \cap Requests = {}
  /\ Streams \cap Renewers = {}
  /\ Requests \cap Renewers = {}
  /\ None \notin Renewers \cup Requests
  /\ MaxVersion \in Nat

VARIABLES
  renewMu,      \* the goroutine that holds renewMu, or None
  cert,         \* the cached certificate
  valid,        \* cert.IsValid()
  version,      \* number of renewals since the process started
  updated,      \* the channel the next renewal will close
  closed,       \* the channels that have been closed
  cancelRenew,  \* the renewer whose context cancelRenew cancels, or None
  subscribing,  \* the consumer refcount
  pc,           \* where each goroutine is
  done,         \* whether each goroutine's own context is cancelled
  seen,         \* the version each stream read last
  held,         \* the certificate each stream read last
  ch,           \* the channel each stream sleeps on
  toCancel,     \* the CancelFunc release has taken and not called yet
  stopped       \* whether Stop has cancelled rootCtx

cell == <<cert, valid, version, updated, closed>>
refs == <<cancelRenew, subscribing, toCancel>>
local == <<seen, held, ch>>
vars == <<renewMu, cell, refs, pc, done, local, stopped>>

Renewing == Renewers \cup Requests
Procs == Renewing \cup Streams

StreamPC == {"idle", "subscribe", "first", "wait", "sleep", "snapshot",
             "offer", "release", "cancel"}
RenewPC == {"renew", "lock", "acme", "handoff"}

TypeOK ==
  /\ renewMu \in Renewing \cup {None}
  /\ cert \in Nat /\ valid \in BOOLEAN /\ version \in Nat
  /\ updated \in Nat /\ closed \in SUBSET Nat
  /\ cancelRenew \in Renewers \cup {None}
  /\ subscribing \in Nat
  /\ pc \in [Procs -> StreamPC \cup RenewPC \cup {"off", "timer", "serve", "shared"}]
  /\ \A s \in Streams : pc[s] \in StreamPC
  /\ \A r \in Renewers : pc[r] \in RenewPC \cup {"off", "timer"}
  /\ \A q \in Requests : pc[q] \in RenewPC \cup {"idle", "serve", "shared"}
  /\ done \in [Procs -> BOOLEAN]
  /\ seen \in [Streams -> Nat] /\ held \in [Streams -> Nat] /\ ch \in [Streams -> Nat]
  /\ toCancel \in [Streams -> Renewers \cup {None}]
  /\ stopped \in BOOLEAN

\* The cache starts empty, or with a certificate loadCertStore found valid.
Init ==
  /\ renewMu = None
  /\ \/ cert = 0 /\ valid = FALSE
     \/ cert = 1 /\ valid = TRUE
  /\ version = 0 /\ updated = 0 /\ closed = {}
  /\ cancelRenew = None /\ subscribing = 0
  /\ pc = [p \in Procs |-> IF p \in Renewers THEN "off" ELSE "idle"]
  /\ done = [p \in Procs |-> FALSE]
  /\ seen = [s \in Streams |-> 0]
  /\ held = [s \in Streams |-> 0]
  /\ ch = [s \in Streams |-> 0]
  /\ toCancel = [s \in Streams |-> None]
  /\ stopped = FALSE

\* Slip: contexts derived from context.Background().
CtxDone_NoRoot(p) == done[p]

\* ctx.Err() # nil: a stream's and a renewer's context descend from rootCtx, a
\* request's context only from its connection.
CtxDone(p) == done[p] \/ (stopped /\ p \notin Requests)

Goto(p, l) == pc' = [pc EXCEPT ![p] = l]

-----------------------------------------------------------------------------
(* renew: the critical section of renewMu, entered by renewers and requests *)

\* Slip: the renewer returns on the first ACME error.
AfterError_GivesUp(p) == IF p \in Requests THEN "idle" ELSE "off"
\* Slip: a request that failed to renew goes on as if it were a renewer.
AfterError_Loops(p) == IF CtxDone(p) THEN "off" ELSE "timer"

\* Where a goroutine continues when renew returns an error, or nil.
AfterError(p) ==
  IF p \in Requests THEN "idle" ELSE IF CtxDone(p) THEN "off" ELSE "timer"
AfterRenew(p) == IF p \in Requests THEN "serve" ELSE "timer"

renewStart(p) ==
  /\ pc[p] = "renew"
  /\ Goto(p, IF CtxDone(p) THEN AfterError(p) ELSE "lock")
  /\ UNCHANGED <<renewMu, cell, refs, done, local, stopped>>

\* Slip: the cached certificate is not looked at again under renewMu.
renewCheck_NoRecheck(p) ==
  /\ pc[p] = "lock" /\ renewMu = None
  /\ renewMu' = p
  /\ Goto(p, "acme")
  /\ UNCHANGED <<cell, refs, done, local, stopped>>

\* Takes renewMu and looks at the cached certificate again: a valid one is left
\* alone, and the mutex is free again.
renewCheck(p) ==
  /\ pc[p] = "lock"
  /\ renewMu = None
  /\ \/ /\ valid
        /\ Goto(p, AfterRenew(p))
        /\ UNCHANGED renewMu
     \/ /\ ~valid
        /\ renewMu' = p
        /\ Goto(p, "acme")
  /\ UNCHANGED <<cell, refs, done, local, stopped>>

obtainFails(p) ==
  /\ pc[p] = "acme"
  /\ renewMu' = None
  /\ Goto(p, AfterError(p))
  /\ UNCHANGED <<cell, refs, done, local, stopped>>

\* Slips: the channel is replaced before it is closed; it is not closed; renewMu
\* is given up before the hand-off.
renewPublish_Slip(p, closes, mu) ==
  /\ pc[p] = "acme" /\ version < MaxVersion
  /\ cert' = cert + 1 /\ valid' = TRUE /\ version' = version + 1
  /\ closed' = closed \cup closes /\ updated' = updated + 1
  /\ Goto(p, "handoff")
  /\ renewMu' = mu
  /\ UNCHANGED <<refs, done, local, stopped>>
renewPublish_ClosesNew(p) == renewPublish_Slip(p, {updated + 1}, renewMu)
renewPublish_NoClose(p) == renewPublish_Slip(p, {}, renewMu)
renewPublish_EarlyUnlock(p) == renewPublish_Slip(p, {updated}, None)

\* Obtain returns; one stateMu section swaps in the certificate, counts the
\* version, closes the channel and replaces it.
renewPublish(p) ==
  /\ pc[p] = "acme"
  /\ version < MaxVersion
  /\ cert' = cert + 1
  /\ valid' = TRUE
  /\ version' = version + 1
  /\ closed' = closed \cup {updated}
  /\ updated' = updated + 1
  /\ Goto(p, "handoff")
  /\ UNCHANGED <<renewMu, refs, done, local, stopped>>

\* The select that sends to certStore.update or gives up when ctx is done, and
\* the deferred unlock.  CertStore models what becomes of the certificate.
handOff(p) ==
  /\ pc[p] = "handoff"
  /\ renewMu' = None
  /\ Goto(p, AfterRenew(p))
  /\ UNCHANGED <<cell, refs, done, local, stopped>>

renew(p) ==
  renewStart(p) \/ renewCheck(p) \/ obtainFails(p) \/ renewPublish(p) \/ handOff(p)

\* The renewer's timer fires, or its context is done and it returns.
renewTimer(r) ==
  /\ pc[r] = "timer"
  /\ \/ Goto(r, "renew")
     \/ CtxDone(r) /\ Goto(r, "off")
  /\ UNCHANGED <<renewMu, cell, refs, done, local, stopped>>

-----------------------------------------------------------------------------
(* handleCert of the SDS server, as far as it touches the entry *)

\* StreamSecrets starts a handler for a pack of a stream whose context is live.
dispatch(s) ==
  /\ pc[s] = "idle" /\ ~stopped
  /\ Goto(s, "subscribe")
  /\ UNCHANGED <<renewMu, cell, refs, done, local, stopped>>

\* The first subscriber stores a new context's cancel and spawns a renewer.
subscribe(s) ==
  /\ pc[s] = "subscribe"
  /\ subscribing' = subscribing + 1
  /\ \/ /\ subscribing = 0
        /\ \E r \in Renewers :
             /\ pc[r] = "off" /\ \A t \in Streams : toCancel[t] # r
             /\ cancelRenew' = r
             /\ pc' = [pc EXCEPT ![s] = "first", ![r] = "renew"]
             /\ done' = [done EXCEPT ![r] = FALSE]
     \/ /\ subscribing > 0
        /\ Goto(s, "first")
        /\ UNCHANGED <<cancelRenew, done>>
  /\ UNCHANGED <<renewMu, cell, toCancel, local, stopped>>

Snapshot(s) ==
  /\ held' = [held EXCEPT ![s] = cert]
  /\ seen' = [seen EXCEPT ![s] = version]

\* Slip: handleCert does not look at IsValid before its first offer.
firstSnapshot_NoCheck(s) ==
  /\ pc[s] = "first" /\ Snapshot(s) /\ Goto(s, "offer")
  /\ UNCHANGED <<renewMu, cell, refs, done, ch, stopped>>

\* The Snapshot handleCert begins with, and IsValid on what it returned.
firstSnapshot(s) ==
  /\ pc[s] = "first"
  /\ Snapshot(s)
  /\ Goto(s, IF valid THEN "offer" ELSE "wait")
  /\ UNCHANGED <<renewMu, cell, refs, done, ch, stopped>>

nextSnapshot(s) ==
  /\ pc[s] = "snapshot"
  /\ Snapshot(s)
  /\ Goto(s, "offer")
  /\ UNCHANGED <<renewMu, cell, refs, done, ch, stopped>>

\* Slip: handleCert does not look at ctx.Err() after WaitForUpdate.
waitReturns_NoCtx(s) ==
  /\ seen' = [seen EXCEPT ![s] = version] /\ Goto(s, "snapshot")

\* WaitForUpdate returns the current version; handleCert then looks at ctx.Err().
waitReturns(s) ==
  /\ seen' = [seen EXCEPT ![s] = version]
  /\ Goto(s, IF CtxDone(s) THEN "release" ELSE "snapshot")

WaitForUpdate(s) ==
  /\ pc[s] = "wait"
  /\ \/ version # seen[s] /\ waitReturns(s) /\ UNCHANGED ch
     \/ /\ version = seen[s]
        /\ ch' = [ch EXCEPT ![s] = updated]
        /\ Goto(s, "sleep")
        /\ UNCHANGED seen
  /\ UNCHANGED <<renewMu, cell, refs, done, held, stopped>>

wake(s) ==
  /\ pc[s] = "sleep"
  /\ ch[s] \in closed \/ CtxDone(s)
  /\ waitReturns(s)
  /\ ch' = [ch EXCEPT ![s] = 0]
  /\ UNCHANGED <<renewMu, cell, refs, done, held, stopped>>

\* The certificate is sent and acknowledged, or the stream's context is done.
offer(s) ==
  /\ pc[s] = "offer"
  /\ Goto(s, "wait") \/ (CtxDone(s) /\ Goto(s, "release"))
  /\ UNCHANGED <<renewMu, cell, refs, done, local, stopped>>

\* Slip: release compares the refcount with zero before it counts down.
release_TestsFirst(s) ==
  /\ pc[s] = "release"
  /\ subscribing' = IF subscribing > 0 THEN subscribing - 1 ELSE 0
  /\ IF subscribing = 0
     THEN /\ toCancel' = [toCancel EXCEPT ![s] = cancelRenew]
          /\ cancelRenew' = None
          /\ Goto(s, IF cancelRenew = None THEN "idle" ELSE "cancel")
     ELSE Goto(s, "idle") /\ UNCHANGED <<toCancel, cancelRenew>>
  /\ seen' = [seen EXCEPT ![s] = 0] /\ held' = [held EXCEPT ![s] = 0]
  /\ done' = [done EXCEPT ![s] = FALSE]
  /\ UNCHANGED <<renewMu, cell, ch, stopped>>

\* The deferred release: the stateMu section, then the call of cancel.  The
\* handler's variables are dead.
release(s) ==
  /\ pc[s] = "release"
  /\ subscribing' = IF subscribing > 0 THEN subscribing - 1 ELSE 0
  /\ IF subscribing' = 0
     THEN /\ toCancel' = [toCancel EXCEPT ![s] = cancelRenew]
          /\ cancelRenew' = None
          /\ Goto(s, IF cancelRenew = None THEN "idle" ELSE "cancel")
     ELSE Goto(s, "idle") /\ UNCHANGED <<toCancel, cancelRenew>>
  /\ seen' = [seen EXCEPT ![s] = 0]
  /\ held' = [held EXCEPT ![s] = 0]
  /\ done' = [done EXCEPT ![s] = FALSE]
  /\ UNCHANGED <<renewMu, cell, ch, stopped>>

\* Slip: release calls the entry's CancelFunc of the moment, not the one it took.
callCancel_Current(s) ==
  /\ pc[s] = "cancel"
  /\ done' = [p \in Procs |-> IF p = cancelRenew THEN TRUE ELSE done[p]]
  /\ toCancel' = [toCancel EXCEPT ![s] = None]
  /\ Goto(s, "idle")
  /\ UNCHANGED <<renewMu, cell, cancelRenew, subscribing, local, stopped>>

callCancel(s) ==
  /\ pc[s] = "cancel"
  /\ done' = [done EXCEPT ![toCancel[s]] = TRUE]
  /\ toCancel' = [toCancel EXCEPT ![s] = None]
  /\ Goto(s, "idle")
  /\ UNCHANGED <<renewMu, cell, cancelRenew, subscribing, local, stopped>>

handleCert(s) ==
  \/ dispatch(s) \/ subscribe(s) \/ firstSnapshot(s) \/ nextSnapshot(s)
  \/ WaitForUpdate(s) \/ wake(s) \/ offer(s) \/ release(s) \/ callCancel(s)

-----------------------------------------------------------------------------
(* handleCertReq of the HTTP API, as far as it touches the entry *)

\* A request renews the entry itself only when nobody subscribes to it.
handleCertReq(q) ==
  /\ pc[q] = "idle" /\ ~stopped
  /\ Goto(q, IF subscribing = 0 THEN "renew" ELSE "shared")
  /\ done' = [done EXCEPT ![q] = FALSE]
  /\ UNCHANGED <<renewMu, cell, refs, local, stopped>>

\* The reply carries whatever Cert() returns.
reply(q) ==
  /\ pc[q] \in {"serve", "shared"}
  /\ Goto(q, "idle")
  /\ UNCHANGED <<renewMu, cell, refs, done, local, stopped>>

-----------------------------------------------------------------------------
(* The environment *)

\* time.Now() passes cert.ValidBefore.
expire ==
  /\ valid
  /\ valid' = FALSE
  /\ UNCHANGED <<renewMu, cert, version, updated, closed, refs, pc, done, local, stopped>>

\* The peer of a stream or of a request goes away (a handler that is releasing or
\* replying looks at its context no more).
disconnect(p) ==
  /\ pc[p] \notin {"idle", "release", "cancel", "serve", "shared"} /\ ~done[p]
  /\ done' = [done EXCEPT ![p] = TRUE]
  /\ UNCHANGED <<renewMu, cell, refs, pc, local, stopped>>

Stop ==
  /\ ~stopped
  /\ stopped' = TRUE
  /\ UNCHANGED <<renewMu, cell, refs, pc, done, local>>

Next ==
  \/ \E p \in Renewing : renew(p)
  \/ \E r \in Renewers : renewTimer(r)
  \/ \E s \in Streams : handleCert(s)
  \/ \E q \in Requests : handleCertReq(q) \/ reply(q)
  \/ \E p \in Streams \cup Requests : disconnect(p)
  \/ expire
  \/ Stop

Spec == Init /\ [][Next]_vars

\* The steps a goroutine takes without waiting for a peer or for a mutex.  Until
\* Stop the cache file writer makes room in its channel; after it, only the
\* context gets a goroutine out of the hand-off.
runs(p) ==
  \/ p \in Renewing /\ (renewStart(p) \/ obtainFails(p) \/ renewPublish(p))
  \/ p \in Renewing /\ (~stopped \/ CtxDone(p)) /\ handOff(p)
  \/ p \in Renewers /\ renewTimer(p)
  \/ p \in Streams /\ (pc[p] \in {"idle", "offer"} => CtxDone(p)) /\ handleCert(p)

\* The Go scheduler runs every goroutine that can run; sync.Mutex does not starve
\* a waiter; an ACME call returns, and ACME does not fail for ever.  Nothing is
\* assumed of peers: they need not connect, acknowledge or disconnect.
Fairness ==
  /\ \A p \in Procs : WF_vars(runs(p))
  /\ \A p \in Renewing : SF_vars(renewCheck(p))
  /\ SF_vars(\E p \in Renewing : renewPublish(p))

FairSpec == Spec /\ Fairness

-----------------------------------------------------------------------------
(* Safety *)

\* The ACME call is made only while the cached certificate is invalid, however
\* many renewers and requests found it invalid at once: renewMu and the check
\* repeated under it collapse concurrent renewals into one order.
NoRedundantObtain == \A p \in Renewing : pc[p] = "acme" => ~valid

\* A stream sleeps in WaitForUpdate on a closed channel exactly when the version
\* has moved past the one it saw: no renewal is missed between the look at the
\* version and the sleep, and none is reported twice.
MissFree ==
  \A s \in Streams : pc[s] = "sleep" => (ch[s] \in closed <=> version # seen[s])

\* Every renewal goroutine is the current one, has been cancelled, or is about
\* to be by the release that took its CancelFunc: none outlives its subscribers.
NoLeakedRenewer ==
  \A r \in Renewers :
    pc[r] # "off" /\ ~CtxDone(r) =>
      r = cancelRenew \/ \E s \in Streams : pc[s] = "cancel" /\ toCancel[s] = r

\* The streams between subscribe and the end of release's critical section.
Subscribed ==
  {s \in Streams : pc[s] \in {"first", "wait", "sleep", "snapshot", "offer", "release"}}

\* While anybody subscribes to the entry and the server runs, a renewal goroutine
\* that nobody has cancelled looks after it, also when a release and a subscribe
\* overlap and the late cancel of the old renewer comes after the new one began.
EntryTended ==
  Subscribed # {} /\ ~stopped =>
    cancelRenew # None /\ pc[cancelRenew] # "off" /\ ~done[cancelRenew]

\* Neither a stream nor a request that had to renew by itself ever hands out the
\* zero certificate of an entry that was never filled.
ServesRealCert ==
  /\ \A s \in Streams : pc[s] = "offer" => held[s] # 0
  /\ \A q \in Requests : pc[q] = "serve" => cert # 0

\* Each certificate a stream offers is strictly newer than the one it read before
\* it waited, whether it was woken by a renewal or by its context.
OffersAdvance ==
  [][\A s \in Streams :
       pc[s] = "snapshot" /\ pc'[s] = "offer" => held'[s] > held[s]]_vars

\* The renewal that is being handed to the cache file writer.
handing == IF \E p \in Renewing : pc[p] = "handoff" THEN cert ELSE 0

Cell == INSTANCE CertCell WITH
  cert <- cert, valid <- valid, version <- version, handing <- handing

\* The entry with all its goroutines implements the abstract cell.
ImplementsCell == Cell!Spec

-----------------------------------------------------------------------------
(* The inductive strengthening of the safety properties, in three parts *)

\* renewMu is held from the ACME call to the end of the hand-off.
RenewInv ==
  /\ \A p \in Renewing : pc[p] \in {"acme", "handoff"} <=> renewMu = p
  /\ NoRedundantObtain
  /\ valid => cert # 0
  /\ \A p \in Renewing : pc[p] = "handoff" => cert # 0
  /\ \A q \in Requests : pc[q] = "serve" => cert # 0

\* One channel per version; what a stream holds is as far behind the cell in
\* certificates as in versions, and it has fallen behind when it left the wait.
WaitInv ==
  /\ version = updated
  /\ closed = 0 .. (updated - 1)
  /\ \A s \in Streams :
       /\ pc[s] \in {"offer", "wait", "sleep"} =>
            seen[s] <= version /\ cert + seen[s] = version + held[s]
       /\ pc[s] = "sleep" => ch[s] = seen[s]
       /\ pc[s] = "snapshot" => held[s] < cert
       /\ pc[s] = "offer" => held[s] # 0

\* The refcount counts the subscribed streams; the CancelFunc of the current
\* renewer is in the entry, those of older ones are with the releases that took
\* them, and no function is in two places.
RefInv ==
  /\ subscribing = Cardinality(Subscribed)
  /\ subscribing = 0 <=> cancelRenew = None
  /\ \A s \in Streams : pc[s] = "cancel" <=> toCancel[s] # None
  /\ cancelRenew # None =>
       /\ ~done[cancelRenew]
       /\ stopped \/ pc[cancelRenew] # "off"
       /\ \A s \in Streams : toCancel[s] # cancelRenew
  /\ NoLeakedRenewer

-----------------------------------------------------------------------------
(* Liveness, under Fairness *)

\* A stream asleep behind the current version wakes up.
SleepersWake ==
  \A s \in Streams : (pc[s] = "sleep" /\ version # seen[s]) ~> pc[s] # "sleep"

\* An entry somebody subscribes to does not stay invalid, short of Stop and of
\* the bound on renewals.
SubscribedIsRenewed ==
  (subscribing > 0 /\ ~valid) ~>
    (valid \/ subscribing = 0 \/ stopped \/ version = MaxVersion)

\* After Stop every renewer and every stream handler returns, unless a request
\* holds renewMu waiting for a writer that has gone: its context is not a child
\* of rootCtx.
StopDrains ==
  stopped ~>
    \/ /\ \A r \in Renewers : pc[r] = "off"
       /\ \A s \in Streams : pc[s] = "idle"
    \/ \E q \in Requests : pc[q] = "handoff" /\ ~done[q]
=============================================================================
