--------------------------- MODULE CertEntryProofs ---------------------------
(* Proofs about CertEntry, for any number of streams, requests and renewers. *)
EXTENDS CertEntry, FiniteSetTheorems, TLAPS

(***************************************************************************)
(* Every action of the entry keeps the types.                              *)
(***************************************************************************)
LEMMA TypeStep == TypeOK /\ [Next]_vars => TypeOK'
<1> SUFFICES ASSUME TypeOK, [Next]_vars PROVE TypeOK'
  OBVIOUS
<1> USE ConstantsAssumption
    DEF TypeOK, Procs, Renewing, StreamPC, RenewPC, Goto, cell, refs, local
<1>1. ASSUME NEW p \in Renewing, renew(p) PROVE TypeOK'
  <2>1. CASE renewStart(p)
    BY <2>1 DEF renewStart, AfterError
  <2>2. CASE renewCheck(p)
    BY <2>2 DEF renewCheck, AfterRenew
  <2>3. CASE obtainFails(p)
    BY <2>3 DEF obtainFails, AfterError
  <2>4. CASE renewPublish(p)
    BY <2>4 DEF renewPublish
  <2>5. CASE handOff(p)
    BY <2>5 DEF handOff, AfterRenew
  <2> QED BY <1>1, <2>1, <2>2, <2>3, <2>4, <2>5 DEF renew
<1>2. ASSUME NEW r \in Renewers, renewTimer(r) PROVE TypeOK'
  BY Zenon, <1>2 DEF renewTimer
<1>3. ASSUME NEW s \in Streams, handleCert(s) PROVE TypeOK'
  <2>1. CASE dispatch(s)
    BY <2>1 DEF dispatch
  <2>2. CASE subscribe(s)
    <3>1. CASE subscribing = 0
      <4>1. PICK r \in Renewers :
              /\ cancelRenew' = r
              /\ pc' = [pc EXCEPT ![s] = "first", ![r] = "renew"]
              /\ done' = [done EXCEPT ![r] = FALSE]
        BY <2>2, <3>1 DEF subscribe
      <4>2. r # s
        OBVIOUS
      <4> QED BY <2>2, <4>1, <4>2 DEF subscribe
    <3>2. CASE subscribing > 0
      BY <2>2, <3>2 DEF subscribe
    <3> QED BY <3>1, <3>2
  <2>3. CASE firstSnapshot(s)
    BY <2>3 DEF firstSnapshot, Snapshot
  <2>4. CASE nextSnapshot(s)
    BY <2>4 DEF nextSnapshot, Snapshot
  <2>5. CASE WaitForUpdate(s)
    BY <2>5 DEF WaitForUpdate, waitReturns
  <2>6. CASE wake(s)
    BY <2>6 DEF wake, waitReturns
  <2>7. CASE offer(s)
    BY <2>7 DEF offer
  <2>8. CASE release(s)
    BY <2>8 DEF release
  <2>9. CASE callCancel(s)
    BY Zenon, <2>9 DEF callCancel
  <2> QED BY Zenon, <1>3, <2>1, <2>2, <2>3, <2>4, <2>5, <2>6, <2>7, <2>8, <2>9 DEF handleCert
<1>4. ASSUME NEW q \in Requests, handleCertReq(q) \/ reply(q) PROVE TypeOK'
  <2>1. CASE handleCertReq(q)
    BY <2>1 DEF handleCertReq
  <2>2. CASE reply(q)
    BY <2>2 DEF reply
  <2> QED BY <1>4, <2>1, <2>2
<1>5. ASSUME NEW p \in Streams \cup Requests, disconnect(p) PROVE TypeOK'
  BY <1>5 DEF disconnect
<1>6. CASE expire
  BY Zenon, <1>6 DEF expire
<1>7. CASE Stop
  BY <1>7 DEF Stop
<1>8. CASE UNCHANGED vars
  BY <1>8 DEF vars
<1> QED
  BY <1>1, <1>2, <1>3, <1>4, <1>5, <1>6, <1>7, <1>8 DEF Next

(***************************************************************************)
(* The entry's fields and the goroutines' variables keep their types.      *)
(***************************************************************************)
THEOREM TypeCorrect == Spec => []TypeOK
<1>1. ASSUME Init PROVE TypeOK
  <2>1. /\ cert \in Nat /\ version \in Nat /\ updated \in Nat /\ subscribing \in Nat
        /\ closed \in SUBSET Nat
        /\ renewMu \in Renewing \cup {None} /\ cancelRenew \in Renewers \cup {None}
    BY <1>1 DEF Init
  <2>2. valid \in BOOLEAN /\ stopped \in BOOLEAN
    BY Zenon, <1>1 DEF Init
  <2>3. pc \in [Procs -> {"off", "idle"}]
    BY <1>1 DEF Init
  <2>4. /\ \A p \in Streams \cup Requests : pc[p] = "idle"
        /\ \A r \in Renewers : pc[r] = "off"
    BY <1>1, ConstantsAssumption DEF Init, Procs, Renewing
  <2>5. /\ done \in [Procs -> BOOLEAN]
        /\ seen \in [Streams -> Nat] /\ held \in [Streams -> Nat] /\ ch \in [Streams -> Nat]
        /\ toCancel \in [Streams -> Renewers \cup {None}]
    BY Zenon, <1>1 DEF Init
  <2> QED BY <2>1, <2>2, <2>3, <2>4, <2>5 DEF TypeOK, StreamPC, RenewPC
<1> QED
  BY <1>1, TypeStep, PTL DEF Spec

-----------------------------------------------------------------------------
(* The renewal section: mutual exclusion and no redundant order *)

\* renewMu is owned exactly from the ACME call to the end of the hand-off, and the
\* certificate is invalid during the call: every action keeps that.
LEMMA RenewStep == TypeOK /\ RenewInv /\ [Next]_vars => RenewInv'
<1> SUFFICES ASSUME TypeOK, RenewInv, [Next]_vars PROVE RenewInv'
  OBVIOUS
<1> USE ConstantsAssumption
    DEF TypeOK, RenewInv, NoRedundantObtain, Procs, Renewing, Goto, cell, refs, local
<1>1. ASSUME NEW p \in Renewing, renew(p) PROVE RenewInv'
  <2>1. CASE renewStart(p)
    BY <2>1 DEF renewStart, AfterError
  <2>2. CASE renewCheck(p)
    <3>1. CASE valid
      BY <2>2, <3>1 DEF renewCheck, AfterRenew
    <3>2. CASE ~valid
      BY <2>2, <3>2 DEF renewCheck
    <3> QED BY <3>1, <3>2
  <2>3. CASE obtainFails(p)
    BY <2>3 DEF obtainFails, AfterError
  <2>4. CASE renewPublish(p)
    BY <2>4 DEF renewPublish
  <2>5. CASE handOff(p)
    BY <2>5 DEF handOff, AfterRenew
  <2> QED BY <1>1, <2>1, <2>2, <2>3, <2>4, <2>5 DEF renew
<1>2. ASSUME NEW r \in Renewers, renewTimer(r) PROVE RenewInv'
  BY <1>2 DEF renewTimer
<1>3. ASSUME NEW s \in Streams, handleCert(s) PROVE RenewInv'
  <2>1. /\ UNCHANGED <<renewMu, cert, valid>>
        /\ \A p \in Renewing : pc[p] # "off" => pc'[p] = pc[p]
        /\ \A p \in Renewing : pc[p] = "off" => pc'[p] \in {"off", "renew"}
    <3>1. CASE subscribe(s)
      <4>1. CASE subscribing = 0
        <5>1. PICK r \in Renewers :
                pc[r] = "off" /\ pc' = [pc EXCEPT ![s] = "first", ![r] = "renew"]
          BY <3>1, <4>1 DEF subscribe
        <5> QED BY <3>1, <5>1 DEF subscribe
      <4>2. CASE subscribing > 0
        BY <3>1, <4>2 DEF subscribe
      <4> QED BY <4>1, <4>2
    <3>2. CASE dispatch(s) \/ firstSnapshot(s) \/ nextSnapshot(s) \/ offer(s)
      BY <3>2 DEF dispatch, firstSnapshot, nextSnapshot, offer
    <3>3. CASE WaitForUpdate(s) \/ wake(s)
      BY <3>3 DEF WaitForUpdate, wake, waitReturns
    <3>4. CASE release(s) \/ callCancel(s)
      BY <3>4 DEF release, callCancel
    <3> QED BY <1>3, <3>1, <3>2, <3>3, <3>4 DEF handleCert
  <2> QED BY Zenon, <2>1
<1>4. ASSUME NEW q \in Requests, handleCertReq(q) \/ reply(q) PROVE RenewInv'
  <2>1. CASE handleCertReq(q)
    BY <2>1 DEF handleCertReq
  <2>2. CASE reply(q)
    BY <2>2 DEF reply
  <2> QED BY <1>4, <2>1, <2>2
<1>5. ASSUME NEW p \in Streams \cup Requests, disconnect(p) PROVE RenewInv'
  BY <1>5 DEF disconnect
<1>6. CASE expire
  BY <1>6 DEF expire
<1>7. CASE Stop
  BY <1>7 DEF Stop
<1>8. CASE UNCHANGED vars
  BY <1>8 DEF vars
<1> QED
  BY <1>1, <1>2, <1>3, <1>4, <1>5, <1>6, <1>7, <1>8 DEF Next

(***************************************************************************)
(* renewMu and the check repeated under it are enough: no goroutine orders *)
(* a certificate while a valid one is cached.                              *)
(***************************************************************************)
THEOREM RenewCorrect == Spec => [](RenewInv /\ NoRedundantObtain)
<1>1. Init => RenewInv
  BY ConstantsAssumption
  DEF Init, RenewInv, NoRedundantObtain, Procs, Renewing
<1>2. RenewInv => NoRedundantObtain
  BY DEF RenewInv
<1> QED
  BY <1>1, <1>2, RenewStep, TypeCorrect, PTL DEF Spec

-----------------------------------------------------------------------------
(* The broadcast: no renewal is missed and every offer is newer *)

\* No step of a goroutine that renews, of a request or of the environment other
\* than the publication of a renewal touches what WaitInv speaks of.
LEMMA WaitFrame ==
  ASSUME TypeOK, WaitInv,
         UNCHANGED <<cert, version, updated, closed, seen, held, ch>>,
         \A s \in Streams : pc'[s] = pc[s]
  PROVE  WaitInv'
BY Zenon DEF WaitInv, TypeOK

\* Every action keeps the relation between versions, channels and what streams
\* hold; only publishing a renewal and the streams' own steps touch it.
LEMMA WaitStep == TypeOK /\ RenewInv /\ WaitInv /\ [Next]_vars => WaitInv'
<1> SUFFICES ASSUME TypeOK, RenewInv, WaitInv, [Next]_vars PROVE WaitInv'
  OBVIOUS
<1> USE ConstantsAssumption
    DEF TypeOK, Procs, Renewing, Goto, cell, refs, local
<1>1. ASSUME NEW p \in Renewing, renew(p) PROVE WaitInv'
  <2>1. CASE renewPublish(p)
    <3>1. \A s \in Streams : pc'[s] = pc[s]
      BY <2>1 DEF renewPublish
    <3>2. version' = updated' /\ closed' = 0 .. (updated' - 1)
      BY <2>1 DEF renewPublish, WaitInv
    <3> QED BY <2>1, <3>1, <3>2 DEF renewPublish, WaitInv
  <2>2. CASE renewStart(p) \/ obtainFails(p) \/ handOff(p)
    BY <2>2, WaitFrame DEF renewStart, obtainFails, handOff
  <2>3. CASE renewCheck(p)
    BY <2>3, WaitFrame DEF renewCheck
  <2> QED BY <1>1, <2>1, <2>2, <2>3 DEF renew
<1>2. ASSUME NEW r \in Renewers, renewTimer(r) PROVE WaitInv'
  BY <1>2, WaitFrame DEF renewTimer
<1>3. ASSUME NEW s \in Streams, handleCert(s) PROVE WaitInv'
  <2>1. CASE subscribe(s)
    <3>1. /\ \A t \in Streams \ {s} : pc'[t] = pc[t]
          /\ pc'[s] = "first"
      <4>1. CASE subscribing = 0
        <5>1. PICK r \in Renewers : pc' = [pc EXCEPT ![s] = "first", ![r] = "renew"]
          BY <2>1, <4>1 DEF subscribe
        <5> QED BY <5>1
      <4>2. CASE subscribing > 0
        BY <2>1, <4>2 DEF subscribe
      <4> QED BY <4>1, <4>2
    <3> QED BY <2>1, <3>1 DEF subscribe, WaitInv
  <2>2. CASE dispatch(s)
    BY <2>2 DEF dispatch, WaitInv
  <2>3. CASE firstSnapshot(s)
    BY <2>3 DEF firstSnapshot, Snapshot, WaitInv, RenewInv
  <2>4. CASE nextSnapshot(s)
    BY <2>4 DEF nextSnapshot, Snapshot, WaitInv
  <2>5. CASE WaitForUpdate(s)
    <3>1. CASE version # seen[s]
      BY <2>5, <3>1 DEF WaitForUpdate, waitReturns, WaitInv
    <3>2. CASE version = seen[s]
      BY Zenon, <2>5, <3>2 DEF WaitForUpdate, WaitInv
    <3> QED BY <3>1, <3>2
  <2>6. CASE wake(s)
    <3>1. CASE CtxDone(s)
      BY <2>6, <3>1 DEF wake, waitReturns, WaitInv
    <3>2. CASE ~CtxDone(s)
      <4>1. ch[s] \in closed
        BY <2>6, <3>2 DEF wake
      <4>2. held[s] < cert
        BY <2>6, <4>1 DEF wake, WaitInv
      <4> QED BY <2>6, <3>2, <4>2 DEF wake, waitReturns, WaitInv
    <3> QED BY <3>1, <3>2
  <2>7. CASE offer(s)
    BY <2>7 DEF offer, WaitInv
  <2>8. CASE release(s)
    BY <2>8 DEF release, WaitInv
  <2>9. CASE callCancel(s)
    BY <2>9 DEF callCancel, WaitInv
  <2> QED BY Zenon, <1>3, <2>1, <2>2, <2>3, <2>4, <2>5, <2>6, <2>7, <2>8, <2>9 DEF handleCert
<1>4. ASSUME NEW q \in Requests, handleCertReq(q) \/ reply(q) PROVE WaitInv'
  BY <1>4, WaitFrame DEF handleCertReq, reply
<1>5. ASSUME NEW p \in Streams \cup Requests, disconnect(p) PROVE WaitInv'
  BY <1>5, WaitFrame DEF disconnect
<1>6. CASE expire
  BY <1>6, WaitFrame DEF expire
<1>7. CASE Stop
  BY <1>7, WaitFrame DEF Stop
<1>8. CASE UNCHANGED vars
  BY <1>8, WaitFrame DEF vars
<1> QED
  BY <1>1, <1>2, <1>3, <1>4, <1>5, <1>6, <1>7, <1>8 DEF Next

\* The relation holds from the start.
LEMMA WaitCorrect == Spec => []WaitInv
<1>1. Init => WaitInv
  BY ConstantsAssumption DEF Init, WaitInv, Procs, Renewing
<1> QED
  BY <1>1, WaitStep, TypeCorrect, RenewCorrect, PTL DEF Spec

(***************************************************************************)
(* A stream in WaitForUpdate sleeps on a closed channel exactly when the   *)
(* version has moved past the one it saw.                                  *)
(***************************************************************************)
THEOREM BroadcastIsMissFree == Spec => []MissFree
<1>1. TypeOK /\ WaitInv => MissFree
  BY DEF TypeOK, WaitInv, MissFree
<1> QED
  BY <1>1, TypeCorrect, WaitCorrect, PTL

(***************************************************************************)
(* Nobody is given the zero certificate of an entry that was never filled, *)
(* except over HTTP while somebody else subscribes to the entry.           *)
(***************************************************************************)
THEOREM RealCertServed == Spec => []ServesRealCert
<1>1. RenewInv /\ WaitInv => ServesRealCert
  BY DEF RenewInv, WaitInv, ServesRealCert
<1> QED
  BY <1>1, RenewCorrect, WaitCorrect, PTL

(***************************************************************************)
(* Each certificate a stream offers is newer than the one it read before.  *)
(***************************************************************************)
THEOREM EveryOfferAdvances == Spec => OffersAdvance
<1>1. TypeOK /\ WaitInv /\ [Next]_vars =>
        [\A s \in Streams :
           pc[s] = "snapshot" /\ pc'[s] = "offer" => held'[s] > held[s]]_vars
  <2> SUFFICES ASSUME TypeOK, WaitInv, [Next]_vars,
                      NEW s \in Streams, pc[s] = "snapshot", pc'[s] = "offer"
               PROVE  held'[s] > held[s]
    OBVIOUS
  <2>1. nextSnapshot(s)
    <3> USE ConstantsAssumption
        DEF TypeOK, Procs, Renewing, Goto, RenewPC
    <3>1. ASSUME NEW p \in Renewing, renew(p) PROVE FALSE
      BY <3>1 DEF renew, renewStart, renewCheck, obtainFails, renewPublish, handOff
    <3>2. ASSUME NEW r \in Renewers, renewTimer(r) PROVE FALSE
      BY Zenon, <3>2 DEF renewTimer
    <3>3. ASSUME NEW t \in Streams, t # s, handleCert(t) PROVE FALSE
      BY <3>3 DEF handleCert, dispatch, subscribe, firstSnapshot, nextSnapshot,
         WaitForUpdate, wake, waitReturns, offer, release, callCancel
    <3>4. ASSUME NEW q \in Requests, handleCertReq(q) \/ reply(q) PROVE FALSE
      BY <3>4 DEF handleCertReq, reply
    <3>5. ASSUME NEW p \in Streams \cup Requests, disconnect(p) PROVE FALSE
      BY <3>5 DEF disconnect
    <3>6. ~expire /\ ~Stop /\ ~UNCHANGED vars
      BY DEF expire, Stop, vars
    <3>7. handleCert(s)
      BY Zenon, <3>1, <3>2, <3>3, <3>4, <3>5, <3>6 DEF Next
    <3> QED
      BY Zenon, <3>7 DEF handleCert, dispatch, subscribe, firstSnapshot,
         WaitForUpdate, wake, offer, release, callCancel
  <2> QED
    BY <2>1 DEF nextSnapshot, Snapshot, WaitInv, TypeOK
<1> QED
  BY <1>1, TypeCorrect, WaitCorrect, PTL DEF Spec, OffersAdvance

-----------------------------------------------------------------------------
(* The refcount and the renewers' contexts *)

\* A step that moves no stream, cancels nobody, and neither starts nor ends a
\* renewer whose context is live keeps RefInv.
LEMMA RefFrame ==
  ASSUME TypeOK, TypeOK', RefInv,
         UNCHANGED <<cancelRenew, subscribing, toCancel>>,
         stopped => stopped',
         \A s \in Streams : pc'[s] = pc[s],
         \A r \in Renewers :
           /\ done'[r] = done[r]
           /\ pc'[r] = "off" => pc[r] = "off" \/ CtxDone(r)
           /\ pc[r] = "off" => pc'[r] = "off"
  PROVE  RefInv'
<1>1. Subscribed' = Subscribed
  BY DEF Subscribed
<1>2. cancelRenew # None => cancelRenew \in Renewers
  BY DEF TypeOK
<1>3. NoLeakedRenewer'
  BY ConstantsAssumption DEF RefInv, NoLeakedRenewer, CtxDone, TypeOK
<1>4. cancelRenew # None => stopped' \/ pc'[cancelRenew] # "off"
  BY <1>2, ConstantsAssumption DEF RefInv, CtxDone
<1> QED BY <1>1, <1>2, <1>3, <1>4 DEF RefInv

\* So does a step of one stream that neither subscribes nor releases.
LEMMA RefFrameStream ==
  ASSUME TypeOK, TypeOK', RefInv,
         UNCHANGED <<cancelRenew, subscribing, toCancel, stopped>>,
         NEW s \in Streams,
         pc[s] # "cancel", pc'[s] # "cancel",
         s \in Subscribed <=> pc'[s] \in {"first", "wait", "sleep", "snapshot",
                                         "offer", "release"},
         \A p \in Procs \ {s} : pc'[p] = pc[p],
         \A r \in Renewers : done'[r] = done[r]
  PROVE  RefInv'
<1>1. Subscribed' = Subscribed
  BY DEF Subscribed, Procs
<1>2. \A r \in Renewers : pc'[r] = pc[r]
  BY ConstantsAssumption DEF Procs, Renewing
<1>3. cancelRenew # None => cancelRenew \in Renewers
  BY DEF TypeOK
<1>4. \A t \in Streams : pc'[t] = "cancel" <=> pc[t] = "cancel"
  BY Zenon DEF Procs
<1>5. NoLeakedRenewer'
  BY <1>2, <1>4, ConstantsAssumption DEF RefInv, NoLeakedRenewer, CtxDone
<1> QED BY <1>1, <1>2, <1>3, <1>4, <1>5 DEF RefInv

\* There are finitely many streams, so the subscribed ones can be counted.
LEMMA SubscribedFinite == IsFiniteSet(Subscribed)
BY ConstantsAssumption, FS_Subset DEF Subscribed

\* subscribe adds its stream to the count and, when it is the first, stores the
\* CancelFunc of the renewer it spawns.
LEMMA RefSubscribe ==
  ASSUME TypeOK, TypeOK', RefInv, NEW s \in Streams, subscribe(s)
  PROVE  RefInv'
<1> USE ConstantsAssumption DEF Procs, Renewing
<1>1. /\ \A t \in Streams \ {s} : pc'[t] = pc[t]
      /\ pc[s] = "subscribe" /\ pc'[s] = "first"
  <2>1. CASE subscribing = 0
    <3>1. PICK r \in Renewers : pc' = [pc EXCEPT ![s] = "first", ![r] = "renew"]
      BY <2>1 DEF subscribe
    <3> QED BY <3>1 DEF TypeOK, subscribe
  <2>2. CASE subscribing > 0
    BY <2>2 DEF subscribe, Goto, TypeOK
  <2> QED BY <2>1, <2>2 DEF TypeOK
<1>2. Subscribed' = Subscribed \cup {s} /\ s \notin Subscribed
  BY <1>1 DEF Subscribed
<1>3. subscribing' = Cardinality(Subscribed')
  BY Zenon, <1>2, SubscribedFinite, FS_AddElement DEF RefInv, subscribe
<1>4. \A t \in Streams : pc'[t] = "cancel" <=> pc[t] = "cancel"
  BY Zenon, <1>1
<1>5. /\ subscribing' # 0 /\ cancelRenew' # None
      /\ toCancel' = toCancel /\ stopped' = stopped
  BY DEF subscribe, TypeOK, RefInv
<1>6. CASE subscribing = 0
  <2>1. PICK r \in Renewers :
          /\ pc[r] = "off" /\ \A t \in Streams : toCancel[t] # r
          /\ cancelRenew' = r
          /\ pc' = [pc EXCEPT ![s] = "first", ![r] = "renew"]
          /\ done' = [done EXCEPT ![r] = FALSE]
    BY <1>6 DEF subscribe
  <2>2. /\ pc'[r] = "renew" /\ ~done'[r]
        /\ \A x \in Renewers \ {r} : pc'[x] = pc[x] /\ done'[x] = done[x]
    BY <2>1 DEF TypeOK
  <2>3. NoLeakedRenewer'
    <3> SUFFICES ASSUME NEW x \in Renewers, x # r, pc'[x] # "off", ~CtxDone(x)'
                 PROVE  \E t \in Streams : pc'[t] = "cancel" /\ toCancel'[t] = x
      BY Zenon, <2>1 DEF NoLeakedRenewer
    <3>1. pc[x] # "off" /\ ~CtxDone(x)
      BY <1>5, <2>2 DEF CtxDone
    <3>2. x # cancelRenew
      BY Zenon, <1>6 DEF RefInv
    <3> QED BY <1>4, <1>5, <3>1, <3>2 DEF RefInv, NoLeakedRenewer
  <2> QED BY Zenon, <1>3, <1>4, <1>5, <2>1, <2>2, <2>3 DEF RefInv
<1>7. CASE subscribing > 0
  <2>1. /\ \A x \in Renewers : pc'[x] = pc[x] /\ done'[x] = done[x]
        /\ cancelRenew' = cancelRenew
    <3>1. subscribing # 0
      BY <1>7 DEF TypeOK
    <3>2. Goto(s, "first") /\ UNCHANGED <<cancelRenew, done>>
      BY Zenon, <3>1 DEF subscribe
    <3>3. \A x \in Renewers : x # s
      BY Zenon, <1>1, <3>2, ConstantsAssumption
    <3> QED BY Zenon, <3>2, <3>3 DEF Goto, TypeOK
  <2>2. NoLeakedRenewer'
    BY Zenon, <1>4, <1>5, <2>1 DEF RefInv, NoLeakedRenewer, CtxDone
  <2>3. cancelRenew \in Renewers
    BY <1>5, <2>1 DEF TypeOK
  <2> QED BY Zenon, <1>3, <1>4, <1>5, <2>1, <2>2, <2>3 DEF RefInv
<1> QED BY <1>6, <1>7 DEF TypeOK

\* release takes its stream off the count and, when it is the last, takes the
\* CancelFunc out of the entry.
LEMMA RefRelease ==
  ASSUME TypeOK, TypeOK', RefInv, NEW s \in Streams, release(s)
  PROVE  RefInv'
<1> USE ConstantsAssumption DEF Procs, Renewing
<1>1. /\ \A p \in Procs \ {s} : pc'[p] = pc[p]
      /\ pc[s] = "release" /\ pc'[s] \in {"idle", "cancel"}
      /\ \A p \in Procs \ {s} : done'[p] = done[p]
      /\ stopped' = stopped
  BY DEF release, Goto, TypeOK
<1>2. Subscribed' = Subscribed \ {s} /\ s \in Subscribed
  BY <1>1 DEF Subscribed
<1>3. Cardinality(Subscribed') = Cardinality(Subscribed) - 1
  BY ZenonT(30), <1>2, SubscribedFinite, FS_RemoveElement
<1>4. subscribing # 0
  BY Zenon, <1>2, SubscribedFinite, FS_EmptySet DEF RefInv
<1>5. subscribing' = subscribing - 1 /\ subscribing' = Cardinality(Subscribed')
  BY <1>3, <1>4 DEF release, RefInv, TypeOK
<1>6. cancelRenew \in Renewers /\ toCancel[s] = None
  BY Zenon, <1>1, <1>4 DEF RefInv, TypeOK
<1>7. \A r \in Renewers : pc'[r] = pc[r] /\ done'[r] = done[r]
  BY <1>1
<1>8. CASE subscribing' = 0
  <2>1. /\ toCancel' = [toCancel EXCEPT ![s] = cancelRenew]
        /\ cancelRenew' = None /\ pc'[s] = "cancel"
    BY <1>6, <1>8 DEF release, Goto, TypeOK
  <2>2. \A t \in Streams : pc'[t] = "cancel" <=> toCancel'[t] # None
    <3>1. toCancel'[s] # None
      BY <1>6, <2>1, ConstantsAssumption DEF TypeOK
    <3>2. \A t \in Streams \ {s} : toCancel'[t] = toCancel[t] /\ pc'[t] = pc[t]
      BY Zenon, <1>1, <2>1 DEF TypeOK
    <3> QED BY Zenon, <2>1, <3>1, <3>2 DEF RefInv
  <2>3. NoLeakedRenewer'
    <3> SUFFICES ASSUME NEW r \in Renewers, pc'[r] # "off", ~CtxDone(r)'
                 PROVE  \E t \in Streams : pc'[t] = "cancel" /\ toCancel'[t] = r
      BY Zenon DEF NoLeakedRenewer
    <3>1. r = cancelRenew \/ \E t \in Streams : pc[t] = "cancel" /\ toCancel[t] = r
      BY Zenon, <1>1, <1>7 DEF RefInv, NoLeakedRenewer, CtxDone
    <3>2. CASE r = cancelRenew
      BY <2>1, <3>2 DEF TypeOK
    <3>3. CASE \E t \in Streams : pc[t] = "cancel" /\ toCancel[t] = r
      BY Zenon, <1>1, <2>1, <3>3 DEF TypeOK
    <3> QED BY Zenon, <3>1, <3>2, <3>3
  <2> QED BY Zenon, <1>5, <1>8, <2>1, <2>2, <2>3 DEF RefInv
<1>9. CASE subscribing' # 0
  <2>1. pc'[s] = "idle" /\ UNCHANGED <<toCancel, cancelRenew>>
    <3>1. Goto(s, "idle") /\ UNCHANGED <<toCancel, cancelRenew>>
      BY Zenon, <1>9 DEF release
    <3> QED BY Zenon, <3>1 DEF Goto, TypeOK
  <2>2. \A t \in Streams : pc'[t] = "cancel" <=> pc[t] = "cancel"
    BY <1>1, <2>1
  <2>3. NoLeakedRenewer'
    BY Zenon, <1>1, <1>7, <2>1, <2>2 DEF RefInv, NoLeakedRenewer, CtxDone
  <2> QED BY Zenon, <1>1, <1>5, <1>6, <1>7, <1>9, <2>1, <2>2, <2>3 DEF RefInv
<1> QED BY Zenon, <1>8, <1>9

\* The CancelFunc that release calls later is never the current renewer's.
LEMMA RefCallCancel ==
  ASSUME TypeOK, TypeOK', RefInv, NEW s \in Streams, callCancel(s)
  PROVE  RefInv'
<1> USE ConstantsAssumption DEF Procs, Renewing
<1>1. /\ \A p \in Procs \ {s} : pc'[p] = pc[p]
      /\ pc[s] = "cancel" /\ pc'[s] = "idle"
      /\ toCancel' = [toCancel EXCEPT ![s] = None]
      /\ UNCHANGED <<cancelRenew, subscribing, stopped>>
  BY Zenon DEF callCancel, Goto, TypeOK
<1>2. Subscribed' = Subscribed
  BY Zenon, <1>1 DEF Subscribed
<1>3. toCancel[s] \in Renewers
  BY <1>1 DEF RefInv, TypeOK
<1>4. \A r \in Renewers : done'[r] = IF r = toCancel[s] THEN TRUE ELSE done[r]
  BY Zenon, <1>3 DEF callCancel, TypeOK
<1>5. \A t \in Streams : pc'[t] = "cancel" <=> toCancel'[t] # None
  BY <1>1 DEF RefInv, TypeOK
<1>6. cancelRenew # None =>
        /\ ~done'[cancelRenew]
        /\ stopped \/ pc'[cancelRenew] # "off"
        /\ \A t \in Streams : toCancel'[t] # cancelRenew
  BY ZenonT(30), <1>1, <1>4 DEF RefInv, TypeOK
<1>7. NoLeakedRenewer'
  <2> SUFFICES ASSUME NEW r \in Renewers, pc'[r] # "off", ~CtxDone(r)', r # cancelRenew
               PROVE  \E t \in Streams : pc'[t] = "cancel" /\ toCancel'[t] = r
    BY <1>1 DEF NoLeakedRenewer
  <2>1. r # toCancel[s] /\ ~CtxDone(r) /\ pc[r] # "off"
    BY Zenon, <1>1, <1>4 DEF CtxDone
  <2>2. PICK t \in Streams : pc[t] = "cancel" /\ toCancel[t] = r
    BY <2>1 DEF RefInv, NoLeakedRenewer
  <2> QED BY <1>1, <2>1, <2>2 DEF TypeOK
<1> QED BY Zenon, <1>1, <1>2, <1>5, <1>6, <1>7 DEF RefInv

\* Every action keeps the refcount and the CancelFuncs in step.
LEMMA RefStep == TypeOK /\ TypeOK' /\ RefInv /\ [Next]_vars => RefInv'
<1> SUFFICES ASSUME TypeOK, TypeOK', RefInv, [Next]_vars PROVE RefInv'
  OBVIOUS
<1> USE ConstantsAssumption DEF Procs, Renewing, Goto, cell, refs, local
<1>1. ASSUME NEW p \in Renewing, renew(p) PROVE RefInv'
  <2>1. /\ UNCHANGED <<cancelRenew, subscribing, toCancel, done, stopped>>
        /\ \A x \in Procs \ {p} : pc'[x] = pc[x]
        /\ pc[p] # "off"
        /\ pc'[p] = "off" => CtxDone(p)
    <3>1. CASE renewStart(p)
      BY Zenon, <3>1 DEF renewStart, AfterError, TypeOK
    <3>2. CASE renewCheck(p)
      BY <3>2 DEF renewCheck, AfterRenew, TypeOK
    <3>3. CASE obtainFails(p)
      BY Zenon, <3>3 DEF obtainFails, AfterError, TypeOK
    <3>4. CASE renewPublish(p)
      BY <3>4 DEF renewPublish, TypeOK
    <3>5. CASE handOff(p)
      BY Zenon, <3>5 DEF handOff, AfterRenew, TypeOK
    <3> QED BY Zenon, <1>1, <3>1, <3>2, <3>3, <3>4, <3>5 DEF renew
  <2> QED BY Zenon, <2>1, RefFrame
<1>2. ASSUME NEW r \in Renewers, renewTimer(r) PROVE RefInv'
  BY <1>2, RefFrame DEF renewTimer, TypeOK
<1>3. ASSUME NEW s \in Streams, handleCert(s) PROVE RefInv'
  <2>1. CASE dispatch(s)
    BY Zenon, <2>1, RefFrameStream DEF dispatch, Subscribed, TypeOK
  <2>2. CASE firstSnapshot(s)
    BY Zenon, <2>2, RefFrameStream DEF firstSnapshot, Subscribed, TypeOK
  <2>3. CASE nextSnapshot(s)
    BY Zenon, <2>3, RefFrameStream DEF nextSnapshot, Subscribed, TypeOK
  <2>4. CASE WaitForUpdate(s)
    <3>1. PICK l \in {"release", "snapshot", "sleep"} : Goto(s, l)
      BY Zenon, <2>4 DEF WaitForUpdate, waitReturns
    <3>2. /\ pc[s] = "wait" /\ pc'[s] = l
          /\ \A p \in Procs \ {s} : pc'[p] = pc[p]
      BY Zenon, <2>4, <3>1 DEF WaitForUpdate, Goto, TypeOK
    <3>3. UNCHANGED <<cancelRenew, subscribing, toCancel, stopped, done>>
      BY Zenon, <2>4 DEF WaitForUpdate
    <3>4. /\ s \in Subscribed
          /\ pc'[s] \in {"first", "wait", "sleep", "snapshot", "offer", "release"}
          /\ pc'[s] # "cancel" /\ pc[s] # "cancel"
      BY Zenon, <3>2 DEF Subscribed
    <3> QED BY Zenon, <3>2, <3>3, <3>4, RefFrameStream
  <2>5. CASE wake(s)
    BY Zenon, <2>5, RefFrameStream DEF wake, waitReturns, Subscribed, TypeOK
  <2>6. CASE offer(s)
    BY <2>6, RefFrameStream DEF offer, Subscribed, TypeOK
  <2> QED
    BY Zenon, <1>3, <2>1, <2>2, <2>3, <2>4, <2>5, <2>6, RefSubscribe, RefRelease, RefCallCancel
    DEF handleCert
<1>4. ASSUME NEW q \in Requests, handleCertReq(q) \/ reply(q) PROVE RefInv'
  <2>1. CASE handleCertReq(q)
    <3>1. /\ UNCHANGED <<cancelRenew, subscribing, toCancel, stopped>>
          /\ \A x \in Procs \ {q} : pc'[x] = pc[x] /\ done'[x] = done[x]
      BY Zenon, <2>1 DEF handleCertReq, TypeOK
    <3> QED BY ZenonT(30), <3>1, RefFrame
  <2>2. CASE reply(q)
    <3>1. /\ UNCHANGED <<cancelRenew, subscribing, toCancel, stopped>>
          /\ \A x \in Procs \ {q} : pc'[x] = pc[x] /\ done'[x] = done[x]
      BY Zenon, <2>2 DEF reply, TypeOK
    <3> QED BY ZenonT(30), <3>1, RefFrame
  <2> QED BY Zenon, <1>4, <2>1, <2>2
<1>5. ASSUME NEW p \in Streams \cup Requests, disconnect(p) PROVE RefInv'
  BY ZenonT(30), <1>5, RefFrame DEF disconnect, TypeOK
<1>6. CASE expire
  BY Zenon, <1>6, RefFrame DEF expire
<1>7. CASE Stop
  BY Zenon, <1>7, RefFrame DEF Stop
<1>8. CASE UNCHANGED vars
  BY <1>8, RefFrame DEF vars
<1> QED
  BY <1>1, <1>2, <1>3, <1>4, <1>5, <1>6, <1>7, <1>8 DEF Next

\* They are in step from the start.
LEMMA RefCorrect == Spec => []RefInv
<1>1. ASSUME Init PROVE RefInv
  <2>1. Subscribed = {}
    BY <1>1, ConstantsAssumption DEF Init, Subscribed, Procs, Renewing
  <2>2. subscribing = Cardinality(Subscribed)
    BY <1>1, <2>1, FS_EmptySet DEF Init
  <2>3. \A s \in Streams : pc[s] = "cancel" <=> toCancel[s] # None
    BY <1>1, ConstantsAssumption DEF Init, Procs, Renewing
  <2>4. NoLeakedRenewer
    BY <1>1, ConstantsAssumption DEF Init, Procs, Renewing, NoLeakedRenewer
  <2> QED BY <1>1, <2>2, <2>3, <2>4 DEF Init, RefInv
<1> QED
  BY <1>1, RefStep, TypeCorrect, PTL DEF Spec

(***************************************************************************)
(* No renewal goroutine outlives its subscribers, however subscribe,       *)
(* release and the late call of a CancelFunc interleave.                   *)
(***************************************************************************)
THEOREM NoRenewerLeaks == Spec => []NoLeakedRenewer
<1>1. RefInv => NoLeakedRenewer
  BY Zenon DEF RefInv
<1> QED
  BY <1>1, RefCorrect, PTL

(***************************************************************************)
(* While a stream is subscribed the renewer whose CancelFunc the entry     *)
(* holds is running: no late CancelFunc has hit it.                        *)
(***************************************************************************)
THEOREM SubscribedEntryTended == Spec => []EntryTended
<1>1. RefInv => EntryTended
  <2> SUFFICES ASSUME RefInv PROVE EntryTended
    OBVIOUS
  <2>1. Subscribed # {} => subscribing # 0
    BY SubscribedFinite, FS_EmptySet DEF RefInv
  <2> QED BY <2>1 DEF RefInv, EntryTended
<1> QED
  BY <1>1, RefCorrect, PTL

-----------------------------------------------------------------------------
(* Refinement *)

\* The hand-off set does not change, so neither does the mapped variable.
LEMMA HandingFrame ==
  ASSUME UNCHANGED cert,
         \A p \in Renewing : pc'[p] = "handoff" <=> pc[p] = "handoff"
  PROVE  handing' = handing
BY DEF handing

(***************************************************************************)
(* The entry with all its goroutines implements the abstract cell: the     *)
(* publication of a renewal is Renew, the end of the hand-off Settle, the  *)
(* passing of ValidBefore Expire, and every other step a stutter.          *)
(***************************************************************************)
THEOREM EntryImplementsCell == Spec => ImplementsCell
<1>1. ASSUME Init PROVE Cell!Init
  <2>1. \A p \in Renewing : pc[p] # "handoff"
    BY Zenon, <1>1 DEF Init, Procs
  <2> QED BY <1>1, <2>1 DEF Init, Cell!Init, handing
<1>2. TypeOK /\ RenewInv /\ [Next]_vars => [Cell!Next]_Cell!cellVars
  <2> SUFFICES ASSUME TypeOK, RenewInv, [Next]_vars PROVE [Cell!Next]_Cell!cellVars
    OBVIOUS
  <2> USE ConstantsAssumption DEF TypeOK, Procs, Renewing, Goto, cell, refs, local
  <2>1. ASSUME NEW p \in Renewing, renew(p) PROVE [Cell!Next]_Cell!cellVars
    <3>1. CASE renewPublish(p)
      <4>1. \A x \in Renewing : pc[x] # "handoff"
        BY Zenon, <3>1 DEF renewPublish, RenewInv
      <4>2. pc'[p] = "handoff"
        BY Zenon, <3>1 DEF renewPublish
      <4>3. handing = 0 /\ handing' = cert'
        BY Zenon, <4>1, <4>2 DEF handing
      <4>4. ~valid
        BY Zenon, <3>1 DEF renewPublish, RenewInv, NoRedundantObtain
      <4> QED BY Zenon, <3>1, <4>3, <4>4 DEF renewPublish, Cell!Next, Cell!Renew
    <3>2. CASE handOff(p)
      <4>1. handing = cert /\ cert # 0
        BY Zenon, <3>2 DEF handOff, RenewInv, handing
      <4>2. \A x \in Renewing : pc'[x] # "handoff"
        BY Zenon, <3>2 DEF handOff, AfterRenew, RenewInv
      <4>3. handing' = 0
        BY <4>2 DEF handing
      <4> QED BY Zenon, <3>2, <4>1, <4>3 DEF handOff, Cell!Next, Cell!Settle
    <3>3. CASE renewStart(p) \/ renewCheck(p) \/ obtainFails(p)
      <4>1. \A x \in Renewing : pc'[x] = "handoff" <=> pc[x] = "handoff"
        <5>1. CASE renewStart(p)
          BY Zenon, <5>1 DEF renewStart, AfterError
        <5>2. CASE renewCheck(p)
          BY <5>2 DEF renewCheck, AfterRenew
        <5>3. CASE obtainFails(p)
          BY Zenon, <5>3 DEF obtainFails, AfterError
        <5> QED BY Zenon, <3>3, <5>1, <5>2, <5>3
      <4>2. UNCHANGED <<cert, valid, version>>
        BY Zenon, <3>3 DEF renewStart, renewCheck, obtainFails
      <4> QED BY Zenon, <4>1, <4>2, HandingFrame DEF Cell!cellVars
    <3> QED BY Zenon, <2>1, <3>1, <3>2, <3>3 DEF renew
  <2>2. CASE expire
    BY <2>2, HandingFrame DEF expire, Cell!Next, Cell!Expire
  <2>3. ASSUME \/ \E r \in Renewers : renewTimer(r)
               \/ \E s \in Streams : handleCert(s)
               \/ \E q \in Requests : handleCertReq(q) \/ reply(q)
               \/ \E p \in Streams \cup Requests : disconnect(p)
               \/ Stop
               \/ UNCHANGED vars
        PROVE  UNCHANGED Cell!cellVars
    <3>1. ASSUME NEW r \in Renewers, renewTimer(r) PROVE UNCHANGED Cell!cellVars
      BY Zenon, <3>1, HandingFrame DEF renewTimer, Cell!cellVars
    <3>2. ASSUME NEW s \in Streams, handleCert(s) PROVE UNCHANGED Cell!cellVars
      <4>1. CASE subscribe(s)
        <5>1. CASE subscribing = 0
          <6>1. PICK r \in Renewers :
                  pc[r] = "off" /\ pc' = [pc EXCEPT ![s] = "first", ![r] = "renew"]
            BY <4>1, <5>1 DEF subscribe
          <6>2. \A x \in Renewing : pc'[x] = "handoff" <=> pc[x] = "handoff"
            BY <6>1
          <6> QED BY Zenon, <4>1, <6>2, HandingFrame DEF subscribe, Cell!cellVars
        <5>2. CASE subscribing > 0
          BY Zenon, <4>1, <5>2, HandingFrame DEF subscribe, Cell!cellVars
        <5> QED BY <5>1, <5>2
      <4>2. CASE dispatch(s) \/ firstSnapshot(s) \/ nextSnapshot(s) \/ offer(s)
        BY Zenon, <4>2, HandingFrame
        DEF dispatch, firstSnapshot, nextSnapshot, offer, Cell!cellVars
      <4>3. CASE WaitForUpdate(s) \/ wake(s)
        BY Zenon, <4>3, HandingFrame DEF WaitForUpdate, wake, waitReturns, Cell!cellVars
      <4>4. CASE release(s) \/ callCancel(s)
        BY Zenon, <4>4, HandingFrame DEF release, callCancel, Cell!cellVars
      <4> QED BY Zenon, <3>2, <4>1, <4>2, <4>3, <4>4 DEF handleCert
    <3>3. ASSUME NEW q \in Requests, handleCertReq(q) \/ reply(q)
          PROVE  UNCHANGED Cell!cellVars
      <4>1. CASE handleCertReq(q)
        BY <4>1, HandingFrame DEF handleCertReq, Cell!cellVars
      <4>2. CASE reply(q)
        BY Zenon, <4>2, HandingFrame DEF reply, Cell!cellVars
      <4> QED BY Zenon, <3>3, <4>1, <4>2
    <3>4. ASSUME NEW p \in Streams \cup Requests, disconnect(p)
          PROVE  UNCHANGED Cell!cellVars
      BY <3>4, HandingFrame DEF disconnect, Cell!cellVars
    <3>5. CASE Stop
      BY Zenon, <3>5, HandingFrame DEF Stop, Cell!cellVars
    <3>6. CASE UNCHANGED vars
      BY <3>6, HandingFrame DEF vars, Cell!cellVars
    <3> QED BY Zenon, <2>3, <3>1, <3>2, <3>3, <3>4, <3>5, <3>6
  <2> QED BY <2>1, <2>2, <2>3 DEF Next
<1> QED
  BY <1>1, <1>2, TypeCorrect, RenewCorrect, PTL DEF Spec, ImplementsCell, Cell!Spec
=============================================================================
