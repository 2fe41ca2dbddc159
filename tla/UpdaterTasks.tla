----------------------------- MODULE UpdaterTasks -----------------------------
(***************************************************************************)
(* The two one-shot updaters of certdx_tools: the Kubernetes updater, with *)
(* a task for each annotated secret, and the Tencent Cloud updater, with a *)
(* task for each configured certificate that is about to expire in the     *)
(* cloud.  Both register a handler per task with the client daemon, whose  *)
(* map of watched certificates has one place per domain set, start the     *)
(* daemon and wait for a WaitGroup; only the Kubernetes updater has a      *)
(* deadline.                                                               *)
(***************************************************************************)
EXTENDS Integers, FiniteSets, Domains

CONSTANTS
  Tasks,           \* secrets, or entries of Certifications
  CloudIds,        \* certificates in the cloud
  DomainLists,     \* the lists of names they may have
  Configured,      \* the domain lists of the k8s updater's Certifications
  RetrySteps,      \* attempts at an update (DefaultRetry, updateRetryCount + 1)
  K8sDeliveries,   \* bound on the certificates the daemon delivers to one handler,
  TxcDeliveries,   \*   in each updater
  None

ASSUME UpdaterAssumption ==
  /\ IsFiniteSet(Tasks) /\ IsFiniteSet(CloudIds) /\ None \notin Tasks
  /\ RetrySteps \in Nat \ {0} /\ K8sDeliveries \in Nat /\ TxcDeliveries \in Nat

VARIABLES
  updater,    \* "k8s" or "txc" (never changes)
  domains,    \* the domain list of each task (never changes)
  cloud,      \* the SANs of the cloud's certificates, and whether they are expiring
  phase,      \* InvokeCertificateUpdate: "list", "start", "wait", "returned"
  registered, \* the tasks registered with the daemon
  certs,      \* the daemon's map: the task whose handler holds each key
  wg,         \* the WaitGroup's counter
  handler,    \* each handler: "idle", "get", "update", "finish"
  attempt,    \* its attempts at the update
  delivered,  \* the certificates it was called with
  outcome,    \* what its last completed run did: "none", "done", "failed"
  taskErr,    \* whether an error was recorded
  result      \* what InvokeCertificateUpdate returned

fixed == <<updater, domains, cloud>>
tasks == <<registered, certs>>
runs == <<handler, attempt, delivered, outcome>>
vars == <<fixed, phase, tasks, wg, runs, taskErr, result>>

Keys == {AsKey(d) : d \in DomainLists}

TypeOK ==
  /\ updater \in {"k8s", "txc"}
  /\ domains \in [Tasks -> DomainLists]
  /\ cloud \in [CloudIds -> [sans : DomainLists, expiring : BOOLEAN]]
  /\ phase \in {"list", "start", "wait", "returned"}
  /\ registered \subseteq Tasks
  /\ certs \in [Keys -> Tasks \cup {None}]
  /\ wg \in Nat
  /\ handler \in [Tasks -> {"idle", "get", "update", "finish"}]
  /\ attempt \in [Tasks -> 0 .. (RetrySteps - 1)]
  /\ delivered \in [Tasks -> Nat]
  /\ outcome \in [Tasks -> {"none", "done", "failed"}]
  /\ taskErr \in BOOLEAN
  /\ result \in {"none", "ok", "error", "timeout"}

Init ==
  /\ updater \in {"k8s", "txc"}
  /\ domains \in [Tasks -> DomainLists]
  /\ cloud \in [CloudIds -> [sans : DomainLists, expiring : BOOLEAN]]
  /\ IF updater = "k8s"
     THEN \A c \in CloudIds : cloud[c].sans = <<>> /\ ~cloud[c].expiring
     ELSE /\ \A t \in Tasks : domains[t] # <<>>
          /\ \A c \in CloudIds : cloud[c].sans # <<>>
  /\ phase = "list" /\ registered = {} /\ certs = [k \in Keys |-> None]
  /\ wg = 0
  /\ handler = [t \in Tasks |-> "idle"] /\ attempt = [t \in Tasks |-> 0]
  /\ delivered = [t \in Tasks |-> 0] /\ outcome = [t \in Tasks |-> "none"]
  /\ taskErr = FALSE /\ result = "none"

returns(r) ==
  /\ phase' = "returned"
  /\ result' = r

-----------------------------------------------------------------------------
(* The tasks *)

\* parseDomainsAnnotation: lower case, without empty names and repetitions.
parseDomainsAnnotation(list) ==
  SetToSeq({n \in {toLower(list[i]) : i \in DOMAIN list} : ~isEmpty(n)})

\* The list is within one entry of the configuration.
areDomainsAllowed(list) == \E item \in Configured : AllAllowed(item, list)

\* The secrets registerWatchAndHandlers does not skip.
k8sTasks ==
  {t \in Tasks :
     LET list == parseDomainsAnnotation(domains[t])
     IN list # <<>> /\ areDomainsAllowed(list)}

\* isSameStrSetIgnoringNil: the same length, and no name of b is missing in a.
isSameStrSet(a, b) == Len(a) = Len(b) /\ Range(b) \subseteq Range(a)

\* Another certificate of the cloud has the names of c, whether expiring or not.
isActivatingCertificateExists(c) ==
  \E ac \in CloudIds \ {c} : isSameStrSet(cloud[ac].sans, cloud[c].sans)

\* GetCertificateToUpdate: each entry with each expiring certificate that has its names,
\* unless another certificate has them too.  An entry that repeats a name may match two.
txcMatches ==
  {m \in Tasks \X CloudIds :
     /\ cloud[m[2]].expiring /\ ~isActivatingCertificateExists(m[2])
     /\ isSameStrSet(cloud[m[2]].sans, domains[m[1]])}
txcTasks == {m[1] : m \in txcMatches}

\* AddCertToWatchOpt for each task or match, with a wg.Add each: of those with one key
\* the last registered keeps the place in the map.
register(chosen, count) ==
  /\ registered' = chosen
  /\ certs' \in
       {f \in [Keys -> chosen \cup {None}] :
          \A k \in Keys :
            LET holders == {t \in chosen : AsKey(domains[t]) = k}
            IN IF holders = {} THEN f[k] = None ELSE f[k] \in holders}
  /\ wg' = count

\* The secrets cannot be listed.
getAllCertificatesFails ==
  /\ phase = "list" /\ updater = "k8s"
  /\ returns("error")
  /\ UNCHANGED <<fixed, tasks, wg, runs, taskErr>>

\* A page of the cloud's certificates cannot be fetched, whatever came before it.
FetchTencentCloudFails ==
  /\ phase = "list" /\ updater = "txc"
  /\ returns("error")
  /\ UNCHANGED <<fixed, tasks, wg, runs, taskErr>>

k8sRegister ==
  /\ phase = "list" /\ updater = "k8s"
  /\ register(k8sTasks, Cardinality(k8sTasks))
  /\ IF k8sTasks = {} THEN returns("ok") ELSE phase' = "start" /\ UNCHANGED result
  /\ UNCHANGED <<fixed, runs, taskErr>>

txcRegister ==
  /\ phase = "list" /\ updater = "txc"
  /\ register(txcTasks, Cardinality(txcMatches))
  /\ phase' = "start"
  /\ UNCHANGED <<fixed, runs, taskErr, result>>

\* HttpMain or GRPCMain in a goroutine; the mode may be unknown or the URL empty.
startCertDXDaemon ==
  /\ phase = "start"
  /\ (phase' = "wait" /\ UNCHANGED result) \/ returns("error")
  /\ UNCHANGED <<fixed, tasks, wg, runs, taskErr>>

InvokeCertificateUpdate ==
  \/ getAllCertificatesFails \/ FetchTencentCloudFails
  \/ k8sRegister \/ txcRegister \/ startCertDXDaemon

-----------------------------------------------------------------------------
(* The handlers *)

Deliveries == IF updater = "k8s" THEN K8sDeliveries ELSE TxcDeliveries

\* Slip: no sync.Once.
OnlyOnce_Never(t) == FALSE

\* The Kubernetes handler is wrapped in a sync.Once.
OnlyOnce(t) == updater = "k8s" /\ delivered[t] > 0

\* watchUpdate calls the handler with a certificate that differs from the last one.
deliver(t) ==
  /\ phase = "wait" /\ handler[t] = "idle"
  /\ \E k \in Keys : certs[k] = t
  /\ delivered[t] < Deliveries
  /\ delivered' = [delivered EXCEPT ![t] = @ + 1]
  /\ IF OnlyOnce(t)
     THEN UNCHANGED <<handler, attempt>>
     ELSE /\ handler' = [handler EXCEPT ![t] = IF updater = "k8s" THEN "get" ELSE "update"]
          /\ attempt' = [attempt EXCEPT ![t] = 0]
  /\ UNCHANGED <<fixed, phase, tasks, wg, outcome, taskErr, result>>

\* The handler's work is over, an error is recorded.
settle(t, o) ==
  /\ handler' = [handler EXCEPT ![t] = "finish"]
  /\ outcome' = [outcome EXCEPT ![t] = o]
  /\ taskErr' = (taskErr \/ o = "failed")
  /\ UNCHANGED <<fixed, phase, tasks, wg, attempt, delivered, result>>

\* Get: the secret is gone or already current, cannot be read, or is to be updated.
getSecret(t) ==
  /\ phase = "wait" /\ handler[t] = "get"
  /\ \/ \E o \in {"done", "failed"} : settle(t, o)
     \/ /\ handler' = [handler EXCEPT ![t] = "update"]
        /\ UNCHANGED <<fixed, phase, tasks, wg, attempt, delivered, outcome, taskErr, result>>

\* Update of the secret, UpdateCertificateInstance: it succeeds (the certificate may
\* exist already), or fails for good.
updateEnds(t) ==
  /\ phase = "wait" /\ handler[t] = "update"
  /\ \E o \in {"done", "failed"} : settle(t, o)

\* Slip: no budget for the attempts.
updateAgain_NoBound(t) ==
  /\ phase = "wait" /\ handler[t] = "update"
  /\ attempt' = [attempt EXCEPT ![t] = @ + 1]
  /\ handler' = [handler EXCEPT ![t] = IF updater = "k8s" THEN "get" ELSE "update"]
  /\ UNCHANGED <<fixed, phase, tasks, wg, delivered, outcome, taskErr, result>>

\* A conflict, after which the secret is read again; or, in the cloud, an error that
\* took its time.
updateAgain(t) ==
  /\ phase = "wait" /\ handler[t] = "update" /\ attempt[t] < RetrySteps - 1
  /\ attempt' = [attempt EXCEPT ![t] = @ + 1]
  /\ handler' = [handler EXCEPT ![t] = IF updater = "k8s" THEN "get" ELSE "update"]
  /\ UNCHANGED <<fixed, phase, tasks, wg, delivered, outcome, taskErr, result>>

\* The deferred wg.Done.  A counter below zero panics and ends the process.
finish(t) ==
  /\ phase = "wait" /\ handler[t] = "finish"
  /\ handler' = [handler EXCEPT ![t] = "idle"]
  /\ IF wg > 0
     THEN wg' = wg - 1 /\ UNCHANGED <<phase, result>>
     ELSE returns("error") /\ UNCHANGED wg
  /\ UNCHANGED <<fixed, tasks, attempt, delivered, outcome, taskErr>>

handle(t) == getSecret(t) \/ updateEnds(t) \/ updateAgain(t) \/ finish(t)

-----------------------------------------------------------------------------
(* waitReplaceTask, WaitReplaceTask *)

waitDone ==
  /\ phase = "wait" /\ wg = 0
  /\ returns(IF taskErr THEN "error" ELSE "ok")
  /\ UNCHANGED <<fixed, tasks, wg, runs, taskErr>>

\* Slip: no deadline.
waitDeadline_None == FALSE /\ UNCHANGED vars

\* waitCtx of the Kubernetes updater; the other waits under context.Background.
waitDeadline ==
  /\ phase = "wait" /\ updater = "k8s"
  /\ returns("timeout")
  /\ UNCHANGED <<fixed, tasks, wg, runs, taskErr>>

Next ==
  \/ InvokeCertificateUpdate
  \/ waitDone \/ waitDeadline
  \/ \E t \in Tasks : deliver(t) \/ handle(t)

Spec == Init /\ [][Next]_vars

\* The updater's goroutines run, its deadline fires, and the daemon delivers the
\* certificates it watches.
FairSpec ==
  /\ Spec
  /\ WF_vars(InvokeCertificateUpdate)
  /\ WF_vars(waitDone) /\ WF_vars(waitDeadline)
  /\ \A t \in Tasks : WF_vars(deliver(t) \/ handle(t))

-----------------------------------------------------------------------------
(* Properties *)

\* When an updater reports success, each task it registered was carried out: a secret
\* whose handler lost its place in the daemon's map to another with the same domains,
\* or a handler that failed, is never passed over.
SuccessMeansAllDone ==
  result = "ok" => \A t \in registered : outcome[t] = "done"

\* The updater returns: the Kubernetes one always, by its deadline; the other, which has
\* no deadline, when the daemon delivers each certificate it watches and its map has a
\* place for each registration: no two entries with one domain set, and no entry that
\* matches two certificates of the cloud.
UpdaterReturns ==
  phase = "wait" ~>
    \/ phase = "returned"
    \/ /\ updater = "txc"
       /\ Cardinality(txcMatches) > Cardinality({k \in Keys : certs[k] # None})

-----------------------------------------------------------------------------
(* What a comment says, and the code does not guarantee *)

\* WaitReplaceTask "blocks until every registered handler has completed or ctx fires".
WaitsForEveryHandler ==
  updater = "txc" /\ result = "ok" =>
    \A k \in Keys : certs[k] # None => outcome[certs[k]] # "none"
=============================================================================
