---------------------------- MODULE ServerProcess ----------------------------
(***************************************************************************)
(* The server process from its start to its end: the ACME account key,     *)
(* registered when it is missing (or by certdx_tools' google-account), the *)
(* HTTP endpoint in its three forms and the gRPC endpoint, each with its   *)
(* listener, and Stop.  The HTTPS listener is rebound whenever its         *)
(* certificate is renewed; that certificate is a CertCell.  The mTLS       *)
(* endpoints load a bundle that certdx_tools wrote.                        *)
(***************************************************************************)
EXTENDS MtlsFiles

CONSTANTS
  PEM,      \* the name of the bundle MTLS.PEM points to
  MaxCert   \* bound on the certificates issued for HttpServer.Names

ASSUME ServerAssumption ==
  /\ PEM \in Names /\ MaxCert \in Nat \ {0}
  /\ None \notin {"server", "tool"} \X {"write", "register"}

VARIABLES
  auth,         \* HttpServer: "off", "https", "http" or "mtls" (never changes)
  grpc,         \* whether gRPCSDSServer is enabled (never changes)
  mock,         \* whether the ACME provider is the mock (never changes)
  proc,         \* the process: "down", "init", "up"
  keyFile,      \* the account key's file: None, Torn, "new" or "registered"
  registering,  \* RegisterAccount: None, or who calls it and what comes next
  interrupted,  \* whether a RegisterAccount was killed or could not write the key (history)
  stopped,      \* rootCtx is done
  cert, valid, version, handing,  \* the CertCell of HttpServer.Names
  http,         \* HttpSrv: "off", "start", "check", "wait", "snapshot", "loop",
                \*   "listen", "rebind", "returned"
  mine, seen,   \* its local certificate and version
  iterDone,     \* iterCtx is done
  sds           \* SDSSrv: "off", "start", "listen", "returned"

cell == <<cert, valid, version, handing>>
account == <<keyFile, registering, interrupted>>
https == <<http, mine, seen, iterDone>>
vars == <<mtlsVars, auth, grpc, mock, proc, account, stopped, cell, https, sds>>

TypeOK ==
  /\ MtlsTypeOK
  /\ auth \in {"off", "https", "http", "mtls"} /\ grpc \in BOOLEAN /\ mock \in BOOLEAN
  /\ proc \in {"down", "init", "up"}
  /\ keyFile \in {None, Torn, "new", "registered"}
  /\ registering \in {None} \cup ({"server", "tool"} \X {"write", "register"})
  /\ interrupted \in BOOLEAN /\ stopped \in BOOLEAN
  /\ cert \in 0 .. MaxCert /\ valid \in BOOLEAN
  /\ version \in 0 .. MaxCert /\ handing \in 0 .. MaxCert
  /\ http \in {"off", "start", "check", "wait", "snapshot", "loop", "listen",
               "rebind", "returned"}
  /\ mine \in 0 .. MaxCert /\ seen \in 0 .. MaxCert /\ iterDone \in BOOLEAN
  /\ sds \in {"off", "start", "listen", "returned"}

Cell == INSTANCE CertCell

Init ==
  /\ MtlsInit
  /\ auth \in {"off", "https", "http", "mtls"} /\ grpc \in BOOLEAN /\ mock \in BOOLEAN
  /\ proc = "down"
  /\ keyFile = None /\ registering = None /\ interrupted = FALSE
  /\ Cell!Init
  /\ http = "off" /\ mine = 0 /\ seen = 0 /\ iterDone = FALSE
  /\ sds = "off" /\ stopped = FALSE

-----------------------------------------------------------------------------
(* The account key *)

\* The google-account task of certdx_tools, not run while a server starts nor for one
\* with the mock provider.
GoogleAccount ==
  /\ registering = None /\ proc # "init" /\ ~mock
  /\ registering' = <<"tool", "write">>
  /\ UNCHANGED <<mtlsVars, auth, grpc, mock, proc, keyFile, interrupted, stopped, cell,
                 https, sds>>

\* os.WriteFile of a new key.  When it fails the file is not removed.
saveKey ==
  /\ registering # None /\ registering[2] = "write"
  /\ \/ /\ keyFile' = "new" /\ registering' = <<registering[1], "register">>
        /\ UNCHANGED <<interrupted, proc>>
     \/ /\ keyFile' \in Lost(keyFile)
        /\ registering' = None /\ interrupted' = TRUE
        /\ proc' = IF registering[1] = "server" THEN "down" ELSE proc
  /\ UNCHANGED <<mtlsVars, auth, grpc, mock, stopped, cell, https, sds>>

\* Slip: an error path leaves the key on file.
onError_Keeps == keyFile' = keyFile

\* Every error after the key was saved removes it.
onError == keyFile' = None

\* The ACME server registers the key or refuses.
register ==
  /\ registering # None /\ registering[2] = "register"
  /\ \/ keyFile' = "registered" /\ UNCHANGED proc
     \/ /\ onError
        /\ proc' = IF registering[1] = "server" THEN "down" ELSE proc
  /\ registering' = None
  /\ UNCHANGED <<mtlsVars, auth, grpc, mock, interrupted, stopped, cell, https, sds>>

RegisterAccount == saveKey \/ register

-----------------------------------------------------------------------------
(* Start and end *)

\* The process starts; a bad configuration ends it, which changes nothing.
start ==
  /\ proc = "down" /\ registering = None
  /\ proc' = "init"
  /\ UNCHANGED <<mtlsVars, auth, grpc, mock, account, stopped, cell, https, sds>>

\* No key file: register an account.  The mock provider has none.
makeACMEUser ==
  /\ proc = "init" /\ registering = None /\ ~mock
  /\ keyFile = None
  /\ registering' = <<"server", "write">>
  /\ UNCHANGED <<mtlsVars, auth, grpc, mock, proc, keyFile, interrupted, stopped, cell,
                 https, sds>>

\* Google's external account key, the ACME directory, the account lookup or the
\* challenger fails, or the key cannot be parsed or is not registered.
initFails ==
  /\ proc = "init" /\ registering = None /\ ~mock
  /\ proc' = "down"
  /\ UNCHANGED <<mtlsVars, auth, grpc, mock, account, stopped, cell, https, sds>>

\* The account is found, or none is needed; the cache file is loaded, or cannot be; main
\* starts the subservers.
InitDone ==
  /\ proc = "init" /\ registering = None
  /\ mock \/ keyFile = "registered"
  /\ proc' = "up"
  /\ \/ UNCHANGED <<cert, valid>>
     \/ cert' = 0 /\ valid' = FALSE
     \/ cert < MaxCert /\ valid' = FALSE /\ UNCHANGED cert
  /\ version' = 0 /\ handing' = 0
  /\ http' = IF auth = "off" THEN "off" ELSE "start"
  /\ sds' = IF grpc THEN "start" ELSE "off"
  /\ UNCHANGED <<mtlsVars, auth, grpc, mock, account, stopped, mine, seen, iterDone>>

\* WaitForShutdown calls Stop on a signal.  Stop returns at once, so neither its timer
\* nor a second signal matters.
WaitForShutdown ==
  /\ proc = "up" /\ ~stopped
  /\ stopped' = TRUE
  /\ UNCHANGED <<mtlsVars, auth, grpc, mock, proc, account, cell, https, sds>>

\* The process is gone, and its goroutines with it.
exit ==
  /\ proc' = "down"
  /\ http' = "off" /\ mine' = 0 /\ seen' = 0 /\ iterDone' = FALSE
  /\ sds' = "off" /\ stopped' = FALSE
  /\ UNCHANGED <<mtlsVars, auth, grpc, mock, keyFile, cell>>

\* Wait returns, and main does.
main ==
  /\ proc = "up" /\ stopped
  /\ exit
  /\ UNCHANGED <<registering, interrupted>>

\* The process is killed, in RegisterAccount or anywhere.
crash ==
  /\ proc # "down"
  /\ exit
  /\ IF registering # None /\ registering[1] = "server"
     THEN registering' = None /\ interrupted' = TRUE
     ELSE UNCHANGED <<registering, interrupted>>

-----------------------------------------------------------------------------
(* The certificate of HttpServer.Names *)

Renewal ==
  /\ proc = "up" /\ cert < MaxCert
  /\ Cell!Expire \/ Cell!Renew
  /\ UNCHANGED <<mtlsVars, auth, grpc, mock, proc, account, stopped, https, sds>>

Handoff ==
  /\ proc = "up"
  /\ Cell!Settle
  /\ UNCHANGED <<mtlsVars, auth, grpc, mock, proc, account, stopped, https, sds>>

-----------------------------------------------------------------------------
(* The subservers *)

others == <<mtlsVars, auth, grpc, mock, proc, account, cell>>

\* mtls.LoadServer reads a complete bundle.
LoadServer == bundle[PEM] \notin {None, Torn}

\* HttpSrv returns an error, and main's goroutine calls Stop.
httpFails ==
  /\ http' = "returned" /\ stopped' = TRUE
  /\ UNCHANGED <<mine, seen, iterDone>>

Snapshot == mine' = cert

\* serveHttps subscribes and takes the first snapshot; the other two go on to listen.
HttpSrv ==
  /\ http = "start"
  /\ \/ /\ auth = "https"
        /\ Snapshot /\ seen' = version /\ http' = "check"
        /\ UNCHANGED <<iterDone, stopped>>
     \/ /\ auth = "http" \/ (auth = "mtls" /\ LoadServer)
        /\ http' = "listen" /\ UNCHANGED <<mine, seen, iterDone, stopped>>
     \/ /\ auth = "mtls" /\ ~LoadServer
        /\ httpFails
  /\ UNCHANGED <<others, sds>>

\* IsValid: a renewal replaces only what is not valid any more.
firstCert ==
  /\ http = "check"
  /\ http' = IF mine # 0 /\ mine = cert /\ valid THEN "loop" ELSE "wait"
  /\ UNCHANGED <<others, mine, seen, iterDone, stopped, sds>>

\* WaitForUpdate, until a renewal or until rootCtx is done.
firstWait ==
  /\ http = "wait"
  /\ \/ stopped /\ http' = "returned" /\ UNCHANGED seen
     \/ version # seen /\ seen' = version /\ http' = "snapshot"
  /\ UNCHANGED <<others, mine, iterDone, stopped, sds>>

firstSnapshot ==
  /\ http = "snapshot"
  /\ \/ stopped /\ http' = "returned" /\ UNCHANGED mine
     \/ ~stopped /\ http' = "check" /\ Snapshot
  /\ UNCHANGED <<others, seen, iterDone, stopped, sds>>

\* Slip: the wait starts from the current version, not from the one seen.
bind_FromCurrent ==
  /\ http = "loop"
  /\ \/ stopped /\ http' = "returned" /\ UNCHANGED <<mine, seen, iterDone, stopped>>
     \/ ~stopped /\ http' = "listen" /\ seen' = version
          /\ iterDone' = FALSE /\ UNCHANGED <<mine, stopped>>
     \/ ~stopped /\ httpFails
  /\ UNCHANGED <<others, sds>>

\* The head of the loop: the key pair is loaded, and the listener bound to it.
bind ==
  /\ http = "loop"
  /\ \/ stopped /\ http' = "returned" /\ UNCHANGED <<mine, seen, iterDone, stopped>>
     \/ ~stopped /\ http' = "listen" /\ iterDone' = FALSE /\ UNCHANGED <<mine, seen, stopped>>
     \/ ~stopped /\ httpFails
  /\ UNCHANGED <<others, sds>>

\* The goroutine in WaitForUpdate stores the new version and cancels iterCtx.
freshCert ==
  /\ auth = "https" /\ http = "listen" /\ ~iterDone
  /\ version # seen
  /\ seen' = version /\ iterDone' = TRUE
  /\ UNCHANGED <<others, http, mine, stopped, sds>>

\* The listener fails by itself, or Shutdown closes it once its context is done.
runHTTPServer ==
  /\ http = "listen"
  /\ \/ httpFails
     \/ /\ iterDone \/ stopped
        /\ http' = IF auth = "https" THEN "rebind" ELSE "returned"
        /\ UNCHANGED <<mine, seen, iterDone, stopped>>
  /\ UNCHANGED <<others, sds>>

\* The snapshot may be newer than the version the goroutine stored.
rebind ==
  /\ http = "rebind"
  /\ Snapshot /\ http' = "loop"
  /\ UNCHANGED <<others, seen, iterDone, stopped, sds>>

serveHttps == firstCert \/ firstWait \/ firstSnapshot \/ bind \/ freshCert \/ rebind

\* SDSSrv listens, fails (main's goroutine calls Stop), or ends once rootCtx is done.
SDSSrv ==
  /\ \/ sds = "start" /\ LoadServer /\ sds' = "listen" /\ UNCHANGED stopped
     \/ sds = "start" /\ sds' = "returned" /\ stopped' = TRUE
     \/ sds = "listen" /\ sds' = "returned" /\ stopped' = TRUE
  /\ UNCHANGED <<others, https>>

-----------------------------------------------------------------------------
(* The specification *)

Next ==
  \/ Tools /\ UNCHANGED <<auth, grpc, mock, proc, account, stopped, cell, https, sds>>
  \/ GoogleAccount \/ RegisterAccount
  \/ start \/ makeACMEUser \/ initFails \/ InitDone \/ WaitForShutdown \/ main \/ crash
  \/ Renewal \/ Handoff
  \/ HttpSrv \/ serveHttps \/ runHTTPServer \/ SDSSrv

Spec == Init /\ [][Next]_vars

Subscribed == auth = "https" /\ http \notin {"off", "start", "returned"}

\* The goroutines run, a listener whose context is done is closed, and an entry with a
\* subscriber is renewed.  A listener need not fail, the operator need not run a tool.
FairSpec ==
  /\ Spec
  /\ WF_vars(main)
  /\ WF_vars(HttpSrv) /\ WF_vars(serveHttps)
  /\ WF_vars((iterDone \/ stopped) /\ runHTTPServer)
  /\ WF_vars(sds = "start" /\ SDSSrv)
  /\ WF_vars(Subscribed /\ ~valid /\ Renewal) /\ WF_vars(Handoff)

-----------------------------------------------------------------------------
(* Properties *)

\* Unless a RegisterAccount was killed or failed to write the key's file, what is on file
\* once it has returned is a registered key: a refusal, or any other error after the key
\* was written, leaves none, and the next start never trusts a key that the ACME server
\* does not know.
KeyOnFileIsRegistered ==
  registering = None /\ ~interrupted => keyFile \in {None, "registered"}

HttpServes == auth = "off" \/ (http = "listen" /\ (auth = "https" => mine = cert))
SdsServes == grpc => sds = "listen"

\* A process that stays up serves on every endpoint it was configured with, and HTTPS
\* with the latest certificate: no renewal between a snapshot and the wait is missed,
\* and an endpoint that fails takes the process down.
ServesWhileUp == []<>(proc # "up" \/ (HttpServes /\ SdsServes))
=============================================================================
