----------------------------- MODULE ClientDaemon -----------------------------
(***************************************************************************)
(* The client daemon in HTTP mode, for one certificate: httpPollingCert    *)
(* asks the main server, then the standby, through retry.Do; watchUpdate   *)
(* compares what arrives with Data and runs writeCertAndDoCommand, which   *)
(* renames two files into place; the process may stop, crash anywhere and  *)
(* start again from the files (ClientInit, loadSavedCert).                 *)
(*                                                                         *)
(* A certificate is a number, the same for its chain and its key; 0 is the *)
(* empty material of an entry that was never filled.  A server answers as  *)
(* handleCertReq does: with a subscriber it replies with what it has.      *)
(***************************************************************************)
EXTENDS Naturals

CONSTANTS
  RetryCount,  \* Config.Common.RetryCount
  MaxCert,     \* bound on the certificates issued
  None         \* no file, no update

ASSUME ConstantsAssumption ==
  RetryCount \in Nat /\ MaxCert \in Nat /\ None \notin Nat

VARIABLES
  standby,     \* whether a standby URL is configured (never changes)
  issued,      \* certificates issued so far, by any server
  serverCert,  \* what each server's entry holds
  subscribed,  \* the servers where an SDS stream subscribes to the entry
  certFile,    \* the saved chain, None without a file
  keyFile,     \* the saved key
  daemon,      \* the process: "down", "up", "stopping"
  data,        \* watchingCert.Data
  updateChan,  \* watchingCert.UpdateChan, which holds one
  poller,      \* httpPollingCert: where it is, the server asked, the attempt, the reply
  watcher,     \* watchUpdate with writeCertAndDoCommand
  existed,     \* whether both files were there before the save under way
  saved        \* the last save of this process: "none", "ok", "error"

servers == <<standby, issued, serverCert, subscribed>>
files == <<certFile, keyFile>>
saving == <<existed, saved>>
vars == <<servers, files, daemon, data, updateChan, poller, watcher, saving>>

Servers == {"main", "standby"}
Certs == 0 .. MaxCert
Pair(c, k) == [fullchain |-> c, key |-> k]
Zero == Pair(0, 0)
Polling(place, s, n) == [at |-> place, server |-> s, attempt |-> n, got |-> 0]
Idle == Polling("off", "main", 0)

TypeOK ==
  /\ standby \in BOOLEAN
  /\ issued \in Certs
  /\ serverCert \in [Servers -> Certs]
  /\ subscribed \subseteq Servers
  /\ certFile \in Certs \cup {None} /\ keyFile \in Certs \cup {None}
  /\ daemon \in {"down", "up", "stopping"}
  /\ data \in [fullchain : Certs, key : Certs]
  /\ updateChan \in Certs \cup {None}
  /\ poller \in [at : {"off", "request", "backoff", "put", "sleep"},
                 server : Servers, attempt : 0 .. RetryCount, got : Certs]
  /\ watcher \in {"off", "select", "prepare", "renameCert", "renameKey", "reload"}
  /\ existed \in BOOLEAN
  /\ saved \in {"none", "ok", "error"}

Init ==
  /\ standby \in BOOLEAN
  /\ issued = 0 /\ serverCert = [s \in Servers |-> 0] /\ subscribed = {}
  /\ certFile = None /\ keyFile = None
  /\ daemon = "down"
  /\ data = Zero /\ updateChan = None
  /\ poller = Idle /\ watcher = "off"
  /\ existed = FALSE /\ saved = "none"

-----------------------------------------------------------------------------
(* The servers: handleCertReq over the entry of the certificate *)

\* An SDS stream subscribes or leaves.
subscription(s) ==
  /\ subscribed' \in {subscribed \cup {s}, subscribed \ {s}} \ {subscribed}
  /\ UNCHANGED <<standby, issued, serverCert, files, daemon, data, updateChan, poller,
                 watcher, saving>>

renewed(s) ==
  /\ issued < MaxCert
  /\ issued' = issued + 1
  /\ serverCert' = [serverCert EXCEPT ![s] = issued + 1]
  /\ UNCHANGED <<standby, subscribed>>

\* The renewer of a subscribed entry.
renewal(s) ==
  /\ s \in subscribed
  /\ renewed(s)
  /\ UNCHANGED <<files, daemon, data, updateChan, poller, watcher, saving>>

\* The certificate of a reply: what the entry holds if somebody subscribes to it or it
\* is valid, a new one otherwise.
reply(s) ==
  \/ (s \in subscribed \/ serverCert[s] # 0) /\ UNCHANGED servers
  \/ s \notin subscribed /\ renewed(s)

-----------------------------------------------------------------------------
(* httpPollingCert, httpRequestCert and retry.Do *)

\* The certificate comes back.
answered ==
  /\ poller.at = "request" /\ daemon = "up"
  /\ reply(poller.server)
  /\ poller' = [Polling("put", "main", 0) EXCEPT !.got = serverCert'[poller.server]]
  /\ UNCHANGED <<files, daemon, data, updateChan, watcher, saving>>

\* The server refuses the domains (resp.Err).
refused ==
  /\ poller.at = "request" /\ daemon = "up"
  /\ poller' = Polling("sleep", "main", 0)
  /\ UNCHANGED <<servers, files, daemon, data, updateChan, watcher, saving>>

\* Slip: the poller ends when both servers fail.
NextServer_Quits ==
  IF poller.server = "main" /\ standby /\ daemon = "up"
  THEN Polling("request", "standby", 0)
  ELSE Idle

\* retry.Do has given up on one server: on to the standby, or to the next round.
NextServer ==
  IF poller.server = "main" /\ standby /\ daemon = "up"
  THEN Polling("request", "standby", 0)
  ELSE Polling("sleep", "main", 0)

\* Slip: an off-by-one in the budget.
AfterFailure_OneMore ==
  IF poller.attempt > RetryCount THEN NextServer
  ELSE Polling("backoff", poller.server, poller.attempt)

\* A failure that took its time is tried again within the budget.
AfterFailure ==
  IF poller.attempt >= RetryCount THEN NextServer
  ELSE Polling("backoff", poller.server, poller.attempt)

\* The request fails: quickly (also when rootCtx is done), or after a while.
failed ==
  /\ poller.at = "request"
  /\ poller' \in {NextServer, AfterFailure}
  /\ UNCHANGED <<servers, files, daemon, data, updateChan, watcher, saving>>

\* The interval between attempts is over, or rootCtx is done.
backoff ==
  /\ poller.at = "backoff"
  /\ \/ poller' = Polling("request", poller.server, poller.attempt + 1)
     \/ daemon = "stopping" /\ poller' = NextServer
  /\ UNCHANGED <<servers, files, daemon, data, updateChan, watcher, saving>>

\* Slip: the send on UpdateChan does not look at rootCtx.
put_NoCtx ==
  /\ poller.at = "put"
  /\ updateChan = None
  /\ updateChan' = poller.got
  /\ poller' = Polling("sleep", "main", 0)
  /\ UNCHANGED <<servers, files, daemon, data, watcher, saving>>

\* cert.UpdateChan <- certData, or rootCtx is done.
put ==
  /\ poller.at = "put"
  /\ \/ /\ updateChan = None
        /\ updateChan' = poller.got
        /\ poller' = Polling("sleep", "main", 0)
     \/ /\ daemon = "stopping"
        /\ poller' = Idle
        /\ UNCHANGED updateChan
  /\ UNCHANGED <<servers, files, daemon, data, watcher, saving>>

\* The timer of the round.
sleep ==
  /\ poller.at = "sleep"
  /\ poller' = Polling("request", "main", 0)
  /\ UNCHANGED <<servers, files, daemon, data, updateChan, watcher, saving>>

\* rootCtx, in the same select.
pollerStops ==
  /\ poller.at = "sleep" /\ daemon = "stopping"
  /\ poller' = Idle
  /\ UNCHANGED <<servers, files, daemon, data, updateChan, watcher, saving>>

httpPollingCert == answered \/ refused \/ failed \/ backoff \/ put \/ sleep \/ pollerStops

-----------------------------------------------------------------------------
(* watchUpdate and writeCertAndDoCommand *)

\* Slip: only the chains are compared.
Differs_ChainOnly(c) == data.fullchain # c

Differs(c) == data # Pair(c, c)

\* An update: when it differs, Data is replaced and the handler called.
watchUpdate ==
  /\ watcher = "select" /\ updateChan # None
  /\ updateChan' = None
  /\ IF Differs(updateChan)
     THEN data' = Pair(updateChan, updateChan) /\ watcher' = "prepare"
     ELSE UNCHANGED <<data, watcher>>
  /\ UNCHANGED <<servers, files, daemon, poller, saving>>

\* The save fails: files already renamed stay as they are, the error is logged.
saveFails ==
  /\ watcher \in {"prepare", "renameCert", "renameKey"}
  /\ watcher' = "select"
  /\ saved' = "error"
  /\ UNCHANGED <<servers, files, daemon, data, updateChan, poller, existed>>

\* ensureParentDir of both files, and both temporary files.
prepare ==
  /\ watcher = "prepare"
  /\ existed' = (certFile # None /\ keyFile # None)
  /\ watcher' = "renameCert"
  /\ UNCHANGED <<servers, files, daemon, data, updateChan, poller, saved>>

renameCert ==
  /\ watcher = "renameCert"
  /\ certFile' = data.fullchain
  /\ watcher' = "renameKey"
  /\ UNCHANGED <<servers, keyFile, daemon, data, updateChan, poller, saving>>

\* Slip: an error of the second rename is not looked at.
renameKey_IgnoresError ==
  /\ watcher = "renameKey"
  /\ keyFile' \in {keyFile, data.key}
  /\ watcher' = IF existed THEN "reload" ELSE "select"
  /\ saved' = "ok"
  /\ UNCHANGED <<servers, certFile, daemon, data, updateChan, poller, existed>>

\* The second rename; the reload command follows when both files were there before.
renameKey ==
  /\ watcher = "renameKey"
  /\ keyFile' = data.key
  /\ watcher' = IF existed THEN "reload" ELSE "select"
  /\ saved' = "ok"
  /\ UNCHANGED <<servers, certFile, daemon, data, updateChan, poller, existed>>

\* The reload command returns, if it does.
reload ==
  /\ watcher = "reload"
  /\ watcher' = "select"
  /\ UNCHANGED <<servers, files, daemon, data, updateChan, poller, saving>>

watcherStops ==
  /\ watcher = "select" /\ daemon = "stopping"
  /\ watcher' = "off"
  /\ UNCHANGED <<servers, files, daemon, data, updateChan, poller, saving>>

Watcher ==
  watchUpdate \/ saveFails \/ prepare \/ renameCert \/ renameKey \/ watcherStops

-----------------------------------------------------------------------------
(* The process *)

\* What ClientInit may seed Data with: both files, or, when one of them is missing or
\* cannot be read, nothing.  The error is dropped.
loadSavedCert ==
  {Zero} \cup {d \in {Pair(certFile, keyFile)} : certFile # None /\ keyFile # None}

\* ClientInit; HttpMain starts the watcher and the poller.
start ==
  /\ daemon = "down"
  /\ daemon' = "up"
  /\ data' \in loadSavedCert
  /\ updateChan' = None
  /\ poller' = Polling("request", "main", 0)
  /\ watcher' = "select"
  /\ existed' = FALSE /\ saved' = "none"
  /\ UNCHANGED <<servers, files>>

Stop ==
  /\ daemon = "up"
  /\ daemon' = "stopping"
  /\ UNCHANGED <<servers, files, data, updateChan, poller, watcher, saving>>

gone ==
  /\ daemon' = "down"
  /\ data' = Zero /\ updateChan' = None
  /\ poller' = Idle /\ watcher' = "off"
  /\ existed' = FALSE /\ saved' = "none"
  /\ UNCHANGED <<servers, files>>

\* HttpMain: rootCtx is done and wg.Wait returns.
HttpMain ==
  /\ daemon = "stopping" /\ poller.at = "off" /\ watcher = "off"
  /\ gone

crash ==
  /\ daemon # "down"
  /\ gone

-----------------------------------------------------------------------------
(* The specification *)

Next ==
  \/ \E s \in Servers : subscription(s) \/ renewal(s)
  \/ httpPollingCert \/ Watcher \/ reload
  \/ start \/ Stop \/ HttpMain \/ crash

Spec == Init /\ [][Next]_vars

\* The daemon's goroutines run and its timers fire, and the HTTP client's timeout ends a
\* request.  A select takes any of its ready cases, so a context that is done is seen in
\* the end.  No server need answer, and no reload command return.
FairSpec ==
  /\ Spec
  /\ WF_vars(httpPollingCert) /\ SF_vars(pollerStops)
  /\ WF_vars(Watcher) /\ WF_vars(HttpMain)

-----------------------------------------------------------------------------
(* Safety *)

\* Data, which watchUpdate compares updates with, claims nothing that is not on disk,
\* unless a save of this process failed.  After a save that succeeded both files hold
\* it, and they belong together.  Before the first save it holds the files as they are,
\* also a pair that a crash between two renames left, or nothing, when they could not
\* be loaded.
DiskMatchesMemory ==
  /\ watcher = "select" /\ saved = "ok" =>
       certFile = data.fullchain /\ keyFile = data.key /\ certFile = keyFile
  /\ watcher = "select" /\ saved = "none" =>
       data = Zero \/ (certFile = data.fullchain /\ keyFile = data.key)

\* watchUpdate passes over a certificate only when both files hold it: a pair that does
\* not match is replaced also when one half of it is current, and so are files that are
\* missing or could not be read.  Not so after a save that failed, for Data is then
\* ahead of the files, nor for the empty answer of FreshMaterial.
NotOnDiskIsSaved ==
  [][watchUpdate /\ updateChan # 0 /\ saved # "error"
       /\ ~(certFile = updateChan /\ keyFile = updateChan) => watcher' = "prepare"]_vars

-----------------------------------------------------------------------------
(* Liveness, under FairSpec *)

\* As long as the reload commands return, the main server is asked again and again,
\* whatever the servers answered before.
PollsForEver ==
  []<>(watcher # "reload") =>
    []<>(daemon # "up" \/ (poller.at = "request" /\ poller.server = "main"))

\* After Stop HttpMain returns, unless a reload command hangs.
StopReturns == daemon = "stopping" ~> (daemon = "down" \/ watcher = "reload")

-----------------------------------------------------------------------------
(* What comments say, and the code does not guarantee *)

\* Handlers run for fresh material ("invoked whenever a watched cert receives fresh
\* material"), never for the empty certificate.
FreshMaterial == watcher = "prepare" => data # Zero
=============================================================================
