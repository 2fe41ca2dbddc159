------------------------------ MODULE SdsStream ------------------------------
(***************************************************************************)
(* One SDS stream from end to end: MySDS.StreamSecrets and its handlers in *)
(* the server (pkg/server/sds.go), CertDXgRPCClient.Stream and its         *)
(* handlers in the client (pkg/client/sds.go), the connection between      *)
(* them, and the watchers that take what the client's handlers put into    *)
(* the UpdateChan of their certificate.                                    *)
(*                                                                         *)
(* Both ends have the same shape: a receiving and a sending goroutine and  *)
(* one handler per pack, on unbuffered channels (a step of two goroutines) *)
(* under one context; an errChan of one; and a call that waits for the     *)
(* context or an error.  Packs have distinct names.                        *)
(***************************************************************************)
EXTENDS Naturals, Sequences, FiniteSets

CONSTANTS
  Packs,       \* names of certificates
  None,        \* no pack
  MaxVersion,  \* bound on the renewals of an entry
  FaultPacks   \* bound on the packs of a stream that is refused, broken or stopped

ASSUME ConstantsAssumption ==
  IsFiniteSet(Packs) /\ None \notin Packs /\ MaxVersion \in Nat /\ FaultPacks \in Nat

VARIABLES
  watched,     \* the packs of the client's configuration (never changes)
  admitted,    \* whether the server's allow-list admits all of them (never changes)
  version,     \* of each pack's entry: renewals so far, 0 if it was never filled
  link,        \* the connection: "up", "stopping" once rootCtx is done, "down"
  done,        \* streamCtx of each end
  stream,      \* the call of each end: "off", "run", "failed" (an error in its
               \* errChan), "returned"
  wire,        \* the messages on their way to each end
  recv,        \* the receiving goroutine of each end and the message it holds
  send,        \* the sending goroutine of each end
  handler,     \* the handlers of each end and the version each one holds
  updateChan,  \* the UpdateChan of each watched certificate, 0 when empty
  applied      \* the version each watcher took last

ends == <<watched, admitted, version, link>>
calls == <<done, stream>>
watch == <<updateChan, applied>>
vars == <<ends, calls, wire, recv, send, handler, watch>>

Sides == {"client", "server"}
Msg == [pack : Packs \cup {None}, ver : 0 .. MaxVersion]
Open == [pack |-> None, ver |-> 0]   \* the first request, for all packs
At(place, m) == [at |-> place, pack |-> m.pack, ver |-> m.ver]
Off == At("off", Open)
Receiving == [at : {"off", "recv", "deliver"},
              pack : Packs \cup {None}, ver : 0 .. MaxVersion]

\* At most one offer and one acknowledgement per pack are on their way.
TypeOK ==
  /\ watched \subseteq Packs
  /\ admitted \in BOOLEAN
  /\ version \in [Packs -> 0 .. MaxVersion]
  /\ link \in {"up", "stopping", "down"}
  /\ done \in [Sides -> BOOLEAN]
  /\ stream \in [Sides -> {"off", "run", "failed", "returned"}]
  /\ \A s \in Sides :
       /\ \A i \in DOMAIN wire[s] : wire[s][i] \in Msg
       /\ Len(wire[s]) <= Cardinality(Packs)
  /\ recv \in [Sides -> Receiving]
  /\ send \in [Sides -> {"off", "open", "select", "err"}]
  /\ handler \in [Sides -> [Packs ->
       [at : {"off", "wait", "offer", "ack", "select", "put"}, ver : 0 .. MaxVersion]]]
  /\ updateChan \in [Packs -> 0 .. MaxVersion]
  /\ applied \in [Packs -> 0 .. MaxVersion]

MayFail == Cardinality(watched) <= FaultPacks

Init ==
  /\ watched \in (SUBSET Packs) \ {{}}
  /\ admitted \in BOOLEAN
  /\ admitted \/ MayFail
  /\ version = [p \in Packs |-> 0]
  /\ link = "up"
  /\ done = [s \in Sides |-> FALSE]
  /\ stream = [s \in Sides |-> "off"]
  /\ wire = [s \in Sides |-> <<>>]
  /\ recv = [s \in Sides |-> Off]
  /\ send = [s \in Sides |-> "off"]
  /\ handler = [s \in Sides |-> [p \in Packs |-> [at |-> "off", ver |-> 0]]]
  /\ updateChan = [p \in Packs |-> 0]
  /\ applied = [p \in Packs |-> 0]

-----------------------------------------------------------------------------
(* The environment *)

\* What gRPC sees from each end: the transport is gone, or a call has ended.  Messages
\* still on their way are then lost: one that is read all the same could as well have
\* been read just before.
Ended ==
  link = "down" \/ done["client"] \/ \E s \in Sides : stream[s] = "returned"
NoWire == [s \in Sides |-> <<>>]

\* A renewal of the entry of p, which a subscribed handler sees.
issue(p) ==
  /\ p \in watched /\ version[p] < MaxVersion /\ ~Ended
  /\ version' = [version EXCEPT ![p] = @ + 1]
  /\ UNCHANGED <<watched, admitted, link, calls, wire, recv, send, handler, watch>>

breakLink ==
  /\ link = "up" /\ stream["client"] # "off" /\ MayFail
  /\ link' = "down" /\ wire' = NoWire
  /\ UNCHANGED <<watched, admitted, version, calls, recv, send, handler, watch>>

\* Stop of the server.
stopServer ==
  /\ link = "up" /\ MayFail
  /\ link' = "stopping"
  /\ UNCHANGED <<watched, admitted, version, calls, wire, recv, send, handler, watch>>

\* The goroutine of SDSSrv that waits for rootCtx: grpcServer.Stop.
SDSSrv ==
  /\ link = "stopping"
  /\ link' = "down" /\ wire' = NoWire
  /\ UNCHANGED <<watched, admitted, version, calls, recv, send, handler, watch>>

\* Stop of the client daemon, or Kill: cancels streamCtx itself.
Kill ==
  /\ stream["client"] \in {"run", "failed"} /\ ~done["client"] /\ MayFail
  /\ done' = [done EXCEPT !["client"] = TRUE] /\ wire' = NoWire
  /\ UNCHANGED <<ends, stream, recv, send, handler, watch>>

\* The server's streamCtx: its goroutine sees rootCtx, or gRPC the end of the stream.
ctxFires ==
  /\ stream["server"] \in {"run", "failed"} /\ ~done["server"]
  /\ link = "stopping" \/ Ended
  /\ done' = [done EXCEPT !["server"] = TRUE]
  /\ UNCHANGED <<ends, stream, wire, recv, send, handler, watch>>

-----------------------------------------------------------------------------
(* The two calls *)

\* Stream: the receiving and the sending goroutine, and a handler per certificate.
Stream ==
  /\ stream["client"] = "off"
  /\ stream' = [stream EXCEPT !["client"] = "run"]
  /\ recv' = [recv EXCEPT !["client"] = At("recv", Open)]
  /\ send' = [send EXCEPT !["client"] = "open"]
  /\ handler' = [handler EXCEPT !["client"] =
       [p \in Packs |-> [at |-> IF p \in watched THEN "select" ELSE "off", ver |-> 0]]]
  /\ UNCHANGED <<ends, done, wire, watch>>

\* NewClient or the StreamSecrets call fails, and Stream returns at once.
streamFails ==
  /\ stream["client"] = "off"
  /\ stream' = [stream EXCEPT !["client"] = "returned"]
  /\ done' = [done EXCEPT !["client"] = TRUE]
  /\ UNCHANGED <<ends, wire, recv, send, handler, watch>>

\* StreamSecrets, when the client's call arrives.
StreamSecrets ==
  /\ stream["server"] = "off" /\ stream["client"] = "run"
  /\ link = "up" /\ ~done["client"]
  /\ stream' = [stream EXCEPT !["server"] = "run"]
  /\ recv' = [recv EXCEPT !["server"] = At("recv", Open)]
  /\ send' = [send EXCEPT !["server"] = "select"]
  /\ UNCHANGED <<ends, done, wire, handler, watch>>

\* The select both calls end with; the deferred cancel follows.
streamReturns(s) ==
  /\ stream[s] = "failed" \/ (stream[s] = "run" /\ done[s])
  /\ stream' = [stream EXCEPT ![s] = "returned"]
  /\ done' = [done EXCEPT ![s] = TRUE]
  /\ wire' = NoWire
  /\ UNCHANGED <<ends, recv, send, handler, watch>>

\* Slip: the send on errChan does not look at the context.
sendStreamErr_NoCtx(s) ==
  /\ stream[s] = "run"
  /\ stream' = [stream EXCEPT ![s] = "failed"]

\* sendStreamErr: the error goes into errChan, which holds one, or the context is done.
sendStreamErr(s) ==
  \/ stream[s] = "run" /\ stream' = [stream EXCEPT ![s] = "failed"]
  \/ done[s] /\ UNCHANGED stream

-----------------------------------------------------------------------------
(* The sending goroutines *)

\* Send of message m from end s.  When the stream has ended it fails, or succeeds if
\* only into a buffer.
Send(s, m) ==
  \/ /\ send' = [send EXCEPT ![s] = "select"]
     /\ LET peer == CHOOSE t \in Sides : t # s
        IN wire' = [wire EXCEPT ![peer] = IF Ended THEN @ ELSE Append(@, m)]
  \/ /\ Ended
     /\ send' = [send EXCEPT ![s] = "err"]
     /\ UNCHANGED wire

\* The client's first request.
sendOpen ==
  /\ send["client"] = "open"
  /\ Send("client", Open)
  /\ UNCHANGED <<ends, calls, recv, handler, watch>>

\* Send has failed, or the context is done.
sendExits(s) ==
  /\ \/ send[s] = "err" /\ sendStreamErr(s)
     \/ send[s] = "select" /\ done[s] /\ UNCHANGED stream
  /\ send' = [send EXCEPT ![s] = "off"]
  /\ UNCHANGED <<ends, done, wire, recv, handler, watch>>

-----------------------------------------------------------------------------
(* The receiving goroutines *)

\* The server takes the first request: a handler for every pack, or an error if the
\* allow-list refuses one of them.
recvOpen ==
  /\ recv["server"].at = "recv" /\ wire["server"] # <<>> /\ Head(wire["server"]) = Open
  /\ wire' = [wire EXCEPT !["server"] = Tail(@)]
  /\ IF admitted
     THEN /\ handler' = [handler EXCEPT !["server"] =
               [p \in Packs |-> [at |-> IF p \in watched THEN "wait" ELSE "off", ver |-> 0]]]
          /\ UNCHANGED <<recv, stream>>
     ELSE /\ sendStreamErr("server")
          /\ recv' = [recv EXCEPT !["server"] = Off]
          /\ UNCHANGED handler
  /\ UNCHANGED <<ends, done, send, watch>>

\* An offer at the client, or an acknowledgement at the server, for the handler of
\* its pack.
recvMsg(s) ==
  /\ recv[s].at = "recv" /\ wire[s] # <<>> /\ Head(wire[s]) # Open
  /\ wire' = [wire EXCEPT ![s] = Tail(@)]
  /\ recv' = [recv EXCEPT ![s] = At("deliver", Head(wire[s]))]
  /\ UNCHANGED <<ends, calls, send, handler, watch>>

\* Recv fails; or the context is done at the top of the loop, or while the handler of
\* the pack is not ready.
recvExits(s) ==
  /\ \/ recv[s].at = "recv" /\ Ended /\ sendStreamErr(s)
     \/ recv[s].at \in {"recv", "deliver"} /\ done[s] /\ UNCHANGED stream
  /\ recv' = [recv EXCEPT ![s] = Off]
  /\ UNCHANGED <<ends, done, wire, send, handler, watch>>

-----------------------------------------------------------------------------
(* handleCert of the server *)

\* Slip: the handler wakes before the renewal is published.
offerWait_Early(p) ==
  /\ handler["server"][p].at = "wait" /\ version[p] < MaxVersion
  /\ handler' = [handler EXCEPT !["server"][p] = [at |-> "offer", ver |-> version[p] + 1]]
  /\ UNCHANGED <<ends, calls, wire, recv, send, watch>>

\* Snapshot and WaitForUpdate: on to a certificate newer than the one seen.
offerWait(p) ==
  /\ handler["server"][p].at = "wait" /\ version[p] > handler["server"][p].ver
  /\ handler' = [handler EXCEPT !["server"][p] = [at |-> "offer", ver |-> version[p]]]
  /\ UNCHANGED <<ends, calls, wire, recv, send, watch>>

\* Slip: the next certificate is offered without waiting for the acknowledgement.
offer_NoAck(p) ==
  /\ handler["server"][p].at = "offer" /\ send["server"] = "select"
  /\ handler' = [handler EXCEPT !["server"][p].at = "wait"]
  /\ Send("server", [pack |-> p, ver |-> handler["server"][p].ver])
  /\ UNCHANGED <<ends, calls, recv, watch>>

\* resp <- response: the sending goroutine takes the offer and sends it.
offer(p) ==
  /\ handler["server"][p].at = "offer" /\ send["server"] = "select"
  /\ handler' = [handler EXCEPT !["server"][p].at = "ack"]
  /\ Send("server", [pack |-> p, ver |-> handler["server"][p].ver])
  /\ UNCHANGED <<ends, calls, recv, watch>>

\* ack := <-req: the receiving goroutine hands over the acknowledgement.
takeAck(p) ==
  /\ handler["server"][p].at = "ack"
  /\ recv["server"].at = "deliver" /\ recv["server"].pack = p
  /\ handler' = [handler EXCEPT !["server"][p].at = "wait"]
  /\ recv' = [recv EXCEPT !["server"] = At("recv", Open)]
  /\ UNCHANGED <<ends, calls, wire, send, watch>>

-----------------------------------------------------------------------------
(* handleCert of the client *)

\* Slip: the offer is acknowledged before the update is put.
takeOffer_AckFirst(p) ==
  /\ handler["client"][p].at = "select"
  /\ recv["client"].at = "deliver" /\ recv["client"].pack = p
  /\ handler' = [handler EXCEPT !["client"][p] = [at |-> "put", ver |-> recv["client"].ver]]
  /\ wire' = [wire EXCEPT !["server"] = Append(@, [pack |-> p, ver |-> recv["client"].ver])]
  /\ recv' = [recv EXCEPT !["client"] = At("recv", Open)]
  /\ UNCHANGED <<ends, calls, send, watch>>

\* resp: the receiving goroutine hands over the offer.
takeOffer(p) ==
  /\ handler["client"][p].at = "select"
  /\ recv["client"].at = "deliver" /\ recv["client"].pack = p
  /\ handler' = [handler EXCEPT !["client"][p] = [at |-> "put", ver |-> recv["client"].ver]]
  /\ recv' = [recv EXCEPT !["client"] = At("recv", Open)]
  /\ UNCHANGED <<ends, calls, wire, send, watch>>

\* Slip: the update is not acknowledged.
putUpdate_NoAck(p) ==
  /\ handler["client"][p].at = "put" /\ updateChan[p] = 0
  /\ updateChan' = [updateChan EXCEPT ![p] = handler["client"][p].ver]
  /\ handler' = [handler EXCEPT !["client"][p].at = "select"]
  /\ UNCHANGED <<ends, calls, wire, recv, send, applied>>

\* cert.UpdateChan <- certData, which has room for one.
putUpdate(p) ==
  /\ handler["client"][p].at = "put" /\ updateChan[p] = 0
  /\ updateChan' = [updateChan EXCEPT ![p] = handler["client"][p].ver]
  /\ handler' = [handler EXCEPT !["client"][p].at = "ack"]
  /\ UNCHANGED <<ends, calls, wire, recv, send, applied>>

\* ack <- request: the sending goroutine takes the acknowledgement and sends it.
sendAck(p) ==
  /\ handler["client"][p].at = "ack" /\ send["client"] = "select"
  /\ handler' = [handler EXCEPT !["client"][p] = [at |-> "select", ver |-> 0]]
  /\ Send("client", [pack |-> p, ver |-> handler["client"][p].ver])
  /\ UNCHANGED <<ends, calls, recv, watch>>

\* Every select of a handler has a case for the context.
handlerExits(s, p) ==
  /\ handler[s][p].at # "off" /\ done[s]
  /\ handler' = [handler EXCEPT ![s][p] = [at |-> "off", ver |-> 0]]
  /\ UNCHANGED <<ends, calls, wire, recv, send, watch>>

-----------------------------------------------------------------------------
(* The watcher of a certificate *)

\* watchUpdate takes an update and runs its handlers; while they run, perhaps for ever,
\* it takes no other.
takeUpdate(p) ==
  /\ updateChan[p] # 0
  /\ applied' = [applied EXCEPT ![p] = updateChan[p]]
  /\ updateChan' = [updateChan EXCEPT ![p] = 0]
  /\ UNCHANGED <<ends, calls, wire, recv, send, handler>>

-----------------------------------------------------------------------------
(* The specification *)

Receiver(s) ==
  \/ s = "server" /\ recvOpen
  \/ recvMsg(s) \/ recvExits(s)
Sender(s) ==
  \/ s = "client" /\ sendOpen
  \/ sendExits(s)
ServerHandler(p) ==
  offerWait(p) \/ offer(p) \/ takeAck(p) \/ handlerExits("server", p)
ClientHandler(p) ==
  takeOffer(p) \/ putUpdate(p) \/ sendAck(p) \/ handlerExits("client", p)

\* The steps of the code of both ends and of gRPC.
Goroutines ==
  \/ SDSSrv \/ ctxFires \/ StreamSecrets
  \/ \E s \in Sides : streamReturns(s) \/ Receiver(s) \/ Sender(s)
  \/ \E p \in Packs : ServerHandler(p) \/ ClientHandler(p)

Next ==
  \/ Goroutines
  \/ breakLink \/ stopServer \/ Kill \/ Stream \/ streamFails
  \/ \E p \in Packs : issue(p) \/ takeUpdate(p)

Spec == Init /\ [][Next]_vars

\* Goroutines that can run do.  Between two steps of the environment they take finitely
\* many, so it is enough that some goroutine runs.  Nothing is assumed of the
\* environment, not even that a watcher comes back for the next update.
FairSpec == Spec /\ WF_vars(Goroutines)

-----------------------------------------------------------------------------
(* Safety *)

\* What the watcher of p has, or will take next.
Latest(p) == IF updateChan[p] # 0 THEN updateChan[p] ELSE applied[p]

\* What the server's receiving goroutine brings is the acknowledgement of the version
\* its handler has offered and waits for: handleCert never comes to the branch for a
\* rejected version, which reads the ErrorDetail this client leaves nil.  And it is the
\* version the client put last: an update is acknowledged after it was handed to its
\* watcher, so one the server counts as delivered is not lost when the stream ends.
AckMatchesOffer ==
  recv["server"].at = "deliver" =>
    LET p == recv["server"].pack
        h == handler["server"][p]
    IN /\ (h.at = "ack" /\ h.ver = recv["server"].ver) \/ done["server"]
       /\ recv["server"].ver = Latest(p)

\* The client's receiving goroutine, which serves all packs, never waits for a handler
\* that waits for its watcher: the next offer of a pack comes after its acknowledgement,
\* and that after the update was put.
NoHeadOfLine ==
  recv["client"].at = "deliver" =>
    handler["client"][recv["client"].pack].at = "select" \/ done["client"]

Feed == INSTANCE CertFeed WITH issued <- version, applied <- applied

\* Watchers take issued certificates only, each newer than the one before.
ImplementsFeed == Feed!Spec

-----------------------------------------------------------------------------
(* Liveness, under FairSpec *)

\* A certificate of pack p reaches its watcher, or a newer one does, unless the stream
\* ends or is refused, if p's own watcher comes back: those of other packs may hang.
IssueReachesWatcher ==
  \A p \in Packs :
    []<>(updateChan[p] = 0) =>
      \A v \in 1 .. MaxVersion :
        (stream["client"] = "run" /\ version[p] = v) ~> (applied[p] >= v \/ Ended)

\* When the connection breaks or a side stops, every goroutine of both ends returns,
\* whatever each is waiting for and however many of them have an error to report.
StreamsEnd ==
  (Ended \/ done["server"]) ~>
    \A s \in Sides :
      /\ stream[s] \in {"off", "returned"} /\ recv[s].at = "off" /\ send[s] = "off"
      /\ \A p \in Packs : handler[s][p].at = "off"
=============================================================================
