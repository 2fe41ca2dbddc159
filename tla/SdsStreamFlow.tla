---------------------------- MODULE SdsStreamFlow ----------------------------
(***************************************************************************)
(* The way of an offer and of its acknowledgement over an SDS stream: what *)
(* is said of it (FlowInv), and that the start of the stream, the          *)
(* receiving goroutines and the server's handlers keep it.                 *)
(***************************************************************************)
EXTENDS SdsStream, Integers, Functions, TLAPS

-----------------------------------------------------------------------------
(* Types *)

Handler == [at : {"off", "wait", "offer", "ack", "select", "put"}, ver : 0 .. MaxVersion]

\* TypeOK without its bound on the length of the wires.
Typed ==
  /\ watched \subseteq Packs
  /\ version \in [Packs -> 0 .. MaxVersion]
  /\ done \in [Sides -> BOOLEAN]
  /\ stream \in [Sides -> {"off", "run", "failed", "returned"}]
  /\ wire \in [Sides -> Seq(Msg)]
  /\ recv \in [Sides -> Receiving]
  /\ send \in [Sides -> {"off", "open", "select", "err"}]
  /\ handler \in [Sides -> [Packs -> Handler]]
  /\ updateChan \in [Packs -> 0 .. MaxVersion]
  /\ applied \in [Packs -> 0 .. MaxVersion]

\* The messages on their way to end s.
Msgs(s) == {wire[s][i] : i \in DOMAIN wire[s]}

(***************************************************************************)
(* The first request, and the places of the receiving goroutines.          *)
(***************************************************************************)
LEMMA Records ==
  /\ Open \in Msg /\ Off \in Receiving /\ At("recv", Open) \in Receiving
  /\ \A m \in Msg : At("deliver", m) \in Receiving
  /\ [at |-> "off", ver |-> 0] \in Handler /\ [at |-> "select", ver |-> 0] \in Handler
  /\ [at |-> "wait", ver |-> 0] \in Handler
  /\ NoWire \in [Sides -> Seq(Msg)]
<1>1. 0 \in 0 .. MaxVersion
  BY ConstantsAssumption
<1>2. <<>> \in Seq(Msg)
  OBVIOUS
<1> QED BY <1>1, <1>2 DEF Open, Msg, Off, At, Receiving, Handler, NoWire

(***************************************************************************)
(* A handler moves; all others stay.                                       *)
(***************************************************************************)
LEMMA HandlerTo ==
  ASSUME Typed, NEW s \in Sides, NEW p \in Packs, NEW h \in Handler,
         handler' = [handler EXCEPT ![s][p] = h]
  PROVE  /\ handler' \in [Sides -> [Packs -> Handler]]
         /\ handler'[s][p] = h
         /\ \A t \in Sides, q \in Packs :
              t # s \/ q # p => handler'[t][q] = handler[t][q]
<1>1. handler \in [Sides -> [Packs -> Handler]]
  BY DEF Typed
<1> QED BY <1>1

(***************************************************************************)
(* A handler moves and keeps its version.                                  *)
(***************************************************************************)
LEMMA HandlerAt ==
  ASSUME Typed, NEW s \in Sides, NEW p \in Packs,
         NEW a \in {"off", "wait", "offer", "ack", "select", "put"},
         handler' = [handler EXCEPT ![s][p].at = a]
  PROVE  /\ handler' \in [Sides -> [Packs -> Handler]]
         /\ handler'[s][p].at = a /\ handler'[s][p].ver = handler[s][p].ver
         /\ \A t \in Sides, q \in Packs :
              t # s \/ q # p => handler'[t][q] = handler[t][q]
<1>1. handler[s][p] \in Handler
  BY DEF Typed
<1> DEFINE h == [handler[s][p] EXCEPT !.at = a]
<1>2. h \in Handler /\ h.at = a /\ h.ver = handler[s][p].ver
  BY <1>1 DEF Handler
<1>3. handler' = [handler EXCEPT ![s][p] = h]
  OBVIOUS
<1> HIDE DEF h
<1>4. /\ handler' \in [Sides -> [Packs -> Handler]] /\ handler'[s][p] = h
      /\ \A t \in Sides, q \in Packs : t # s \/ q # p => handler'[t][q] = handler[t][q]
  <2>1. handler \in [Sides -> [Packs -> Handler]]
    BY DEF Typed
  <2> QED BY <1>2, <1>3, <2>1
<1> QED BY <1>2, <1>4

(***************************************************************************)
(* Send adds the message to what is on its way to the other end, or        *)
(* changes nothing there.                                                  *)
(***************************************************************************)
LEMMA SendWire ==
  ASSUME Typed, NEW s \in Sides, NEW t \in Sides, s # t, NEW m \in Msg, Send(s, m)
  PROVE  /\ wire' \in [Sides -> Seq(Msg)]
         /\ send' \in [Sides -> {"off", "open", "select", "err"}]
         /\ send'[s] \in {"select", "err"} /\ send'[t] = send[t]
         /\ wire'[s] = wire[s]
         /\ wire'[t] = wire[t] \/ (wire'[t] = Append(wire[t], m) /\ ~Ended)
<1>1. (CHOOSE u \in Sides : u # s) = t
  BY DEF Sides
<1>2. wire[t] \in Seq(Msg) /\ Append(wire[t], m) \in Seq(Msg)
  BY DEF Typed
<1>3. \/ wire' = [wire EXCEPT ![t] = IF Ended THEN @ ELSE Append(@, m)]
      \/ wire' = wire
  BY Zenon, <1>1 DEF Send
<1>4. wire \in [Sides -> Seq(Msg)] /\ send \in [Sides -> {"off", "open", "select", "err"}]
  BY DEF Typed
<1>5. send' = [send EXCEPT ![s] = "select"] \/ send' = [send EXCEPT ![s] = "err"]
  BY DEF Send
<1>6. /\ wire' \in [Sides -> Seq(Msg)] /\ wire'[s] = wire[s]
      /\ wire'[t] = wire[t] \/ (wire'[t] = Append(wire[t], m) /\ ~Ended)
  BY Zenon, <1>2, <1>3, <1>4
<1>7. /\ send' \in [Sides -> {"off", "open", "select", "err"}]
      /\ send'[s] \in {"select", "err"} /\ send'[t] = send[t]
  BY Zenon, <1>4, <1>5
<1> QED BY <1>6, <1>7

(***************************************************************************)
(* A receiving goroutine takes the first message.                          *)
(***************************************************************************)
LEMMA RecvWire ==
  ASSUME Typed, NEW s \in Sides, wire[s] # <<>>, wire' = [wire EXCEPT ![s] = Tail(@)]
  PROVE  /\ wire' \in [Sides -> Seq(Msg)] /\ wire'[s] = Tail(wire[s])
         /\ \A t \in Sides : t # s => wire'[t] = wire[t]
         /\ Head(wire[s]) \in Msg
<1>1. wire \in [Sides -> Seq(Msg)] /\ wire[s] \in Seq(Msg)
  BY DEF Typed
<1>2. Tail(wire[s]) \in Seq(Msg) /\ Head(wire[s]) \in Msg
  BY <1>1
<1> QED BY <1>1, <1>2

(***************************************************************************)
(* Every step keeps the types.                                             *)
(***************************************************************************)
LEMMA TypedStep == Typed /\ [Next]_vars => Typed'
<1> SUFFICES ASSUME Typed, [Next]_vars PROVE Typed'
  OBVIOUS
<1> USE DEF ends, calls, watch
<1>0. "client" \in Sides /\ "server" \in Sides
  BY DEF Sides
<1>1. ASSUME NEW p \in Packs, issue(p) PROVE Typed'
  BY <1>1, ConstantsAssumption DEF Typed, issue
<1>2. CASE breakLink \/ stopServer \/ SDSSrv \/ Kill \/ ctxFires
  BY Zenon, <1>2, Records DEF Typed, breakLink, stopServer, SDSSrv, Kill, ctxFires
<1>3. CASE Stream
  <2>1. handler' \in [Sides -> [Packs -> Handler]]
    BY <1>0, <1>3, Records DEF Typed, Stream
  <2> QED BY <1>0, <1>3, <2>1, Records DEF Typed, Stream
<1>4. CASE streamFails
  BY <1>0, <1>4 DEF Typed, streamFails
<1>5. CASE StreamSecrets
  BY <1>0, <1>5, Records DEF Typed, StreamSecrets
<1>6. ASSUME NEW s \in Sides, streamReturns(s) PROVE Typed'
  BY Zenon, <1>6, Records DEF Typed, streamReturns
<1>7. ASSUME NEW s \in Sides, sendStreamErr(s)
      PROVE  stream' \in [Sides -> {"off", "run", "failed", "returned"}]
  BY Zenon, <1>7 DEF Typed, sendStreamErr
<1>8. CASE sendOpen
  BY Zenon, <1>0, <1>8, SendWire, Records DEF Typed, sendOpen
<1>9. ASSUME NEW s \in Sides, sendExits(s) PROVE Typed'
  <2>1. stream' \in [Sides -> {"off", "run", "failed", "returned"}]
    BY <1>7, <1>9 DEF Typed, sendExits
  <2> QED BY Zenon, <1>9, <2>1 DEF Typed, sendExits
<1>10. CASE recvOpen
  <2>1. wire' \in [Sides -> Seq(Msg)]
    BY Zenon, <1>0, <1>10, RecvWire DEF recvOpen
  <2>2. /\ stream' \in [Sides -> {"off", "run", "failed", "returned"}]
        /\ recv' \in [Sides -> Receiving]
    BY Zenon, <1>0, <1>7, <1>10, Records DEF Typed, recvOpen
  <2>3. handler' \in [Sides -> [Packs -> Handler]]
    <3> DEFINE hs == [p \in Packs |-> [at |-> IF p \in watched THEN "wait" ELSE "off", ver |-> 0]]
    <3>1. hs \in [Packs -> Handler]
      BY Records
    <3>2. handler' = [handler EXCEPT !["server"] = hs] \/ handler' = handler
      BY <1>10 DEF recvOpen
    <3> HIDE DEF hs
    <3> QED BY Zenon, <1>0, <3>1, <3>2 DEF Typed
  <2> QED BY <1>10, <2>1, <2>2, <2>3 DEF Typed, recvOpen
<1>11. ASSUME NEW s \in Sides, recvMsg(s) PROVE Typed'
  <2>1. wire' \in [Sides -> Seq(Msg)] /\ Head(wire[s]) \in Msg
    BY Zenon, <1>11, RecvWire DEF recvMsg
  <2>2. recv' \in [Sides -> Receiving]
    BY <1>11, <2>1, Records DEF Typed, recvMsg
  <2> QED BY <1>11, <2>1, <2>2 DEF Typed, recvMsg
<1>12. ASSUME NEW s \in Sides, recvExits(s) PROVE Typed'
  <2>1. stream' \in [Sides -> {"off", "run", "failed", "returned"}]
    BY <1>7, <1>12 DEF Typed, recvExits
  <2> QED BY Zenon, <1>12, <2>1, Records DEF Typed, recvExits
<1>13. ASSUME NEW p \in Packs, offerWait(p) PROVE Typed'
  <2>1. [at |-> "offer", ver |-> version[p]] \in Handler
    BY DEF Typed, Handler
  <2>2. handler' \in [Sides -> [Packs -> Handler]]
    BY Zenon, <1>0, <1>13, <2>1, HandlerTo DEF offerWait
  <2> QED BY <1>13, <2>2 DEF Typed, offerWait
<1>14. ASSUME NEW s \in Sides, NEW p \in Packs
       PROVE  [pack |-> p, ver |-> handler[s][p].ver] \in Msg
  <2>1. handler[s][p] \in Handler
    BY DEF Typed
  <2> QED BY <2>1 DEF Handler, Msg
<1>15. ASSUME NEW p \in Packs, offer(p) PROVE Typed'
  <2>1. handler' \in [Sides -> [Packs -> Handler]]
    BY Zenon, <1>0, <1>15, HandlerAt DEF offer
  <2>2. wire' \in [Sides -> Seq(Msg)] /\ send' \in [Sides -> {"off", "open", "select", "err"}]
    BY <1>0, <1>14, <1>15, SendWire DEF offer
  <2> QED BY <1>15, <2>1, <2>2 DEF Typed, offer
<1>16. ASSUME NEW p \in Packs, takeAck(p) PROVE Typed'
  <2>1. handler' \in [Sides -> [Packs -> Handler]]
    BY Zenon, <1>0, <1>16, HandlerAt DEF takeAck
  <2> QED BY Zenon, <1>0, <1>16, <2>1, Records DEF Typed, takeAck
<1>17. ASSUME NEW p \in Packs, takeOffer(p) PROVE Typed'
  <2>1. recv["client"] \in Receiving
    BY <1>0 DEF Typed
  <2>2. [at |-> "put", ver |-> recv["client"].ver] \in Handler
    BY <2>1 DEF Receiving, Handler
  <2>3. handler' \in [Sides -> [Packs -> Handler]]
    BY Zenon, <1>0, <1>17, <2>2, HandlerTo DEF takeOffer
  <2> QED BY Zenon, <1>0, <1>17, <2>3, Records DEF Typed, takeOffer
<1>18. ASSUME NEW p \in Packs, putUpdate(p) PROVE Typed'
  <2>1. handler' \in [Sides -> [Packs -> Handler]]
    BY Zenon, <1>0, <1>18, HandlerAt DEF putUpdate
  <2>2. handler["client"][p] \in Handler
    BY <1>0 DEF Typed
  <2>3. updateChan' \in [Packs -> 0 .. MaxVersion]
    BY <1>18, <2>2 DEF Typed, putUpdate, Handler
  <2> QED BY <1>18, <2>1, <2>3 DEF Typed, putUpdate
<1>19. ASSUME NEW p \in Packs, sendAck(p) PROVE Typed'
  <2>1. handler' \in [Sides -> [Packs -> Handler]]
    BY Zenon, <1>0, <1>19, HandlerTo, Records DEF sendAck
  <2>2. wire' \in [Sides -> Seq(Msg)] /\ send' \in [Sides -> {"off", "open", "select", "err"}]
    BY <1>0, <1>14, <1>19, SendWire DEF sendAck
  <2> QED BY Zenon, <1>19, <2>1, <2>2 DEF Typed, sendAck
<1>20. ASSUME NEW s \in Sides, NEW p \in Packs, handlerExits(s, p) PROVE Typed'
  <2>1. handler' \in [Sides -> [Packs -> Handler]]
    BY Zenon, <1>20, HandlerTo, Records DEF handlerExits
  <2> QED BY <1>20, <2>1 DEF Typed, handlerExits
<1>21. ASSUME NEW p \in Packs, takeUpdate(p) PROVE Typed'
  BY <1>21, ConstantsAssumption DEF Typed, takeUpdate
<1>22. CASE UNCHANGED vars
  BY <1>22 DEF Typed, vars
<1> QED
  BY <1>0, <1>1, <1>2, <1>3, <1>4, <1>5, <1>6, <1>8, <1>9, <1>10, <1>11, <1>12, <1>13,
     <1>15, <1>16, <1>17, <1>18, <1>19, <1>20, <1>21, <1>22
     DEF Next, Goroutines, Receiver, Sender, ServerHandler, ClientHandler

-----------------------------------------------------------------------------
(* The way of an offer and its acknowledgement *)

On(s, p) == \E m \in Msgs(s) : m.pack = p
Held(s, p) == recv[s].at = "deliver" /\ recv[s].pack = p
Busy(p) == handler["client"][p].at \in {"put", "ack"}

\* The offer of pack p, or its acknowledgement, is on its way.
Token(p) ==
  \/ On("client", p) \/ Held("client", p) \/ Busy(p)
  \/ On("server", p) \/ Held("server", p)

\* It is in one place only.
Alone(p) ==
  /\ On("client", p) =>
       ~Held("client", p) /\ ~Busy(p) /\ ~On("server", p) /\ ~Held("server", p)
  /\ Held("client", p) => ~Busy(p) /\ ~On("server", p) /\ ~Held("server", p)
  /\ Busy(p) => ~On("server", p) /\ ~Held("server", p)
  /\ On("server", p) => ~Held("server", p)

\* The server's handler waits for it, or has exited.
Owed(p) ==
  /\ Token(p) => \/ handler["server"][p].at = "ack"
                 \/ handler["server"][p].at = "off" /\ done["server"]
  /\ Token(p) \/ handler["server"][p].at # "off" => p \in watched

\* It has the version the server's handler offered.
Same(p) ==
  handler["server"][p].at = "ack" =>
    /\ \A s \in Sides : \A m \in Msgs(s) : m.pack = p => m.ver = handler["server"][p].ver
    /\ \A s \in Sides : Held(s, p) => recv[s].ver = handler["server"][p].ver
    /\ Busy(p) => handler["client"][p].ver = handler["server"][p].ver

Newer(p, v) == applied[p] < v /\ updateChan[p] < v /\ v <= version[p]

\* Until it is put, an offer is newer than what the watcher has or will take next.
Rising(p) ==
  /\ \A m \in Msgs("client") : m.pack = p => Newer(p, m.ver)
  /\ Held("client", p) => Newer(p, recv["client"].ver)
  /\ handler["client"][p].at = "put" => Newer(p, handler["client"][p].ver)
  /\ handler["server"][p].at = "offer" => Newer(p, handler["server"][p].ver)
  /\ handler["server"][p].at \in {"wait", "ack"} =>
       /\ applied[p] <= handler["server"][p].ver /\ updateChan[p] <= handler["server"][p].ver
       /\ handler["server"][p].ver <= version[p]
  /\ updateChan[p] # 0 => applied[p] < updateChan[p]
  /\ applied[p] <= version[p] /\ updateChan[p] <= version[p]

\* The client's handlers run until its context is done.
ClientUp(p) ==
  /\ handler["client"][p].at \in {"off", "select", "put", "ack"}
  /\ p \in watched /\ stream["client"] # "off" /\ ~done["client"] =>
       handler["client"][p].at # "off"

PackInv(p) == Alone(p) /\ Owed(p) /\ Same(p) /\ Rising(p) /\ ClientUp(p)

\* The first request has not come to the server yet, and may still come.
Unopened ==
  stream["client"] = "off" \/ send["client"] = "open" \/ Open \in Msgs("server")

\* Until then nothing happens; each message is of a watched pack, at most one of each.
OpenInv ==
  /\ \A m \in Msgs("client") : m.pack \in watched
  /\ \A m \in Msgs("server") : m = Open \/ m.pack \in watched
  /\ \A s \in Sides : \A i, j \in DOMAIN wire[s] : wire[s][i].pack = wire[s][j].pack => i = j
  /\ stream["client"] = "off" => send["client"] # "open"
  /\ stream["client"] = "off" \/ send["client"] = "open" => Open \notin Msgs("server")
  /\ Unopened => \A p \in Packs : /\ ~Token(p) /\ handler["server"][p].at = "off"
                                  /\ updateChan[p] = 0 /\ applied[p] = 0

FlowInv == OpenInv /\ \A p \in Packs : PackInv(p)

(***************************************************************************)
(* An appended message.                                                    *)
(***************************************************************************)
LEMMA MsgsAppend ==
  ASSUME Typed, NEW t \in Sides, NEW m \in Msg, wire'[t] = Append(wire[t], m),
         \A i, j \in DOMAIN wire[t] : wire[t][i].pack = wire[t][j].pack => i = j,
         ~On(t, m.pack)
  PROVE  /\ Msgs(t)' = Msgs(t) \cup {m}
         /\ \A i, j \in DOMAIN wire'[t] : wire'[t][i].pack = wire'[t][j].pack => i = j
<1>1. wire[t] \in Seq(Msg) /\ Len(wire[t]) \in Nat /\ DOMAIN wire[t] = 1 .. Len(wire[t])
  BY DEF Typed
<1> DEFINE n == Len(wire[t]) + 1
<1>2. /\ DOMAIN wire'[t] = 1 .. n /\ wire'[t][n] = m
      /\ \A i \in DOMAIN wire[t] : wire'[t][i] = wire[t][i]
  BY <1>1
<1>3. \A i : i \in 1 .. n <=> i \in DOMAIN wire[t] \/ i = n
  BY <1>1
<1>4. n \notin DOMAIN wire[t]
  BY <1>1
<1> HIDE DEF n
<1>5. \A i \in DOMAIN wire[t] : wire[t][i].pack # m.pack
  BY DEF On, Msgs
<1>6. \A i, j \in DOMAIN wire'[t] : wire'[t][i].pack = wire'[t][j].pack => i = j
  BY <1>2, <1>3, <1>5
<1>7. Msgs(t)' = Msgs(t) \cup {m}
  BY <1>2, <1>3 DEF Msgs
<1> QED BY <1>6, <1>7

(***************************************************************************)
(* A message taken from the front.                                         *)
(***************************************************************************)
LEMMA MsgsTail ==
  ASSUME Typed, NEW t \in Sides, wire[t] # <<>>, wire'[t] = Tail(wire[t]),
         \A i, j \in DOMAIN wire[t] : wire[t][i].pack = wire[t][j].pack => i = j
  PROVE  /\ Head(wire[t]) \in Msgs(t)
         /\ \A m \in Msgs(t)' : m \in Msgs(t) /\ m.pack # Head(wire[t]).pack
         /\ \A i, j \in DOMAIN wire'[t] : wire'[t][i].pack = wire'[t][j].pack => i = j
<1>1. /\ wire[t] \in Seq(Msg) /\ Len(wire[t]) \in Nat /\ Len(wire[t]) > 0
      /\ DOMAIN wire[t] = 1 .. Len(wire[t])
  BY DEF Typed
<1>2. /\ DOMAIN wire'[t] = 1 .. (Len(wire[t]) - 1)
      /\ \A i \in 1 .. (Len(wire[t]) - 1) : wire'[t][i] = wire[t][i + 1]
  BY <1>1
<1>3. \A i \in DOMAIN wire'[t] :
        /\ i \in Nat /\ i + 1 \in DOMAIN wire[t] /\ i + 1 # 1 /\ wire'[t][i] = wire[t][i + 1]
  BY <1>1, <1>2
<1>4. 1 \in DOMAIN wire[t] /\ Head(wire[t]) = wire[t][1]
  BY <1>1
<1>5. \A i, j \in DOMAIN wire'[t] : wire'[t][i].pack = wire'[t][j].pack => i = j
  <2> TAKE i, j \in DOMAIN wire'[t]
  <2>1. wire'[t][i].pack = wire'[t][j].pack => i + 1 = j + 1
    BY <1>3
  <2> QED BY <1>3, <2>1
<1>6. Head(wire[t]) \in Msgs(t)
  BY <1>4 DEF Msgs
<1>7. ASSUME NEW m \in Msgs(t)' PROVE m \in Msgs(t) /\ m.pack # Head(wire[t]).pack
  <2> PICK i \in DOMAIN wire'[t] : m = wire'[t][i]
    BY DEF Msgs
  <2>1. i + 1 \in DOMAIN wire[t] /\ i + 1 # 1 /\ m = wire[t][i + 1]
    BY <1>3
  <2> QED BY <1>4, <2>1 DEF Msgs
<1> QED BY <1>5, <1>6, <1>7

\* A step that for pack q takes no more than tokens away, and may renew its entry.
Stays(q) ==
  /\ \A s \in Sides : \A m \in Msgs(s)' : m.pack = q => m \in Msgs(s)
  /\ \A s \in Sides : Held(s, q)' => recv'[s] = recv[s]
  /\ \A s \in Sides : handler'[s][q] = handler[s][q]
  /\ applied'[q] = applied[q] /\ updateChan'[q] = updateChan[q] /\ version[q] <= version'[q]
  /\ \A s \in Sides : done[s] => done'[s]
  /\ stream'["client"] # "off" => stream["client"] # "off" \/ done'["client"]
  /\ UNCHANGED watched

(***************************************************************************)
(* Such a step keeps what is said of q.                                    *)
(***************************************************************************)
LEMMA PackStays ==
  ASSUME Typed, Typed', NEW q \in Packs, PackInv(q), Stays(q)
  PROVE  PackInv(q)'
<1>0. "client" \in Sides /\ "server" \in Sides
  BY DEF Sides
<1>1. \A s \in Sides : (On(s, q)' => On(s, q)) /\ (Held(s, q)' => Held(s, q))
  BY DEF Stays, On, Held
<1>2. Busy(q)' = Busy(q)
  BY <1>0 DEF Stays, Busy
<1>3. Token(q)' => Token(q)
  BY <1>0, <1>1, <1>2 DEF Token
<1>4. Alone(q)'
  BY Zenon, <1>0, <1>1, <1>2 DEF PackInv, Alone
<1>5. Owed(q)'
  BY Zenon, <1>0, <1>3 DEF PackInv, Owed, Stays
<1>6. Same(q)'
  <2>1. handler'["server"][q] = handler["server"][q] /\ handler'["client"][q] = handler["client"][q]
    BY <1>0 DEF Stays
  <2>2. Same(q)
    BY Zenon DEF PackInv
  <2> QED BY <1>1, <1>2, <2>1, <2>2 DEF Same, Stays
<1>7. Rising(q)'
  <2>1. handler'["server"][q] = handler["server"][q] /\ handler'["client"][q] = handler["client"][q]
    BY <1>0 DEF Stays
  <2>2. Rising(q)
    BY DEF PackInv
  <2>3. /\ applied'[q] = applied[q] /\ updateChan'[q] = updateChan[q] /\ version[q] <= version'[q]
        /\ version[q] \in Int /\ version'[q] \in Int
    BY DEF Stays, Typed
  <2>4. applied[q] \in Int /\ updateChan[q] \in Int
    BY DEF Typed
  <2>5. \A v \in Int : Newer(q, v) => Newer(q, v)'
    BY <2>3, <2>4 DEF Newer
  <2>6. \A m \in Msgs("client")' : m.pack = q => m \in Msgs("client")
    BY <1>0 DEF Stays
  <2>7. Held("client", q)' => Held("client", q) /\ recv'["client"] = recv["client"]
    BY <1>0, <1>1 DEF Stays
  <2>8. /\ handler["server"][q].ver \in Int /\ handler["client"][q].ver \in Int
        /\ recv["client"].ver \in Int
    <3>1. handler["server"][q] \in Handler /\ handler["client"][q] \in Handler
      BY <1>0 DEF Typed
    <3>2. recv["client"] \in Receiving
      BY <1>0 DEF Typed
    <3> QED BY <3>1, <3>2 DEF Handler, Receiving
  <2>9. \A m \in Msgs("client") : m.ver \in Int
    <3>1. \A m \in Msgs("client") : m \in Msg
      BY <1>0 DEF Msgs, Typed
    <3> QED BY <3>1 DEF Msg
  <2>10. \A m \in Msgs("client")' : m.pack = q => Newer(q, m.ver)'
    BY Zenon, <2>2, <2>5, <2>6, <2>9 DEF Rising
  <2>11. /\ Held("client", q)' => Newer(q, recv["client"].ver)'
         /\ handler'["client"][q].at = "put" => Newer(q, handler["client"][q].ver)'
         /\ handler'["server"][q].at = "offer" => Newer(q, handler["server"][q].ver)'
    BY Zenon, <2>1, <2>2, <2>5, <2>7, <2>8 DEF Rising
  <2> QED BY <2>1, <2>2, <2>3, <2>4, <2>8, <2>10, <2>11 DEF Rising
<1>8. ClientUp(q)'
  BY <1>0 DEF PackInv, ClientUp, Stays
<1> QED BY <1>4, <1>5, <1>6, <1>7, <1>8 DEF PackInv

(***************************************************************************)
(* A step that at most loses messages and ends goroutines other than       *)
(* handlers.                                                               *)
(***************************************************************************)
LEMMA FlowFades ==
  ASSUME Typed, Typed', FlowInv,
         UNCHANGED <<watched, version, handler, updateChan, applied>>,
         \A s \in Sides : wire'[s] = wire[s] \/ wire'[s] = <<>>,
         \A s \in Sides : recv'[s] = recv[s] \/ recv'[s].at # "deliver",
         \A s \in Sides : done[s] => done'[s],
         stream'["client"] = "off" => stream["client"] = "off",
         stream["client"] = "off" => stream'["client"] = "off" \/ done'["client"],
         send'["client"] = "open" => send["client"] = "open"
  PROVE  FlowInv'
<1>0. "client" \in Sides /\ "server" \in Sides
  BY DEF Sides
<1>1. \A s \in Sides : Msgs(s)' = Msgs(s) \/ Msgs(s)' = {}
  BY DEF Msgs
<1>2. ASSUME NEW q \in Packs PROVE PackInv(q)' /\ Stays(q)
  <2>1. version[q] <= version'[q]
    BY DEF Typed
  <2>2. \A s \in Sides : Held(s, q)' => recv'[s] = recv[s]
    BY DEF Held
  <2>3. Stays(q)
    BY <1>1, <2>1, <2>2 DEF Stays
  <2> QED BY <2>3, PackStays DEF FlowInv
<1>3. Unopened' => Unopened
  BY <1>0, <1>1 DEF Unopened
<1>4. \A q \in Packs : Token(q)' => Token(q)
  <2> TAKE q \in Packs
  <2>1. \A s \in Sides : On(s, q)' => On(s, q)
    BY <1>1 DEF On
  <2>2. \A s \in Sides : Held(s, q)' => Held(s, q)
    BY DEF Held
  <2>3. Busy(q)' => Busy(q)
    BY DEF Busy
  <2> QED BY <1>0, <2>1, <2>2, <2>3 DEF Token
<1>5. OpenInv'
  <2>1. OpenInv
    BY DEF FlowInv
  <2>2. /\ \A m \in Msgs("client")' : m.pack \in watched'
        /\ \A m \in Msgs("server")' : m = Open \/ m.pack \in watched'
    BY <1>0, <1>1, <2>1 DEF OpenInv
  <2>3. \A s \in Sides : \A i, j \in DOMAIN wire'[s] : wire'[s][i].pack = wire'[s][j].pack => i = j
    BY <2>1 DEF OpenInv
  <2>4. /\ stream'["client"] = "off" => send'["client"] # "open"
        /\ stream'["client"] = "off" \/ send'["client"] = "open" => Open \notin Msgs("server")'
    BY Zenon, <1>0, <1>1, <2>1 DEF OpenInv
  <2>5. Unopened' => \A p \in Packs : /\ ~Token(p)' /\ handler'["server"][p].at = "off"
                                      /\ updateChan'[p] = 0 /\ applied'[p] = 0
    BY Zenon, <1>3, <1>4, <2>1 DEF OpenInv
  <2> QED BY <2>2, <2>3, <2>4, <2>5 DEF OpenInv
<1> QED BY <1>2, <1>5 DEF FlowInv

(***************************************************************************)
(* A step that leaves the messages alone, and the beginning of the stream, *)
(* keeps OpenInv if the stream is opened.                                  *)
(***************************************************************************)
LEMMA OpenStays ==
  ASSUME OpenInv, ~Unopened, UNCHANGED <<watched, wire>>,
         stream'["client"] # "off", send'["client"] # "open"
  PROVE  OpenInv'
<1>1. \A s : Msgs(s)' = Msgs(s)
  BY DEF Msgs
<1>2. ~Unopened'
  BY <1>1 DEF Unopened
<1> QED BY <1>1, <1>2 DEF OpenInv, Unopened

(***************************************************************************)
(* The steps of the environment, and those at the start of the stream.     *)
(***************************************************************************)
LEMMA FlowIssue ==
  ASSUME Typed, Typed', FlowInv, NEW p \in Packs, issue(p)
  PROVE  FlowInv'
<1> USE DEF calls, watch
<1>1. UNCHANGED <<watched, done, stream, wire, recv, send, handler, updateChan, applied>>
  BY DEF issue
<1>2. \A q \in Packs : version[q] <= version'[q]
  BY DEF issue, Typed
<1>3. \A s : Msgs(s)' = Msgs(s)
  BY <1>1 DEF Msgs
<1>4. \A q \in Packs : PackInv(q)'
  <2> TAKE q \in Packs
  <2>1. Stays(q)
    BY Zenon, <1>1, <1>2, <1>3 DEF Stays
  <2> QED BY <2>1, PackStays DEF FlowInv
<1>5. OpenInv'
  <2>1. Unopened' = Unopened
    BY <1>1, <1>3 DEF Unopened
  <2>2. \A q \in Packs : Token(q)' = Token(q)
    BY <1>1, <1>3 DEF Token, On, Held, Busy
  <2> QED BY <1>1, <1>3, <2>1, <2>2 DEF OpenInv, FlowInv
<1> QED BY <1>4, <1>5 DEF FlowInv

(***************************************************************************)
(* A pack left without a token whose server handler has not started.       *)
(***************************************************************************)
LEMMA Idle ==
  ASSUME Typed', NEW q \in Packs, ~Token(q)', handler'["server"][q].at = "off",
         updateChan'[q] = 0, applied'[q] = 0, ClientUp(q)'
  PROVE  PackInv(q)'
<1>0. "client" \in Sides /\ "server" \in Sides
  BY DEF Sides
<1>1. \A s \in Sides : ~On(s, q)' /\ ~Held(s, q)'
  BY DEF Token, Sides
<1>2. ~Busy(q)'
  BY DEF Token
<1>3. version'[q] \in Int /\ 0 <= version'[q]
  BY DEF Typed
<1>4. Alone(q)'
  BY Zenon, <1>0, <1>1, <1>2 DEF Alone
<1>5. Owed(q)' /\ Same(q)'
  BY Zenon DEF Owed, Same
<1>6. Rising(q)'
  BY <1>0, <1>1, <1>2, <1>3 DEF Rising, On, Busy
<1> QED BY <1>4, <1>5, <1>6 DEF PackInv

(***************************************************************************)
(* The client's call.                                                      *)
(***************************************************************************)
LEMMA FlowStream ==
  ASSUME Typed, Typed', FlowInv, Stream
  PROVE  FlowInv'
<1> USE DEF ends, watch
<1>0. "client" \in Sides /\ "server" \in Sides
  BY DEF Sides
<1>1. /\ stream["client"] = "off" /\ stream'["client"] = "run" /\ send'["client"] = "open"
      /\ UNCHANGED <<watched, version, done, wire, updateChan, applied>>
  BY <1>0 DEF Stream, Typed
<1>2. recv'["client"].at = "recv" /\ recv'["server"] = recv["server"]
  BY <1>0 DEF Stream, Typed, At
<1>3. \A q \in Packs : /\ handler'["server"][q] = handler["server"][q]
                       /\ handler'["client"][q].at = IF q \in watched THEN "select" ELSE "off"
  BY <1>0 DEF Stream, Typed
<1>4. \A s : Msgs(s)' = Msgs(s)
  BY <1>1 DEF Msgs
<1>5. OpenInv /\ Unopened
  BY Zenon, <1>1 DEF FlowInv, Unopened
<1>6. ASSUME NEW q \in Packs
      PROVE  /\ ~Token(q)' /\ handler'["server"][q].at = "off"
             /\ updateChan'[q] = 0 /\ applied'[q] = 0 /\ ClientUp(q)'
  <2>1. ~Token(q) /\ handler["server"][q].at = "off" /\ updateChan[q] = 0 /\ applied[q] = 0
    BY <1>5 DEF OpenInv
  <2>2. ~On("client", q)' /\ ~On("server", q)'
    BY <1>4, <2>1 DEF Token, On
  <2>3. ~Held("client", q)' /\ ~Held("server", q)'
    BY <1>2, <2>1 DEF Token, Held
  <2>4. ~Busy(q)' /\ ClientUp(q)'
    BY <1>1, <1>3 DEF Busy, ClientUp
  <2> QED BY <1>1, <1>3, <2>1, <2>2, <2>3, <2>4 DEF Token
<1>7. \A q \in Packs : PackInv(q)'
  BY Zenon, <1>6, Idle
<1>8. OpenInv'
  BY <1>1, <1>4, <1>5, <1>6 DEF OpenInv
<1> QED BY <1>7, <1>8 DEF FlowInv

(***************************************************************************)
(* The first request.                                                      *)
(***************************************************************************)
LEMMA FlowSendOpen ==
  ASSUME Typed, Typed', FlowInv, sendOpen
  PROVE  FlowInv'
<1> USE DEF ends, calls, watch
<1>0. "client" \in Sides /\ "server" \in Sides /\ Open \in Msg /\ Open.pack = None
  BY Records DEF Sides, Open
<1>1. /\ send["client"] = "open"
      /\ UNCHANGED <<watched, version, done, stream, recv, handler, updateChan, applied>>
  BY DEF sendOpen
<1>2. /\ send'["client"] # "open" /\ wire'["client"] = wire["client"]
      /\ wire'["server"] = wire["server"] \/ wire'["server"] = Append(wire["server"], Open)
  <2>1. Send("client", Open)
    BY Zenon DEF sendOpen
  <2> QED BY <1>0, <2>1, SendWire
<1>3. OpenInv /\ Unopened /\ stream["client"] # "off"
  BY Zenon, <1>1 DEF FlowInv, OpenInv, Unopened
<1>4. ~On("server", Open.pack)
  <2>1. \A m \in Msgs("server") : m.pack \in watched
    BY <1>1, <1>3 DEF OpenInv
  <2> QED BY <1>0, <2>1, ConstantsAssumption DEF On, Typed
<1>5. /\ Msgs("client")' = Msgs("client")
      /\ Msgs("server")' = Msgs("server") \/ Msgs("server")' = Msgs("server") \cup {Open}
      /\ \A i, j \in DOMAIN wire'["server"] :
           wire'["server"][i].pack = wire'["server"][j].pack => i = j
  <2>1. CASE wire'["server"] = wire["server"]
    BY <1>0, <1>2, <1>3, <2>1 DEF Msgs, OpenInv
  <2>2. CASE wire'["server"] = Append(wire["server"], Open)
    <3>1. \A i, j \in DOMAIN wire["server"] :
            wire["server"][i].pack = wire["server"][j].pack => i = j
      BY <1>0, <1>3 DEF OpenInv
    <3>2. Msgs("client")' = Msgs("client")
      BY <1>2 DEF Msgs
    <3> QED BY Zenon, <1>0, <1>4, <2>2, <3>1, <3>2, MsgsAppend
  <2> QED BY Zenon, <1>2, <2>1, <2>2
<1>6. \A q \in Packs : q # None
  BY ConstantsAssumption
<1>7. \A q \in Packs : PackInv(q)' /\ (Token(q)' => Token(q))
  <2> TAKE q \in Packs
  <2>1. \A s \in Sides : \A m \in Msgs(s)' : m.pack = q => m \in Msgs(s)
    BY <1>0, <1>5, <1>6 DEF Sides
  <2>2. version[q] <= version'[q]
    BY <1>1 DEF Typed
  <2>3. Stays(q)
    BY Zenon, <1>1, <2>1, <2>2 DEF Stays
  <2>4. Token(q)' => Token(q)
    BY Zenon, <1>0, <1>1, <2>1 DEF Token, On, Held, Busy
  <2> QED BY <2>3, <2>4, PackStays DEF FlowInv
<1>8. OpenInv'
  <2>1. /\ \A m \in Msgs("client")' : m.pack \in watched'
        /\ \A m \in Msgs("server")' : m = Open \/ m.pack \in watched'
    BY Zenon, <1>1, <1>3, <1>5 DEF OpenInv
  <2>2. \A s \in Sides : \A i, j \in DOMAIN wire'[s] : wire'[s][i].pack = wire'[s][j].pack => i = j
    BY Zenon, <1>0, <1>2, <1>3, <1>5 DEF OpenInv, Sides
  <2>3. \A p \in Packs : /\ ~Token(p)' /\ handler'["server"][p].at = "off"
                         /\ updateChan'[p] = 0 /\ applied'[p] = 0
    BY <1>1, <1>3, <1>7 DEF OpenInv
  <2> QED BY Zenon, <1>1, <1>2, <1>3, <2>1, <2>2, <2>3 DEF OpenInv
<1> QED BY <1>7, <1>8 DEF FlowInv

(***************************************************************************)
(* The first request comes to the server, and starts its handlers.         *)
(***************************************************************************)
LEMMA FlowRecvOpen ==
  ASSUME Typed, Typed', FlowInv, recvOpen
  PROVE  FlowInv'
<1> USE DEF ends, watch
<1>0. "client" \in Sides /\ "server" \in Sides /\ Open.pack = None
  BY DEF Sides, Open
<1>1. /\ wire["server"] # <<>> /\ Head(wire["server"]) = Open
      /\ UNCHANGED <<watched, version, done, send, updateChan, applied>>
  BY Zenon DEF recvOpen
<1>2. /\ stream'["client"] = stream["client"] /\ recv'["client"] = recv["client"]
      /\ recv'["server"] = recv["server"] \/ recv'["server"].at = "off"
  BY <1>0 DEF recvOpen, sendStreamErr, Typed, Off, At
<1>3. wire'["server"] = Tail(wire["server"]) /\ wire'["client"] = wire["client"]
  BY Zenon, <1>0, RecvWire DEF recvOpen
<1>4. \A q \in Packs :
        /\ handler'["client"][q] = handler["client"][q]
        /\ \/ handler'["server"][q] = handler["server"][q]
           \/ handler'["server"][q] = [at |-> "off", ver |-> 0]
           \/ handler'["server"][q] = [at |-> "wait", ver |-> 0] /\ q \in watched
  <2> DEFINE hs == [p \in Packs |-> [at |-> IF p \in watched THEN "wait" ELSE "off", ver |-> 0]]
  <2>1. handler' = [handler EXCEPT !["server"] = hs] \/ handler' = handler
    BY DEF recvOpen
  <2>2. \A q \in Packs : \/ hs[q] = [at |-> "off", ver |-> 0]
                         \/ hs[q] = [at |-> "wait", ver |-> 0] /\ q \in watched
    OBVIOUS
  <2> HIDE DEF hs
  <2> QED BY Zenon, <1>0, <2>1, <2>2 DEF Typed
<1>5. OpenInv
  BY DEF FlowInv
<1>6. /\ Open \in Msgs("server") /\ Msgs("client")' = Msgs("client")
      /\ \A m \in Msgs("server")' : m \in Msgs("server") /\ m.pack # None
      /\ \A i, j \in DOMAIN wire'["server"] :
           wire'["server"][i].pack = wire'["server"][j].pack => i = j
  <2>1. \A i, j \in DOMAIN wire["server"] :
          wire["server"][i].pack = wire["server"][j].pack => i = j
    BY <1>0, <1>5 DEF OpenInv
  <2>2. Msgs("client")' = Msgs("client")
    BY Zenon, <1>3 DEF Msgs
  <2> QED BY Zenon, <1>0, <1>1, <1>3, <2>1, <2>2, MsgsTail
<1>7. Unopened /\ stream["client"] # "off" /\ send["client"] # "open"
  BY <1>5, <1>6 DEF OpenInv, Unopened
<1>8. ~Unopened'
  BY Zenon, <1>0, <1>1, <1>2, <1>6, <1>7 DEF Unopened
<1>9. OpenInv'
  <2>1. /\ \A m \in Msgs("client")' : m.pack \in watched'
        /\ \A m \in Msgs("server")' : m = Open \/ m.pack \in watched'
    BY <1>1, <1>5, <1>6 DEF OpenInv
  <2>2. \A s \in Sides : \A i, j \in DOMAIN wire'[s] : wire'[s][i].pack = wire'[s][j].pack => i = j
    BY Zenon, <1>0, <1>3, <1>5, <1>6 DEF OpenInv, Sides
  <2> QED BY Zenon, <1>1, <1>2, <1>7, <1>8, <2>1, <2>2 DEF OpenInv
<1>10. ASSUME NEW q \in Packs PROVE PackInv(q)'
  <2>1. /\ ~Token(q) /\ handler["server"][q].at = "off" /\ updateChan[q] = 0 /\ applied[q] = 0
        /\ PackInv(q)
    BY <1>5, <1>7 DEF OpenInv, FlowInv
  <2>2. ~On("client", q)' /\ ~On("server", q)'
    BY <1>6, <2>1 DEF Token, On
  <2>3. ~Held("client", q)' /\ ~Held("server", q)'
    BY Zenon, <1>2, <2>1 DEF Token, Held
  <2>4. ~Busy(q)' /\ ClientUp(q)'
    BY <1>1, <1>2, <1>4, <2>1 DEF Busy, ClientUp, Token, PackInv
  <2>5. ~Token(q)'
    BY <2>2, <2>3, <2>4 DEF Token
  <2>6. updateChan'[q] = 0 /\ applied'[q] = 0
    BY Zenon, <1>1, <2>1
  <2>7. CASE handler'["server"][q].at = "off"
    BY <2>4, <2>5, <2>6, <2>7, Idle
  <2>8. CASE handler'["server"][q] = [at |-> "wait", ver |-> 0] /\ q \in watched
    <3>1. Alone(q)' /\ Same(q)'
      BY <2>2, <2>3, <2>4, <2>8 DEF Alone, Same
    <3>2. Owed(q)'
      BY <1>1, <2>5, <2>8 DEF Owed
    <3>3. version'[q] \in Int /\ 0 <= version'[q]
      BY DEF Typed
    <3>4. Rising(q)'
      BY <2>2, <2>3, <2>4, <2>6, <2>8, <3>3 DEF Rising, On, Busy
    <3> QED BY Zenon, <2>4, <3>1, <3>2, <3>4 DEF PackInv
  <2> QED BY <1>4, <2>1, <2>7, <2>8
<1> QED BY <1>9, <1>10 DEF FlowInv

-----------------------------------------------------------------------------
(* The steps of a token *)

(***************************************************************************)
(* A receiving goroutine takes an offer or an acknowledgement.             *)
(***************************************************************************)
LEMMA FlowRecvMsg ==
  ASSUME Typed, Typed', FlowInv, NEW s \in Sides, recvMsg(s)
  PROVE  FlowInv'
<1> USE DEF ends, calls, watch
<1>0. "client" \in Sides /\ "server" \in Sides
  BY DEF Sides
<1>12. wire[s] # <<>> /\ Head(wire[s]) # Open /\ recv[s].at = "recv"
  BY DEF recvMsg
<1> PICK m : m = Head(wire[s])
  OBVIOUS
<1> PICK p : p = m.pack
  OBVIOUS
<1>1. UNCHANGED <<watched, version, done, stream, send, handler, updateChan, applied>>
  BY Zenon DEF recvMsg
<1>2. /\ recv'[s].at = "deliver" /\ recv'[s].pack = p /\ recv'[s].ver = m.ver
      /\ \A t \in Sides : t # s => recv'[t] = recv[t]
  BY DEF recvMsg, Typed, At
<1>3. wire'[s] = Tail(wire[s]) /\ \A t \in Sides : t # s => wire'[t] = wire[t]
  BY Zenon, RecvWire DEF recvMsg
<1>4. OpenInv
  BY DEF FlowInv
<1>5. /\ m \in Msgs(s)
      /\ \A x \in Msgs(s)' : x \in Msgs(s) /\ x.pack # p
      /\ \A i, j \in DOMAIN wire'[s] : wire'[s][i].pack = wire'[s][j].pack => i = j
      /\ \A t \in Sides : t # s => Msgs(t)' = Msgs(t)
  <2>1. \A i, j \in DOMAIN wire[s] : wire[s][i].pack = wire[s][j].pack => i = j
    BY Zenon, <1>4 DEF OpenInv
  <2>2. \A t \in Sides : t # s => Msgs(t)' = Msgs(t)
    BY Zenon, <1>3 DEF Msgs
  <2> QED BY Zenon, <1>12, <1>3, <2>1, <2>2, MsgsTail
<1>6. p \in watched /\ p \in Packs
  BY <1>12, <1>4, <1>5 DEF OpenInv, Sides, Typed
<1>7. On(s, p) /\ Token(p)
  BY Zenon, <1>5 DEF On, Token, Sides
<1>8. ~Unopened
  BY Zenon, <1>4, <1>6, <1>7 DEF OpenInv
<1>9. OpenInv'
  <2>1. ~Unopened'
    BY Zenon, <1>0, <1>1, <1>5, <1>8 DEF Unopened, Sides
  <2>2. /\ \A x \in Msgs("client")' : x.pack \in watched'
        /\ \A x \in Msgs("server")' : x = Open \/ x.pack \in watched'
    BY <1>0, <1>1, <1>4, <1>5 DEF OpenInv
  <2>3. \A t \in Sides : \A i, j \in DOMAIN wire'[t] : wire'[t][i].pack = wire'[t][j].pack => i = j
    BY Zenon, <1>3, <1>4, <1>5 DEF OpenInv
  <2> QED BY <2>1, <2>2, <2>3 DEF OpenInv, Unopened
<1>10. ASSUME NEW q \in Packs, q # p PROVE PackInv(q)'
  <2>1. version[q] <= version'[q]
    BY <1>1 DEF Typed
  <2>2. \A t \in Sides : Held(t, q)' => recv'[t] = recv[t]
    BY <1>2, <1>10 DEF Held
  <2>3. \A t \in Sides : \A x \in Msgs(t)' : x.pack = q => x \in Msgs(t)
    BY Zenon, <1>5
  <2>4. Stays(q)
    BY Zenon, <1>1, <2>1, <2>2, <2>3 DEF Stays
  <2> QED BY <2>4, PackStays DEF FlowInv
<1>11. PackInv(p)'
  <2>0. PackInv(p)
    BY Zenon, <1>6 DEF FlowInv
  <2>1. ~On(s, p)' /\ Held(s, p)' /\ Busy(p)' = Busy(p)
    BY Zenon, <1>1, <1>2, <1>5 DEF On, Held, Busy
  <2>2. \A t \in Sides : t # s => On(t, p)' = On(t, p) /\ Held(t, p)' = Held(t, p)
    BY Zenon, <1>2, <1>5 DEF On, Held
  <2>3. Alone(p)'
    <3>1. Alone(p)
      BY Zenon, <2>0 DEF PackInv
    <3> QED BY <1>7, <2>1, <2>2, <3>1 DEF Alone, Sides
  <2>4. Owed(p)'
    <3>1. handler["server"][p].at = "ack" \/ (handler["server"][p].at = "off" /\ done["server"])
      BY <1>7, <2>0 DEF PackInv, Owed
    <3> QED BY Zenon, <1>1, <1>6, <3>1 DEF Owed
  <2>5. Same(p)'
    <3>1. handler["server"][p].at = "ack" => m.ver = handler["server"][p].ver
      BY Zenon, <1>5, <2>0 DEF PackInv, Same
    <3>2. \A t \in Sides : \A x \in Msgs(t)' : x.pack = p => x \in Msgs(t)
      BY <1>5
    <3>3. Same(p)
      BY Zenon, <2>0 DEF PackInv
    <3>4. \A t \in Sides : Held(t, p)' => recv'[t].ver = m.ver \/ (Held(t, p) /\ recv'[t] = recv[t])
      BY <1>2, <2>2
    <3> QED BY Zenon, <1>1, <2>1, <3>1, <3>2, <3>3, <3>4 DEF Same
  <2>6. Rising(p)'
    <3>1. Rising(p)
      BY <2>0 DEF PackInv
    <3>2. \A x \in Msgs("client")' : x.pack = p => x \in Msgs("client")
      BY <1>0, <1>5
    <3>3. \A v : Newer(p, v)' = Newer(p, v)
      BY <1>1 DEF Newer
    <3>4. Held("client", p)' => Newer(p, recv'["client"].ver)
      <4>1. CASE s = "client"
        BY Zenon, <1>2, <1>5, <3>1, <4>1 DEF Rising
      <4>2. CASE s # "client"
        BY Zenon, <1>0, <1>2, <2>2, <3>1, <4>2 DEF Rising
      <4> QED BY <4>1, <4>2
    <3>5. \A x \in Msgs("client")' : x.pack = p => Newer(p, x.ver)'
      BY Zenon, <3>1, <3>2, <3>3 DEF Rising
    <3>6. Held("client", p)' => Newer(p, recv["client"].ver)'
      BY SMTT(30), <1>1, <3>4 DEF Newer
    <3> QED BY Zenon, <1>1, <3>1, <3>3, <3>5, <3>6 DEF Rising
  <2>7. ClientUp(p)'
    BY Zenon, <1>1, <2>0 DEF ClientUp, PackInv
  <2> QED BY <2>3, <2>4, <2>5, <2>6, <2>7 DEF PackInv
<1> QED BY <1>6, <1>9, <1>10, <1>11 DEF FlowInv

(***************************************************************************)
(* The server's handler sees a newer certificate.                          *)
(***************************************************************************)
LEMMA FlowOfferWait ==
  ASSUME Typed, Typed', FlowInv, NEW p \in Packs, offerWait(p)
  PROVE  FlowInv'
<1> USE DEF ends, calls, watch
<1>0. "client" \in Sides /\ "server" \in Sides /\ [at |-> "offer", ver |-> version[p]] \in Handler
  BY DEF Sides, Typed, Handler
<1>1. /\ handler["server"][p].at = "wait" /\ version[p] > handler["server"][p].ver
      /\ UNCHANGED <<watched, version, done, stream, wire, recv, send, updateChan, applied>>
  BY Zenon DEF offerWait
<1>2. /\ handler'["server"][p].at = "offer" /\ handler'["server"][p].ver = version[p]
      /\ \A t \in Sides, q \in Packs : t # "server" \/ q # p => handler'[t][q] = handler[t][q]
  <2> PICK h \in Handler : h = [at |-> "offer", ver |-> version[p]]
    BY Zenon, <1>0
  <2>1. handler' = [handler EXCEPT !["server"][p] = h]
    BY Zenon DEF offerWait
  <2>2. /\ handler'["server"][p] = h
        /\ \A t \in Sides, q \in Packs : t # "server" \/ q # p => handler'[t][q] = handler[t][q]
    BY <1>0, <2>1 DEF Typed
  <2> QED BY <2>2
<1>3. \A s : Msgs(s)' = Msgs(s)
  BY Zenon, <1>1 DEF Msgs
<1>4. OpenInv /\ ~Unopened
  BY Zenon, <1>1 DEF FlowInv, OpenInv
<1>5. OpenInv'
  BY Zenon, <1>1, <1>4, OpenStays DEF Unopened
<1>6. ASSUME NEW q \in Packs, q # p PROVE PackInv(q)'
  <2>1. version[q] <= version'[q]
    BY <1>1 DEF Typed
  <2>2. Stays(q)
    BY <1>1, <1>2, <1>3, <1>6, <2>1 DEF Stays
  <2> QED BY <2>2, PackStays DEF FlowInv
<1>7. PackInv(p)'
  <2>0. PackInv(p) /\ ~Token(p)
    BY Zenon, <1>1 DEF FlowInv, PackInv, Owed
  <2>1. /\ Token(p)' = Token(p)
        /\ handler'["client"][p] = handler["client"][p]
    BY Zenon, <1>0, <1>1, <1>2, <1>3 DEF Token, On, Held, Busy
  <2>2. Alone(p)'
    BY Zenon, <2>0, <2>1 DEF Alone, Token
  <2>3. Owed(p)' /\ Same(p)'
    BY Zenon, <1>1, <1>2, <2>0, <2>1 DEF Owed, Same, PackInv
  <2>4. Rising(p)'
    <3>1. /\ applied[p] <= handler["server"][p].ver /\ updateChan[p] <= handler["server"][p].ver
          /\ updateChan[p] # 0 => applied[p] < updateChan[p]
      BY Zenon, <1>1, <2>0 DEF Rising, PackInv
    <3>2. /\ applied[p] \in Int /\ updateChan[p] \in Int /\ version[p] \in Int
          /\ handler["server"][p].ver \in Int
      BY <1>0 DEF Typed, Handler
    <3>3. ~On("client", p)' /\ ~Held("client", p)' /\ ~Busy(p)'
      BY Zenon, <2>0, <2>1 DEF Token
    <3>4. /\ applied[p] < version[p] /\ updateChan[p] < version[p]
          /\ applied[p] <= version[p] /\ updateChan[p] <= version[p] /\ version[p] <= version[p]
      BY <1>1, <3>1, <3>2
    <3>5. Newer(p, handler["server"][p].ver)'
      BY Zenon, <1>1, <1>2, <3>4 DEF Newer
    <3>6. /\ \A m \in Msgs("client")' : m.pack # p
          /\ handler'["client"][p].at # "put" /\ handler'["server"][p].at \notin {"wait", "ack"}
      BY Zenon, <1>2, <3>3 DEF On, Busy
    <3> QED BY Zenon, <1>1, <3>1, <3>3, <3>4, <3>5, <3>6 DEF Rising
  <2>5. ClientUp(p)'
    BY <1>1, <2>0, <2>1 DEF ClientUp, PackInv
  <2> QED BY Zenon, <2>2, <2>3, <2>4, <2>5 DEF PackInv
<1> QED BY Zenon, <1>5, <1>6, <1>7 DEF FlowInv

(***************************************************************************)
(* A token appears on a wire: the offer, or the acknowledgement.           *)
(***************************************************************************)
LEMMA OpenAppend ==
  ASSUME Typed, OpenInv, ~Unopened, UNCHANGED <<watched, stream>>,
         NEW t \in Sides, NEW m \in Msg, m.pack \in watched, ~On(t, m.pack),
         send'["client"] # "open",
         wire'[t] = wire[t] \/ wire'[t] = Append(wire[t], m),
         \A u \in Sides : u # t => wire'[u] = wire[u]
  PROVE  /\ OpenInv'
         /\ \A u \in Sides : u # t => Msgs(u)' = Msgs(u)
         /\ Msgs(t)' = Msgs(t) \/ Msgs(t)' = Msgs(t) \cup {m}
<1>0. "client" \in Sides /\ "server" \in Sides
  BY DEF Sides
<1>1. \A i, j \in DOMAIN wire[t] : wire[t][i].pack = wire[t][j].pack => i = j
  BY Zenon DEF OpenInv
<1>2. /\ Msgs(t)' = Msgs(t) \/ Msgs(t)' = Msgs(t) \cup {m}
      /\ \A i, j \in DOMAIN wire'[t] : wire'[t][i].pack = wire'[t][j].pack => i = j
  <2>1. CASE wire'[t] = wire[t]
    BY <1>1, <2>1 DEF Msgs
  <2>2. CASE wire'[t] = Append(wire[t], m)
    BY Zenon, <1>1, <2>2, MsgsAppend
  <2> QED BY Zenon, <2>1, <2>2
<1>3. \A u \in Sides : u # t => Msgs(u)' = Msgs(u)
  BY Zenon DEF Msgs
<1>4. \A u \in Sides : \A i, j \in DOMAIN wire'[u] : wire'[u][i].pack = wire'[u][j].pack => i = j
  BY Zenon, <1>2 DEF OpenInv
<1>5. m # Open
  BY ConstantsAssumption DEF Open, Typed
<1>6. ~Unopened'
  BY Zenon, <1>0, <1>2, <1>3, <1>5 DEF Unopened
<1>7. /\ \A x \in Msgs("client")' : x.pack \in watched'
      /\ \A x \in Msgs("server")' : x = Open \/ x.pack \in watched'
  BY <1>0, <1>2, <1>3 DEF OpenInv
<1> QED BY Zenon, <1>2, <1>3, <1>4, <1>6, <1>7 DEF OpenInv, Unopened

(***************************************************************************)
(* The server's sending goroutine takes an offer.                          *)
(***************************************************************************)
LEMMA FlowOffer ==
  ASSUME Typed, Typed', FlowInv, NEW p \in Packs, offer(p)
  PROVE  FlowInv'
<1> USE DEF ends, calls, watch
<1>0. "client" \in Sides /\ "server" \in Sides /\ "client" # "server"
  BY DEF Sides
<1>1. /\ handler["server"][p].at = "offer"
      /\ UNCHANGED <<watched, version, done, stream, recv, updateChan, applied>>
  BY DEF offer
<1>2. /\ handler'["server"][p].at = "ack" /\ handler'["server"][p].ver = handler["server"][p].ver
      /\ \A t \in Sides, q \in Packs : t # "server" \/ q # p => handler'[t][q] = handler[t][q]
  <2>1. handler' = [handler EXCEPT !["server"][p].at = "ack"]
    BY SMTT(30) DEF offer
  <2> QED BY Zenon, <1>0, <2>1, HandlerAt
<1>3. OpenInv /\ ~Unopened /\ PackInv(p) /\ ~Token(p) /\ p \in watched
  BY Zenon, <1>1 DEF FlowInv, OpenInv, PackInv, Owed
<1> PICK m : m = [pack |-> p, ver |-> handler["server"][p].ver]
  BY Zenon
<1>4. m \in Msg /\ m.pack = p /\ m.ver = handler["server"][p].ver
  BY Zenon, <1>0 DEF Typed, Handler, Msg
<1>5. /\ send'["client"] = send["client"] /\ wire'["server"] = wire["server"]
      /\ wire'["client"] = wire["client"] \/ wire'["client"] = Append(wire["client"], m)
  <2>1. Send("server", m)
    BY Zenon DEF offer
  <2> QED BY <1>0, <1>4, <2>1, SendWire
<1>6. /\ OpenInv' /\ Msgs("server")' = Msgs("server")
      /\ Msgs("client")' = Msgs("client") \/ Msgs("client")' = Msgs("client") \cup {m}
  <2>1. ~On("client", m.pack)
    BY Zenon, <1>3, <1>4 DEF Token
  <2>2. send'["client"] # "open"
    BY Zenon, <1>3, <1>5 DEF Unopened
  <2>3. \A u \in Sides : u # "client" => wire'[u] = wire[u]
    BY <1>5 DEF Sides
  <2> QED BY Zenon, <1>0, <1>1, <1>3, <1>4, <1>5, <2>1, <2>2, <2>3, OpenAppend
<1>7. ASSUME NEW q \in Packs, q # p PROVE PackInv(q)'
  <2>1. version[q] <= version'[q]
    BY <1>1 DEF Typed
  <2>2. \A s \in Sides : \A x \in Msgs(s)' : x.pack = q => x \in Msgs(s)
    BY Zenon, <1>4, <1>6, <1>7 DEF Sides
  <2>3. Stays(q)
    BY Zenon, <1>1, <1>2, <1>7, <2>1, <2>2 DEF Stays
  <2> QED BY Zenon, <2>3, PackStays DEF FlowInv
<1>8. PackInv(p)'
  <2>1. /\ ~Held("client", p)' /\ ~Busy(p)' /\ ~On("server", p)' /\ ~Held("server", p)'
        /\ handler'["client"][p] = handler["client"][p]
    BY Zenon, <1>0, <1>1, <1>2, <1>3, <1>6 DEF Token, On, Held, Busy
  <2>2. \A s \in Sides : ~Held(s, p)'
    BY Zenon, <2>1 DEF Sides
  <2>3. \A x \in Msgs("client")' : x.pack = p => x.ver = handler["server"][p].ver
    BY Zenon, <1>3, <1>4, <1>6 DEF Token, On
  <2>4. \A s \in Sides : \A x \in Msgs(s)' : x.pack = p => x.ver = handler["server"][p].ver
    BY Zenon, <2>1, <2>3 DEF Sides, On
  <2>5. Alone(p)'
    BY Zenon, <2>1 DEF Alone
  <2>6. Owed(p)'
    BY Zenon, <1>1, <1>2, <1>3 DEF Owed
  <2>7. Same(p)'
    BY <1>2, <2>1, <2>2, <2>4 DEF Same
  <2>8. Rising(p)'
    <3>1. /\ Newer(p, handler["server"][p].ver)
          /\ updateChan[p] # 0 => applied[p] < updateChan[p]
          /\ applied[p] <= version[p] /\ updateChan[p] <= version[p]
      BY Zenon, <1>1, <1>3 DEF PackInv, Rising
    <3>2. /\ applied[p] \in Int /\ updateChan[p] \in Int /\ version[p] \in Int
          /\ handler["server"][p].ver \in Int
      BY <1>0 DEF Typed, Handler
    <3>3. \A x \in Msgs("client")' : x.pack = p => Newer(p, x.ver)'
      BY Zenon, <1>1, <2>3, <3>1 DEF Newer
    <3>4. /\ applied'[p] <= handler'["server"][p].ver /\ updateChan'[p] <= handler'["server"][p].ver
          /\ handler'["server"][p].ver <= version'[p]
      BY SMTT(30), <1>1, <1>2, <3>1, <3>2 DEF Newer
    <3> QED BY Zenon, <1>1, <1>2, <2>1, <3>1, <3>3, <3>4 DEF Rising, Busy
  <2>9. ClientUp(p)'
    BY <1>1, <1>3, <2>1 DEF ClientUp, PackInv
  <2> QED BY Zenon, <2>5, <2>6, <2>7, <2>8, <2>9 DEF PackInv
<1> QED BY <1>6, <1>7, <1>8 DEF FlowInv

(***************************************************************************)
(* The server's handler gets its acknowledgement.                          *)
(***************************************************************************)
LEMMA FlowTakeAck ==
  ASSUME Typed, Typed', FlowInv, NEW p \in Packs, takeAck(p)
  PROVE  FlowInv'
<1> USE DEF ends, calls, watch
<1>0. "client" \in Sides /\ "server" \in Sides
  BY DEF Sides
<1>1. /\ handler["server"][p].at = "ack" /\ Held("server", p)
      /\ UNCHANGED <<watched, version, done, stream, wire, send, updateChan, applied>>
  BY DEF takeAck, Held
<1>2. /\ handler'["server"][p].at = "wait" /\ handler'["server"][p].ver = handler["server"][p].ver
      /\ \A t \in Sides, q \in Packs : t # "server" \/ q # p => handler'[t][q] = handler[t][q]
  <2>1. handler' = [handler EXCEPT !["server"][p].at = "wait"]
    BY DEF takeAck
  <2> QED BY Zenon, <1>0, <2>1, HandlerAt
<1>3. recv'["server"].at = "recv" /\ recv'["client"] = recv["client"]
  BY Zenon, <1>0 DEF takeAck, Typed, At
<1>4. \A s : Msgs(s)' = Msgs(s)
  BY <1>1 DEF Msgs
<1>5. OpenInv /\ ~Unopened /\ PackInv(p) /\ Token(p) /\ p \in watched
  BY Zenon, <1>1 DEF FlowInv, OpenInv, PackInv, Owed, Token
<1>6. OpenInv'
  BY Zenon, <1>1, <1>5, OpenStays DEF Unopened
<1>7. ASSUME NEW q \in Packs, q # p PROVE PackInv(q)'
  <2>1. version[q] <= version'[q]
    BY <1>1 DEF Typed
  <2>2. \A s \in Sides : Held(s, q)' => recv'[s] = recv[s]
    BY <1>3 DEF Held, Sides
  <2>3. Stays(q)
    BY Zenon, <1>1, <1>2, <1>4, <1>7, <2>1, <2>2 DEF Stays
  <2> QED BY <2>3, PackStays DEF FlowInv
<1>8. PackInv(p)'
  <2>1. handler'["client"][p] = handler["client"][p]
    BY Zenon, <1>0, <1>2
  <2>2. ~On("client", p) /\ ~Held("client", p) /\ ~Busy(p) /\ ~On("server", p)
    BY Zenon, <1>1, <1>5 DEF PackInv, Alone
  <2>3. /\ ~On("client", p)' /\ ~Held("client", p)' /\ ~Busy(p)'
        /\ ~On("server", p)' /\ ~Held("server", p)'
    BY Zenon, <1>3, <1>4, <2>1, <2>2 DEF On, Held, Busy
  <2>4. Alone(p)' /\ Same(p)'
    BY Zenon, <1>2, <2>3 DEF Alone, Same
  <2>5. Owed(p)'
    BY Zenon, <1>1, <1>5, <2>3 DEF Owed, Token
  <2>6. Rising(p)'
    BY Zenon, <1>1, <1>2, <1>5, <2>3 DEF Rising, PackInv, On, Busy
  <2>7. ClientUp(p)'
    BY Zenon, <1>1, <1>5, <2>1 DEF ClientUp, PackInv
  <2> QED BY <2>4, <2>5, <2>6, <2>7 DEF PackInv
<1> QED BY <1>6, <1>7, <1>8 DEF FlowInv
=============================================================================
