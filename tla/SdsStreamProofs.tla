--------------------------- MODULE SdsStreamProofs ---------------------------
(***************************************************************************)
(* Theorems about SdsStream, for any finite set of packs and any number of *)
(* renewals.                                                               *)
(***************************************************************************)
EXTENDS SdsStreamFlow, FiniteSetTheorems

-----------------------------------------------------------------------------
(* The steps of the client's handlers *)

(***************************************************************************)
(* The client's handler gets an offer.                                     *)
(***************************************************************************)
LEMMA FlowTakeOffer ==
  ASSUME Typed, Typed', FlowInv, NEW p \in Packs, takeOffer(p)
  PROVE  FlowInv'
<1> USE DEF ends, calls, watch
<1>0. "client" \in Sides /\ "server" \in Sides
  BY DEF Sides
<1>1. /\ Held("client", p)
      /\ UNCHANGED <<watched, version, done, stream, wire, send, updateChan, applied>>
  BY DEF takeOffer, Held
<1>2. /\ handler'["client"][p].at = "put" /\ handler'["client"][p].ver = recv["client"].ver
      /\ \A t \in Sides, q \in Packs : t # "client" \/ q # p => handler'[t][q] = handler[t][q]
  <2> PICK h : h = [at |-> "put", ver |-> recv["client"].ver]
    BY Zenon
  <2>1. handler' = [handler EXCEPT !["client"][p] = h]
    BY DEF takeOffer
  <2>2. /\ handler'["client"][p] = h
        /\ \A t \in Sides, q \in Packs : t # "client" \/ q # p => handler'[t][q] = handler[t][q]
    BY <1>0, <2>1 DEF Typed
  <2> QED BY <2>2
<1>3. recv'["client"].at = "recv" /\ recv'["server"] = recv["server"]
  BY <1>0 DEF takeOffer, Typed, At
<1>4. \A s : Msgs(s)' = Msgs(s)
  BY <1>1 DEF Msgs
<1>5. OpenInv /\ ~Unopened /\ PackInv(p) /\ Token(p) /\ p \in watched
  BY Zenon, <1>1 DEF FlowInv, OpenInv, PackInv, Owed, Token
<1>6. OpenInv'
  BY <1>1, <1>5, OpenStays DEF Unopened
<1>7. ASSUME NEW q \in Packs, q # p PROVE PackInv(q)'
  <2>1. version[q] <= version'[q]
    BY <1>1 DEF Typed
  <2>2. \A s \in Sides : Held(s, q)' => recv'[s] = recv[s]
    BY <1>3 DEF Held, Sides
  <2>3. Stays(q)
    BY Zenon, <1>1, <1>2, <1>4, <1>7, <2>1, <2>2 DEF Stays
  <2> QED BY <2>3, PackStays DEF FlowInv
<1>8. PackInv(p)'
  <2>1. handler'["server"][p] = handler["server"][p]
    BY <1>0, <1>2
  <2>2. ~On("client", p) /\ ~Busy(p) /\ ~On("server", p) /\ ~Held("server", p)
    BY <1>1, <1>5 DEF PackInv, Alone
  <2>3. /\ ~On("client", p)' /\ ~Held("client", p)' /\ Busy(p)'
        /\ ~On("server", p)' /\ ~Held("server", p)'
    BY Zenon, <1>2, <1>3, <1>4, <2>2 DEF On, Held, Busy
  <2>4. Alone(p)'
    BY <2>3 DEF Alone
  <2>5. Owed(p)'
    BY <1>1, <1>5, <2>1 DEF Owed, PackInv
  <2>6. Same(p)'
    <3>1. handler["server"][p].at = "ack" => recv["client"].ver = handler["server"][p].ver
      BY <1>0, <1>1, <1>5 DEF Same, PackInv
    <3>2. \A s \in Sides : ~On(s, p)' /\ ~Held(s, p)'
      BY <2>3 DEF Sides
    <3> QED BY Zenon, <1>2, <2>1, <3>1, <3>2 DEF Same, On
  <2>7. Rising(p)'
    <3>1. Rising(p) /\ Newer(p, recv["client"].ver)
      BY Zenon, <1>1, <1>5 DEF Rising, PackInv
    <3>2. Newer(p, handler["client"][p].ver)'
      BY <1>1, <1>2, <3>1 DEF Newer
    <3>3. handler["server"][p].at = "offer" => Newer(p, handler["server"][p].ver)'
      BY Zenon, <1>1, <2>1, <3>1 DEF Newer, Rising
    <3> QED BY Zenon, <1>1, <2>1, <2>3, <3>1, <3>2, <3>3 DEF Rising, On
  <2>8. ClientUp(p)'
    BY Zenon, <1>2 DEF ClientUp
  <2> QED BY Zenon, <2>4, <2>5, <2>6, <2>7, <2>8 DEF PackInv
<1> QED BY <1>6, <1>7, <1>8 DEF FlowInv

(***************************************************************************)
(* The client's handler puts the update.                                   *)
(***************************************************************************)
LEMMA FlowPutUpdate ==
  ASSUME Typed, Typed', FlowInv, NEW p \in Packs, putUpdate(p)
  PROVE  FlowInv'
<1> USE DEF ends, calls, watch
<1>0. "client" \in Sides /\ "server" \in Sides
  BY DEF Sides
<1>1. /\ handler["client"][p].at = "put" /\ Busy(p)
      /\ UNCHANGED <<watched, version, done, stream, wire, recv, send, applied>>
  BY DEF putUpdate, Busy
<1>2. /\ handler'["client"][p].at = "ack" /\ handler'["client"][p].ver = handler["client"][p].ver
      /\ \A t \in Sides, q \in Packs : t # "client" \/ q # p => handler'[t][q] = handler[t][q]
  <2>1. handler' = [handler EXCEPT !["client"][p].at = "ack"]
    BY DEF putUpdate
  <2> QED BY Zenon, <1>0, <2>1, HandlerAt
<1>3. /\ updateChan'[p] = handler["client"][p].ver
      /\ \A q \in Packs : q # p => updateChan'[q] = updateChan[q]
  BY DEF putUpdate, Typed
<1>4. \A s : Msgs(s)' = Msgs(s)
  BY <1>1 DEF Msgs
<1>5. OpenInv /\ ~Unopened /\ PackInv(p) /\ Token(p) /\ p \in watched
  BY Zenon, <1>1 DEF FlowInv, OpenInv, PackInv, Owed, Token
<1>6. OpenInv'
  BY Zenon, <1>1, <1>5, OpenStays DEF Unopened
<1>7. ASSUME NEW q \in Packs, q # p PROVE PackInv(q)'
  <2>1. version[q] <= version'[q]
    BY <1>1 DEF Typed
  <2>2. Stays(q)
    BY Zenon, <1>1, <1>2, <1>3, <1>4, <1>7, <2>1 DEF Stays
  <2> QED BY <2>2, PackStays DEF FlowInv
<1>8. PackInv(p)'
  <2>1. handler'["server"][p] = handler["server"][p]
    BY <1>0, <1>2
  <2>2. ~On("client", p) /\ ~Held("client", p) /\ ~On("server", p) /\ ~Held("server", p)
    BY Zenon, <1>1, <1>5 DEF PackInv, Alone
  <2>3. /\ ~On("client", p)' /\ ~Held("client", p)' /\ Busy(p)'
        /\ ~On("server", p)' /\ ~Held("server", p)'
    BY Zenon, <1>1, <1>2, <1>4, <2>2 DEF On, Held, Busy
  <2>4. Alone(p)'
    BY <2>3 DEF Alone
  <2>5. Owed(p)'
    BY Zenon, <1>1, <1>5, <2>1 DEF Owed, PackInv
  <2>6. handler["server"][p].at = "ack" => handler["client"][p].ver = handler["server"][p].ver
    BY Zenon, <1>1, <1>5 DEF Same, PackInv
  <2>7. Same(p)'
    <3>1. \A s \in Sides : ~On(s, p)' /\ ~Held(s, p)'
      BY <2>3 DEF Sides
    <3> QED BY Zenon, <1>2, <2>1, <2>6, <3>1 DEF Same, On
  <2>8. Rising(p)'
    <3>1. Rising(p) /\ Newer(p, handler["client"][p].ver)
      BY Zenon, <1>1, <1>5 DEF Rising, PackInv
    <3>2. handler["server"][p].at \notin {"offer", "wait"}
      BY <1>5 DEF Owed, PackInv
    <3>3. /\ applied[p] \in Int /\ version[p] \in Int /\ handler["client"][p].ver \in Int
      BY <1>0 DEF Typed, Handler
    <3>4. handler'["server"][p].at = "ack" =>
            /\ applied'[p] <= handler'["server"][p].ver
            /\ updateChan'[p] <= handler'["server"][p].ver
            /\ handler'["server"][p].ver <= version'[p]
      BY <1>1, <1>3, <2>1, <2>6, <3>1, <3>3 DEF Newer
    <3>5. /\ applied'[p] < updateChan'[p] /\ applied'[p] <= version'[p]
          /\ updateChan'[p] <= version'[p]
      BY <1>1, <1>3, <3>1, <3>3 DEF Newer
    <3> QED BY Zenon, <1>2, <2>1, <2>3, <3>2, <3>4, <3>5 DEF Rising, On
  <2>9. ClientUp(p)'
    BY <1>2 DEF ClientUp
  <2> QED BY <2>4, <2>5, <2>7, <2>8, <2>9 DEF PackInv
<1> QED BY <1>6, <1>7, <1>8 DEF FlowInv

(***************************************************************************)
(* The client's sending goroutine takes an acknowledgement.                *)
(***************************************************************************)
LEMMA FlowSendAck ==
  ASSUME Typed, Typed', FlowInv, NEW p \in Packs, sendAck(p)
  PROVE  FlowInv'
<1> USE DEF ends, calls, watch
<1>0. "client" \in Sides /\ "server" \in Sides /\ "client" # "server"
  BY DEF Sides
<1>1. /\ handler["client"][p].at = "ack" /\ Busy(p)
      /\ UNCHANGED <<watched, version, done, stream, recv, updateChan, applied>>
  BY DEF sendAck, Busy
<1>2. /\ handler'["client"][p].at = "select"
      /\ \A t \in Sides, q \in Packs : t # "client" \/ q # p => handler'[t][q] = handler[t][q]
  <2> PICK h : h = [at |-> "select", ver |-> 0]
    BY Zenon
  <2>1. handler' = [handler EXCEPT !["client"][p] = h]
    BY DEF sendAck
  <2>2. /\ handler'["client"][p] = h
        /\ \A t \in Sides, q \in Packs : t # "client" \/ q # p => handler'[t][q] = handler[t][q]
    BY <1>0, <2>1 DEF Typed
  <2> QED BY <2>2
<1>3. OpenInv /\ ~Unopened /\ PackInv(p) /\ Token(p) /\ p \in watched
  BY Zenon, <1>1 DEF FlowInv, OpenInv, PackInv, Owed, Token
<1> PICK m : m = [pack |-> p, ver |-> handler["client"][p].ver]
  BY Zenon
<1>4. m \in Msg /\ m.pack = p /\ m.ver = handler["client"][p].ver
  BY <1>0 DEF Typed, Handler, Msg
<1>5. /\ send'["client"] # "open" /\ wire'["client"] = wire["client"]
      /\ wire'["server"] = wire["server"] \/ wire'["server"] = Append(wire["server"], m)
  <2>1. Send("client", m)
    BY DEF sendAck
  <2> QED BY <1>0, <1>4, <2>1, SendWire
<1>6. ~On("client", p) /\ ~Held("client", p) /\ ~On("server", p) /\ ~Held("server", p)
  BY Zenon, <1>1, <1>3 DEF PackInv, Alone
<1>7. /\ OpenInv' /\ Msgs("client")' = Msgs("client")
      /\ Msgs("server")' = Msgs("server") \/ Msgs("server")' = Msgs("server") \cup {m}
  <2>1. \A u \in Sides : u # "server" => wire'[u] = wire[u]
    BY <1>5 DEF Sides
  <2> QED BY Zenon, <1>0, <1>1, <1>3, <1>4, <1>5, <1>6, <2>1, OpenAppend
<1>8. ASSUME NEW q \in Packs, q # p PROVE PackInv(q)'
  <2>1. version[q] <= version'[q]
    BY <1>1 DEF Typed
  <2>2. \A s \in Sides : \A x \in Msgs(s)' : x.pack = q => x \in Msgs(s)
    BY Zenon, <1>4, <1>7, <1>8 DEF Sides
  <2>3. Stays(q)
    BY Zenon, <1>1, <1>2, <1>8, <2>1, <2>2 DEF Stays
  <2> QED BY Zenon, <2>3, PackStays DEF FlowInv
<1>9. PackInv(p)'
  <2>1. /\ ~On("client", p)' /\ ~Held("client", p)' /\ ~Busy(p)' /\ ~Held("server", p)'
        /\ handler'["server"][p] = handler["server"][p]
    BY Zenon, <1>0, <1>1, <1>2, <1>6, <1>7 DEF On, Held, Busy
  <2>2. \A s \in Sides : ~Held(s, p)'
    BY Zenon, <2>1 DEF Sides
  <2>3. \A x \in Msgs("server")' : x.pack = p => x.ver = handler["client"][p].ver
    BY Zenon, <1>4, <1>6, <1>7 DEF On
  <2>4. \A s \in Sides : \A x \in Msgs(s)' : x.pack = p => x.ver = handler["client"][p].ver
    BY Zenon, <2>1, <2>3 DEF Sides, On
  <2>5. Alone(p)'
    BY Zenon, <2>1 DEF Alone
  <2>6. Owed(p)'
    BY Zenon, <1>1, <1>3, <2>1 DEF Owed, PackInv
  <2>7. Same(p)'
    <3>1. handler["server"][p].at = "ack" => handler["client"][p].ver = handler["server"][p].ver
      BY Zenon, <1>1, <1>3 DEF Same, PackInv
    <3> QED BY Zenon, <2>1, <2>2, <2>4, <3>1 DEF Same
  <2>8. Rising(p)'
    <3>1. Rising(p)
      BY Zenon, <1>3 DEF PackInv
    <3>2. handler["server"][p].at # "offer"
      BY <1>3 DEF Owed, PackInv
    <3> QED BY Zenon, <1>1, <1>2, <2>1, <3>1, <3>2 DEF Rising, On
  <2>9. ClientUp(p)'
    BY <1>2 DEF ClientUp
  <2> QED BY Zenon, <2>5, <2>6, <2>7, <2>8, <2>9 DEF PackInv
<1> QED BY <1>7, <1>8, <1>9 DEF FlowInv

(***************************************************************************)
(* A handler exits.                                                        *)
(***************************************************************************)
LEMMA FlowHandlerExits ==
  ASSUME Typed, Typed', FlowInv, NEW e \in Sides, NEW p \in Packs, handlerExits(e, p)
  PROVE  FlowInv'
<1> USE DEF ends, calls, watch
<1>0. "client" \in Sides /\ "server" \in Sides
  BY DEF Sides
<1>1. /\ handler[e][p].at # "off" /\ done[e]
      /\ UNCHANGED <<watched, version, done, stream, wire, recv, send, updateChan, applied>>
  BY DEF handlerExits
<1>2. /\ handler'[e][p].at = "off"
      /\ \A t \in Sides, q \in Packs : t # e \/ q # p => handler'[t][q] = handler[t][q]
  <2> PICK h : h = [at |-> "off", ver |-> 0]
    BY Zenon
  <2>1. handler' = [handler EXCEPT ![e][p] = h]
    BY Zenon DEF handlerExits
  <2>2. /\ handler'[e][p] = h
        /\ \A t \in Sides, q \in Packs : t # e \/ q # p => handler'[t][q] = handler[t][q]
    BY <2>1 DEF Typed
  <2> QED BY <2>2
<1>3. \A s : Msgs(s)' = Msgs(s)
  BY <1>1 DEF Msgs
<1>4. \A q \in Packs : /\ Busy(q)' => Busy(q)
                       /\ handler["server"][q].at = "off" => handler'["server"][q].at = "off"
  BY Zenon, <1>0, <1>2 DEF Busy
<1>5. \A q \in Packs : Token(q)' => Token(q)
  <2> TAKE q \in Packs
  <2>1. \A s \in Sides : On(s, q)' = On(s, q) /\ Held(s, q)' = Held(s, q)
    BY <1>1, <1>3 DEF On, Held
  <2> QED BY <1>0, <1>4, <2>1 DEF Token
<1>6. OpenInv'
  <2>1. OpenInv /\ Unopened' = Unopened
    BY Zenon, <1>1, <1>3 DEF FlowInv, Unopened
  <2> QED BY Zenon, <1>1, <1>3, <1>4, <1>5, <2>1 DEF OpenInv
<1>7. ASSUME NEW q \in Packs, q # p PROVE PackInv(q)'
  <2>1. version[q] <= version'[q]
    BY <1>1 DEF Typed
  <2>2. Stays(q)
    BY Zenon, <1>1, <1>2, <1>3, <1>7, <2>1 DEF Stays
  <2> QED BY Zenon, <2>2, PackStays DEF FlowInv
<1>8. PackInv(p)'
  <2>0. PackInv(p)
    BY DEF FlowInv
  <2>1. \A s \in Sides : On(s, p)' = On(s, p) /\ Held(s, p)' = Held(s, p)
    BY Zenon, <1>1, <1>3 DEF On, Held
  <2>2. Alone(p)'
    BY <1>0, <1>4, <2>0, <2>1 DEF Alone, PackInv
  <2>3. Owed(p)'
    <3>1. CASE e = "server"
      BY Zenon, <1>1, <1>2, <1>5, <2>0, <3>1 DEF Owed, PackInv
    <3>2. CASE e = "client"
      <4>1. handler'["server"][p] = handler["server"][p]
        BY Zenon, <1>0, <1>2, <3>2
      <4> QED BY Zenon, <1>1, <1>5, <2>0, <4>1 DEF Owed, PackInv
    <3> QED BY <3>1, <3>2 DEF Sides
  <2>4. Same(p)'
    <3>1. CASE e = "server"
      BY <1>2, <3>1 DEF Same
    <3>2. CASE e = "client"
      <4>1. handler'["server"][p] = handler["server"][p] /\ ~Busy(p)'
        BY Zenon, <1>0, <1>2, <3>2 DEF Busy
      <4> QED BY Zenon, <1>1, <1>3, <2>0, <2>1, <4>1 DEF Same, PackInv
    <3> QED BY <3>1, <3>2 DEF Sides
  <2>5. Rising(p)'
    <3>1. /\ handler'["server"][p] = handler["server"][p] \/ handler'["server"][p].at = "off"
          /\ handler'["client"][p] = handler["client"][p] \/ handler'["client"][p].at = "off"
      BY <1>0, <1>2
    <3>2. Rising(p)
      BY <2>0 DEF PackInv
    <3>3. /\ \A x \in Msgs("client")' : x.pack = p => Newer(p, x.ver)'
          /\ Held("client", p)' => Newer(p, recv["client"].ver)'
      BY Zenon, <1>0, <1>1, <1>3, <2>1, <3>2 DEF Rising, Newer
    <3>4. /\ handler'["client"][p].at = "put" => Newer(p, handler["client"][p].ver)'
          /\ handler'["server"][p].at = "offer" => Newer(p, handler["server"][p].ver)'
      BY Zenon, <1>1, <3>1, <3>2 DEF Rising, Newer
    <3> QED BY Zenon, <1>1, <3>1, <3>2, <3>3, <3>4 DEF Rising
  <2>6. ClientUp(p)'
    <3>1. CASE e = "server"
      BY Zenon, <1>0, <1>1, <1>2, <2>0, <3>1 DEF ClientUp, PackInv
    <3>2. CASE e = "client"
      BY Zenon, <1>1, <1>2, <3>2 DEF ClientUp
    <3> QED BY <3>1, <3>2 DEF Sides
  <2> QED BY Zenon, <2>2, <2>3, <2>4, <2>5, <2>6 DEF PackInv
<1> QED BY Zenon, <1>6, <1>7, <1>8 DEF FlowInv

(***************************************************************************)
(* The watcher takes the update.                                           *)
(***************************************************************************)
LEMMA FlowTakeUpdate ==
  ASSUME Typed, Typed', FlowInv, NEW p \in Packs, takeUpdate(p)
  PROVE  FlowInv'
<1> USE DEF ends, calls, watch
<1>0. "client" \in Sides /\ "server" \in Sides
  BY DEF Sides
<1>1. /\ updateChan[p] # 0
      /\ UNCHANGED <<watched, version, done, stream, wire, recv, send, handler>>
  BY DEF takeUpdate
<1>2. /\ applied'[p] = updateChan[p] /\ updateChan'[p] = 0
      /\ \A q \in Packs : q # p => applied'[q] = applied[q] /\ updateChan'[q] = updateChan[q]
  BY DEF takeUpdate, Typed
<1>3. \A s : Msgs(s)' = Msgs(s)
  BY Zenon, <1>1 DEF Msgs
<1>4. OpenInv /\ ~Unopened /\ PackInv(p)
  BY <1>1 DEF FlowInv, OpenInv
<1>5. OpenInv'
  BY Zenon, <1>1, <1>4, OpenStays DEF Unopened
<1>6. ASSUME NEW q \in Packs, q # p PROVE PackInv(q)'
  <2>1. version[q] <= version'[q]
    BY <1>1 DEF Typed
  <2>2. Stays(q)
    BY Zenon, <1>1, <1>2, <1>3, <1>6, <2>1 DEF Stays
  <2> QED BY <2>2, PackStays DEF FlowInv
<1>7. PackInv(p)'
  <2>1. /\ \A s \in Sides : On(s, p)' = On(s, p) /\ Held(s, p)' = Held(s, p)
        /\ Busy(p)' = Busy(p)
    BY <1>1, <1>3 DEF On, Held, Busy
  <2>2. Token(p)' = Token(p)
    BY <1>0, <2>1 DEF Token
  <2>3. Alone(p)'
    BY Zenon, <1>0, <1>4, <2>1 DEF Alone, PackInv
  <2>4. Owed(p)'
    BY <1>1, <1>4, <2>2 DEF Owed, PackInv
  <2>5. Same(p)'
    BY Zenon, <1>1, <1>3, <1>4, <2>1 DEF Same, PackInv
  <2>6. Rising(p)'
    <3>1. Rising(p)
      BY <1>4 DEF PackInv
    <3>2. /\ updateChan[p] \in Int /\ updateChan[p] > 0 /\ version[p] \in Int
      BY <1>1 DEF Typed
    <3>3. \A v \in Int : Newer(p, v) => /\ applied'[p] < v /\ updateChan'[p] < v
                                        /\ v <= version'[p]
      BY <1>1, <1>2, <3>2 DEF Newer
    <3>4. \A x \in Msgs("client") : x.ver \in Int
      <4>1. \A x \in Msgs("client") : x \in Msg
        BY <1>0 DEF Msgs, Typed
      <4> QED BY <4>1 DEF Msg
    <3>5. /\ handler["server"][p].ver \in Int /\ handler["client"][p].ver \in Int
          /\ recv["client"].ver \in Int
      <4>1. handler["server"][p] \in Handler /\ handler["client"][p] \in Handler
        BY Zenon, <1>0 DEF Typed
      <4>2. recv["client"] \in Receiving
        BY <1>0 DEF Typed
      <4> QED BY <4>1, <4>2 DEF Handler, Receiving
    <3>6. \A x \in Msgs("client")' : x.pack = p => Newer(p, x.ver)'
      BY Zenon, <1>3, <3>1, <3>3, <3>4 DEF Rising, Newer
    <3>7. /\ Held("client", p)' => Newer(p, recv["client"].ver)'
          /\ handler'["client"][p].at = "put" => Newer(p, handler["client"][p].ver)'
          /\ handler'["server"][p].at = "offer" => Newer(p, handler["server"][p].ver)'
      BY Zenon, <1>0, <1>1, <2>1, <3>1, <3>3, <3>5 DEF Rising, Newer
    <3>8. handler["server"][p].at \in {"wait", "ack"} =>
            /\ updateChan[p] <= handler["server"][p].ver
            /\ handler["server"][p].ver <= version[p]
      BY Zenon, <3>1 DEF Rising
    <3>9. handler["server"][p].at \in {"wait", "ack"} => 0 <= handler["server"][p].ver
      BY <3>2, <3>5, <3>8
    <3>10. updateChan[p] <= version[p] /\ 0 <= version[p]
      BY <3>1, <3>2 DEF Rising
    <3> QED BY Zenon, <1>1, <1>2, <3>6, <3>7, <3>8, <3>9, <3>10 DEF Rising
  <2>7. ClientUp(p)'
    BY Zenon, <1>1, <1>4 DEF ClientUp, PackInv
  <2> QED BY <2>3, <2>4, <2>5, <2>6, <2>7 DEF PackInv
<1> QED BY <1>5, <1>6, <1>7 DEF FlowInv

(***************************************************************************)
(* Every step keeps the invariant.                                         *)
(***************************************************************************)
LEMMA FlowStep == Typed /\ Typed' /\ FlowInv /\ [Next]_vars => FlowInv'
<1> SUFFICES ASSUME Typed, Typed', FlowInv, [Next]_vars PROVE FlowInv'
  OBVIOUS
<1>0. "client" \in Sides /\ "server" \in Sides
  BY DEF Sides
<1>1. \A s \in Sides : NoWire[s] = <<>>
  BY DEF NoWire
<1>2. CASE breakLink \/ stopServer \/ SDSSrv \/ Kill \/ ctxFires \/ UNCHANGED vars
  <2>1. /\ UNCHANGED <<watched, version, handler, updateChan, applied, recv, stream, send>>
        /\ wire' = wire \/ wire' = NoWire
    BY Zenon, <1>2 DEF breakLink, stopServer, SDSSrv, Kill, ctxFires, vars, ends, calls, watch
  <2>2. \A s \in Sides : done[s] => done'[s]
    BY <1>0, <1>2 DEF breakLink, stopServer, SDSSrv, Kill, ctxFires, vars, calls, Typed
  <2> QED BY Zenon, <1>1, <2>1, <2>2, FlowFades
<1>3. CASE streamFails \/ \E s \in Sides : streamReturns(s)
  <2>1. /\ UNCHANGED <<watched, version, handler, updateChan, applied, recv, send>>
        /\ wire' = wire \/ wire' = NoWire
    BY Zenon, <1>3 DEF streamFails, streamReturns, ends, watch
  <2>2. /\ \A s \in Sides : done[s] => done'[s]
        /\ stream'["client"] = "off" => stream["client"] = "off"
        /\ stream["client"] = "off" => stream'["client"] = "off" \/ done'["client"]
    BY Zenon, <1>0, <1>3 DEF streamFails, streamReturns, Typed
  <2> QED BY Zenon, <1>1, <2>1, <2>2, FlowFades
<1>4. CASE StreamSecrets
  <2>1. UNCHANGED <<watched, version, handler, updateChan, applied, wire, done>>
    BY Zenon, <1>4 DEF StreamSecrets, ends, watch
  <2>2. /\ stream'["client"] = stream["client"] /\ send'["client"] = send["client"]
        /\ recv'["client"] = recv["client"] /\ recv'["server"].at = "recv"
    BY <1>0, <1>4 DEF StreamSecrets, Typed, At
  <2>3. \A s \in Sides : recv'[s] = recv[s] \/ recv'[s].at # "deliver"
    BY Zenon, <2>2 DEF Sides
  <2> QED BY Zenon, <2>1, <2>2, <2>3, FlowFades
<1>5. ASSUME NEW s \in Sides, recvExits(s) \/ sendExits(s) PROVE FlowInv'
  <2>1. UNCHANGED <<watched, version, handler, updateChan, applied, wire, done>>
    BY Zenon, <1>5 DEF recvExits, sendExits, ends, watch
  <2>2. \A t \in Sides : recv'[t] = recv[t] \/ recv'[t].at # "deliver"
    BY <1>5 DEF recvExits, sendExits, Typed, Off, At
  <2>3. send'["client"] = "open" => send["client"] = "open"
    BY Zenon, <1>0, <1>5 DEF recvExits, sendExits, Typed
  <2>4. stream' = stream \/ (stream[s] = "run" /\ stream' = [stream EXCEPT ![s] = "failed"])
    BY <1>5 DEF recvExits, sendExits, sendStreamErr
  <2>5. /\ stream'["client"] = "off" => stream["client"] = "off"
        /\ stream["client"] = "off" => stream'["client"] = "off"
    BY <1>0, <2>4 DEF Typed
  <2> QED BY Zenon, <2>1, <2>2, <2>3, <2>5, FlowFades
<1>6. CASE Stream \/ sendOpen \/ recvOpen
  BY <1>6, FlowStream, FlowSendOpen, FlowRecvOpen
<1>7. ASSUME NEW s \in Sides, recvMsg(s) PROVE FlowInv'
  BY <1>7, FlowRecvMsg
<1>8. ASSUME NEW p \in Packs, issue(p) \/ takeUpdate(p) PROVE FlowInv'
  BY <1>8, FlowIssue, FlowTakeUpdate
<1>9. ASSUME NEW p \in Packs, offerWait(p) \/ offer(p) \/ takeAck(p) PROVE FlowInv'
  BY Zenon, <1>9, FlowOfferWait, FlowOffer, FlowTakeAck
<1>10. ASSUME NEW p \in Packs, takeOffer(p) \/ putUpdate(p) \/ sendAck(p) PROVE FlowInv'
  BY <1>10, FlowTakeOffer, FlowPutUpdate, FlowSendAck
<1>11. ASSUME NEW s \in Sides, NEW p \in Packs, handlerExits(s, p) PROVE FlowInv'
  BY <1>11, FlowHandlerExits
<1> QED
  BY Zenon, <1>0, <1>2, <1>3, <1>4, <1>5, <1>6, <1>7, <1>8, <1>9, <1>10, <1>11
     DEF Next, Goroutines, Receiver, Sender, ServerHandler, ClientHandler

\* A receiving goroutine holds a message of a pack.
HeldInv == \A s \in Sides : recv[s].at = "deliver" => recv[s].pack \in Packs

(***************************************************************************)
(* Every step keeps HeldInv: only recvMsg takes a message, and never the   *)
(* first request.                                                          *)
(***************************************************************************)
LEMMA HeldStep == Typed /\ FlowInv /\ HeldInv /\ [Next]_vars => HeldInv'
<1> SUFFICES ASSUME Typed, FlowInv, HeldInv, [Next]_vars PROVE HeldInv'
  OBVIOUS
<1>1. ASSUME NEW s \in Sides, recvMsg(s) PROVE HeldInv'
  <2>1. wire[s] # <<>> /\ Head(wire[s]) # Open
    BY <1>1 DEF recvMsg
  <2>2. Head(wire[s]) \in Msgs(s)
    <3>1. wire[s] \in Seq(Msg)
      BY DEF Typed
    <3>2. 1 \in DOMAIN wire[s] /\ Head(wire[s]) = wire[s][1]
      BY <2>1, <3>1
    <3> QED BY <3>2 DEF Msgs
  <2>3. Head(wire[s]).pack \in Packs
    BY Zenon, <2>1, <2>2 DEF FlowInv, OpenInv, Typed, Sides
  <2> QED BY <1>1, <2>3 DEF recvMsg, HeldInv, Typed, At
<1>2. CASE \A s \in Sides : recv'[s] = recv[s] \/ recv'[s].at # "deliver"
  BY <1>2 DEF HeldInv
<1>3. CASE UNCHANGED recv
  BY Zenon, <1>2, <1>3
<1>4. CASE Stream \/ StreamSecrets \/ recvOpen
  BY <1>2, <1>4 DEF Stream, StreamSecrets, recvOpen, Typed, Off, At
<1>5. ASSUME NEW p \in Packs, takeAck(p) \/ takeOffer(p) PROVE HeldInv'
  BY <1>2, <1>5 DEF takeAck, takeOffer, Typed, At
<1>6. ASSUME NEW s \in Sides, recvExits(s) PROVE HeldInv'
  BY Zenon, <1>2, <1>6 DEF recvExits, Typed, Off, At
<1>7. ASSUME NEW s \in Sides, streamReturns(s) \/ sendExits(s) PROVE UNCHANGED recv
  BY Zenon, <1>7 DEF streamReturns, sendExits
<1>8. ASSUME NEW p \in Packs,
             \/ offerWait(p) \/ offer(p) \/ putUpdate(p) \/ sendAck(p) \/ issue(p) \/ takeUpdate(p)
             \/ handlerExits("server", p) \/ handlerExits("client", p)
      PROVE  UNCHANGED recv
  BY Zenon, <1>8 DEF offerWait, offer, putUpdate, sendAck, issue, takeUpdate, handlerExits
<1>9. CASE SDSSrv \/ ctxFires \/ breakLink \/ stopServer \/ Kill \/ streamFails \/ sendOpen
           \/ UNCHANGED vars
  BY <1>3, <1>9 DEF SDSSrv, ctxFires, breakLink, stopServer, Kill, streamFails, sendOpen, vars
<1> QED
  BY Zenon, <1>1, <1>3, <1>4, <1>5, <1>6, <1>7, <1>8, <1>9
     DEF Next, Goroutines, Receiver, Sender, ServerHandler, ClientHandler

(***************************************************************************)
(* The invariant holds of every behaviour.                                 *)
(***************************************************************************)
LEMMA FlowInvariant == Spec => [](Typed /\ FlowInv /\ HeldInv)
<1>0. "client" \in Sides /\ "server" \in Sides
  BY Zenon DEF Sides
<1>1. Init => Typed
  BY Records, ConstantsAssumption DEF Init, Typed
<1>2. Init => FlowInv
  <2> SUFFICES ASSUME Init PROVE FlowInv
    OBVIOUS
  <2>1. \A s \in Sides : Msgs(s) = {} /\ DOMAIN wire[s] = {}
    BY DEF Init, Msgs
  <2>2. \A s \in Sides : recv[s].at = "off"
    BY DEF Init, Off, At
  <2>3. \A p \in Packs, s \in Sides : handler[s][p].at = "off"
    BY DEF Init
  <2>4. \A p \in Packs, s \in Sides : ~On(s, p) /\ ~Held(s, p)
    BY Zenon, <2>1, <2>2 DEF On, Held
  <2>5. \A p \in Packs : ~Token(p) /\ ~Busy(p)
    BY Zenon, <1>0, <2>3, <2>4 DEF Token, Busy
  <2>6. \A p \in Packs : updateChan[p] = 0 /\ applied[p] = 0 /\ version[p] = 0
    BY DEF Init
  <2>7. stream["client"] = "off" /\ send["client"] = "off"
    BY Zenon, <1>0 DEF Init
  <2>8. OpenInv
    BY Zenon, <1>0, <2>1, <2>3, <2>5, <2>6, <2>7 DEF OpenInv
  <2>9. ASSUME NEW p \in Packs PROVE PackInv(p)
    <3>1. Alone(p) /\ Owed(p) /\ Same(p)
      BY Zenon, <1>0, <2>3, <2>4, <2>5 DEF Alone, Owed, Same
    <3>2. Rising(p)
      <4>1. /\ handler["client"][p].at = "off" /\ handler["server"][p].at = "off"
            /\ Msgs("client") = {} /\ ~Held("client", p)
        BY Zenon, <1>0, <2>1, <2>3, <2>4
      <4>2. /\ applied[p] <= version[p] /\ updateChan[p] <= version[p]
            /\ updateChan[p] # 0 => applied[p] < updateChan[p]
        BY <2>6
      <4> QED BY Zenon, <4>1, <4>2 DEF Rising
    <3>3. ClientUp(p)
      BY Zenon, <1>0, <2>3, <2>7 DEF ClientUp
    <3> QED BY Zenon, <3>1, <3>2, <3>3 DEF PackInv
  <2> QED BY <2>8, <2>9 DEF FlowInv
<1>3. Init => HeldInv
  BY DEF Init, HeldInv, Off, At
<1> QED BY <1>1, <1>2, <1>3, TypedStep, FlowStep, HeldStep, PTL DEF Spec

-----------------------------------------------------------------------------
(* What is acknowledged was put *)

\* The acknowledgement of pack p, wherever it is on its way back, and the handler that
\* has got it, have the version the watcher has or will take next.
PutInv(p) ==
  /\ \A m \in Msgs("server") : m.pack = p => m.ver = Latest(p)
  /\ Held("server", p) => recv["server"].ver = Latest(p)
  /\ handler["client"][p].at = "ack" => handler["client"][p].ver = Latest(p)
  /\ handler["server"][p].at = "wait" => handler["server"][p].ver = Latest(p)

AllPut == \A p \in Packs : PutInv(p)

\* A step that brings pack q nothing new on the way back.
Quiet(q) ==
  /\ \A m \in Msgs("server")' : m.pack = q => m \in Msgs("server")
  /\ Held("server", q)' => recv'["server"] = recv["server"]
  /\ handler'["client"][q] = handler["client"][q] \/ handler'["client"][q].at # "ack"
  /\ handler'["server"][q] = handler["server"][q] \/ handler'["server"][q].at # "wait"
  /\ Latest(q)' = Latest(q)

(***************************************************************************)
(* Such a step keeps what is said of q.                                    *)
(***************************************************************************)
LEMMA PutQuiet ==
  ASSUME NEW q \in Packs, PutInv(q), Quiet(q)
  PROVE  PutInv(q)'
<1>1. Held("server", q)' => Held("server", q)
  BY DEF Quiet, Held
<1> QED BY Zenon, <1>1 DEF PutInv, Quiet

(***************************************************************************)
(* A receiving goroutine takes a message.                                  *)
(***************************************************************************)
LEMMA PutRecvMsg ==
  ASSUME Typed, FlowInv, NEW s \in Sides, recvMsg(s), NEW q \in Packs, PutInv(q)
  PROVE  PutInv(q)'
<1>0. "client" \in Sides /\ "server" \in Sides
  BY DEF Sides
<1>1. UNCHANGED <<handler, updateChan, applied>>
  BY DEF recvMsg, watch
<1>2. Latest(q)' = Latest(q)
  BY <1>1 DEF Latest
<1>3. /\ wire[s] # <<>> /\ wire'[s] = Tail(wire[s])
      /\ \A t \in Sides : t # s => wire'[t] = wire[t]
  BY Zenon, RecvWire DEF recvMsg
<1>4. /\ Head(wire[s]) \in Msgs(s)
      /\ \A t \in Sides : \A m \in Msgs(t)' : m \in Msgs(t)
  <2>1. \A i, j \in DOMAIN wire[s] : wire[s][i].pack = wire[s][j].pack => i = j
    BY Zenon DEF FlowInv, OpenInv
  <2>2. \A t \in Sides : t # s => Msgs(t)' = Msgs(t)
    BY Zenon, <1>3 DEF Msgs
  <2> QED BY Zenon, <1>3, <2>1, <2>2, MsgsTail
<1>5. CASE s = "client"
  <2>1. recv'["server"] = recv["server"]
    BY <1>0, <1>5 DEF recvMsg, Typed
  <2> QED BY Zenon, <1>0, <1>1, <1>2, <1>4, <2>1, PutQuiet DEF Quiet
<1>6. CASE s = "server"
  <2>1. recv'["server"].pack = Head(wire[s]).pack /\ recv'["server"].ver = Head(wire[s]).ver
    BY Zenon, <1>0, <1>6 DEF recvMsg, Typed, At
  <2>2. Held("server", q)' => recv'["server"].ver = Latest(q)
    BY Zenon, <1>4, <1>6, <2>1 DEF PutInv, Held
  <2> QED BY Zenon, <1>0, <1>1, <1>2, <1>4, <2>2 DEF PutInv
<1> QED BY <1>5, <1>6 DEF Sides

(***************************************************************************)
(* The server's handler has got its acknowledgement.                       *)
(***************************************************************************)
LEMMA PutTakeAck ==
  ASSUME Typed, FlowInv, NEW p \in Packs, takeAck(p), NEW q \in Packs, PutInv(q)
  PROVE  PutInv(q)'
<1>0. "client" \in Sides /\ "server" \in Sides
  BY DEF Sides
<1>1. /\ handler["server"][p].at = "ack" /\ Held("server", p)
      /\ UNCHANGED <<wire, updateChan, applied>>
  BY DEF takeAck, Held, watch
<1>2. /\ handler'["server"][p].ver = handler["server"][p].ver
      /\ \A t \in Sides, r \in Packs : t # "server" \/ r # p => handler'[t][r] = handler[t][r]
  <2>1. handler' = [handler EXCEPT !["server"][p].at = "wait"]
    BY Zenon DEF takeAck
  <2> QED BY Zenon, <1>0, <2>1, HandlerAt
<1>3. Latest(q)' = Latest(q) /\ Msgs("server")' = Msgs("server")
  BY <1>1 DEF Latest, Msgs
<1>4. recv'["server"].at = "recv"
  BY Zenon, <1>0 DEF takeAck, Typed, At
<1>5. CASE q = p
  <2>1. handler["server"][p].ver = recv["server"].ver
    BY Zenon, <1>0, <1>1 DEF FlowInv, PackInv, Same
  <2>2. handler'["server"][q].ver = Latest(q)
    BY Zenon, <1>1, <1>2, <1>5, <2>1 DEF PutInv
  <2>3. handler'["client"][q] = handler["client"][q]
    BY Zenon, <1>0, <1>2
  <2> QED BY Zenon, <1>3, <1>4, <2>2, <2>3 DEF PutInv, Held
<1>6. CASE q # p
  BY Zenon, <1>0, <1>2, <1>3, <1>4, <1>6, PutQuiet DEF Quiet, Held
<1> QED BY <1>5, <1>6

(***************************************************************************)
(* An update is put.                                                       *)
(***************************************************************************)
LEMMA PutPutUpdate ==
  ASSUME Typed, FlowInv, NEW p \in Packs, putUpdate(p), NEW q \in Packs, PutInv(q)
  PROVE  PutInv(q)'
<1>0. "client" \in Sides /\ "server" \in Sides
  BY DEF Sides
<1>1. /\ handler["client"][p].at = "put" /\ Busy(p)
      /\ UNCHANGED <<wire, recv, applied>>
  BY DEF putUpdate, Busy
<1>2. /\ handler'["client"][p].ver = handler["client"][p].ver
      /\ \A t \in Sides, r \in Packs : t # "client" \/ r # p => handler'[t][r] = handler[t][r]
  <2>1. handler' = [handler EXCEPT !["client"][p].at = "ack"]
    BY DEF putUpdate
  <2> QED BY Zenon, <1>0, <2>1, HandlerAt
<1>3. /\ updateChan'[p] = handler["client"][p].ver
      /\ \A r \in Packs : r # p => updateChan'[r] = updateChan[r]
  BY DEF putUpdate, Typed
<1>4. Msgs("server")' = Msgs("server")
  BY Zenon, <1>1 DEF Msgs
<1>5. CASE q = p
  <2>1. PackInv(p) /\ Token(p)
    BY Zenon, <1>1 DEF FlowInv, Token
  <2>2. ~On("server", p)' /\ ~Held("server", p)'
    BY Zenon, <1>1, <1>4, <2>1 DEF PackInv, Alone, On, Held
  <2>3. handler'["server"][p].at # "wait"
    BY Zenon, <1>0, <1>2, <2>1 DEF PackInv, Owed
  <2>4. handler["client"][p].ver # 0
    <3>1. applied[p] < handler["client"][p].ver
      BY Zenon, <1>1, <2>1 DEF PackInv, Rising, Newer
    <3> QED BY <3>1 DEF Typed
  <2>5. Latest(p)' = handler'["client"][p].ver
    BY Zenon, <1>2, <1>3, <2>4 DEF Latest
  <2> QED BY Zenon, <1>5, <2>2, <2>3, <2>5 DEF PutInv, On
<1>6. CASE q # p
  <2>1. Latest(q)' = Latest(q)
    BY Zenon, <1>1, <1>3, <1>6 DEF Latest
  <2> QED BY Zenon, <1>0, <1>1, <1>2, <1>4, <1>6, <2>1, PutQuiet DEF Quiet
<1> QED BY <1>5, <1>6

(***************************************************************************)
(* Its acknowledgement is sent.                                            *)
(***************************************************************************)
LEMMA PutSendAck ==
  ASSUME Typed, FlowInv, NEW p \in Packs, sendAck(p), NEW q \in Packs, PutInv(q)
  PROVE  PutInv(q)'
<1>0. "client" \in Sides /\ "server" \in Sides /\ "client" # "server"
  BY Zenon DEF Sides
<1>1. /\ handler["client"][p].at = "ack" /\ Busy(p)
      /\ UNCHANGED <<recv, updateChan, applied>>
  BY Zenon DEF sendAck, Busy, watch
<1>2. /\ handler'["client"][p].at = "select"
      /\ \A t \in Sides, r \in Packs : t # "client" \/ r # p => handler'[t][r] = handler[t][r]
  <2> PICK h : h = [at |-> "select", ver |-> 0]
    BY Zenon
  <2>1. handler' = [handler EXCEPT !["client"][p] = h]
    BY Zenon DEF sendAck
  <2>2. /\ handler'["client"][p] = h
        /\ \A t \in Sides, r \in Packs : t # "client" \/ r # p => handler'[t][r] = handler[t][r]
    BY <1>0, <2>1 DEF Typed
  <2> QED BY <2>2
<1> PICK m : m = [pack |-> p, ver |-> handler["client"][p].ver]
  BY Zenon
<1>3. m \in Msg /\ m.pack = p /\ m.ver = handler["client"][p].ver
  BY Zenon, <1>0 DEF Typed, Handler, Msg
<1>4. wire'["server"] = wire["server"] \/ wire'["server"] = Append(wire["server"], m)
  <2>1. Send("client", m)
    BY Zenon DEF sendAck
  <2> QED BY Zenon, <1>0, <1>3, <2>1, SendWire
<1>5. ~On("server", p)
  BY Zenon, <1>1 DEF FlowInv, PackInv, Alone
<1>6. Msgs("server")' = Msgs("server") \/ Msgs("server")' = Msgs("server") \cup {m}
  <2>1. CASE wire'["server"] = wire["server"]
    BY Zenon, <2>1 DEF Msgs
  <2>2. CASE wire'["server"] = Append(wire["server"], m)
    <3>1. \A i, j \in DOMAIN wire["server"] :
            wire["server"][i].pack = wire["server"][j].pack => i = j
      BY Zenon, <1>0 DEF FlowInv, OpenInv
    <3> QED BY Zenon, <1>0, <1>3, <1>5, <2>2, <3>1, MsgsAppend
  <2> QED BY Zenon, <1>4, <2>1, <2>2
<1>7. Latest(q)' = Latest(q)
  BY Zenon, <1>1 DEF Latest
<1>8. \A x \in Msgs("server")' : x.pack = q => x.ver = Latest(q)
  BY Zenon, <1>1, <1>3, <1>6 DEF PutInv
<1>9. handler'["client"][q].at = "ack" => handler'["client"][q] = handler["client"][q]
  BY Zenon, <1>0, <1>2
<1>10. handler'["server"][q] = handler["server"][q]
  BY Zenon, <1>0, <1>2
<1> QED BY Zenon, <1>1, <1>7, <1>8, <1>9, <1>10 DEF PutInv, Held

(***************************************************************************)
(* The handlers start: nothing was put, and they have seen nothing.        *)
(***************************************************************************)
LEMMA PutRecvOpen ==
  ASSUME Typed, Typed', FlowInv, recvOpen, NEW q \in Packs, PutInv(q)
  PROVE  PutInv(q)'
<1>0. "client" \in Sides /\ "server" \in Sides
  BY DEF Sides
<1>1. UNCHANGED <<updateChan, applied>> /\ wire["server"] # <<>> /\ Head(wire["server"]) = Open
  BY Zenon DEF recvOpen, watch
<1>2. recv'["server"] = recv["server"] \/ recv'["server"].at = "off"
  BY <1>0 DEF recvOpen, Typed, Off, At
<1>3. wire'["server"] = Tail(wire["server"])
  BY Zenon, <1>0, RecvWire DEF recvOpen
<1>4. /\ Open \in Msgs("server") /\ \A m \in Msgs("server")' : m \in Msgs("server")
  <2>1. \A i, j \in DOMAIN wire["server"] :
          wire["server"][i].pack = wire["server"][j].pack => i = j
    BY Zenon, <1>0 DEF FlowInv, OpenInv
  <2> QED BY Zenon, <1>0, <1>1, <1>3, <2>1, MsgsTail
<1>5. updateChan[q] = 0 /\ applied[q] = 0
  BY Zenon, <1>4 DEF FlowInv, OpenInv, Unopened
<1>6. Latest(q)' = Latest(q) /\ Latest(q) = 0
  BY <1>1, <1>5 DEF Latest
<1>7. /\ handler'["client"][q] = handler["client"][q]
      /\ \/ handler'["server"][q] = handler["server"][q]
         \/ handler'["server"][q].ver = 0
  <2> DEFINE hs == [p \in Packs |-> [at |-> IF p \in watched THEN "wait" ELSE "off", ver |-> 0]]
  <2>1. handler' = [handler EXCEPT !["server"] = hs] \/ handler' = handler
    BY DEF recvOpen
  <2>2. hs[q].ver = 0
    OBVIOUS
  <2> HIDE DEF hs
  <2> QED BY Zenon, <1>0, <2>1, <2>2 DEF Typed
<1>8. Held("server", q)' => Held("server", q) /\ recv'["server"] = recv["server"]
  BY Zenon, <1>2 DEF Held
<1> QED BY Zenon, <1>4, <1>6, <1>7, <1>8 DEF PutInv

(***************************************************************************)
(* The watcher takes the update: it still has it.                          *)
(***************************************************************************)
LEMMA PutTakeUpdate ==
  ASSUME Typed, NEW p \in Packs, takeUpdate(p), NEW q \in Packs, PutInv(q)
  PROVE  PutInv(q)'
<1>1. UNCHANGED <<wire, recv, handler>> /\ updateChan[p] # 0
  BY Zenon DEF takeUpdate
<1>2. /\ applied'[p] = updateChan[p] /\ updateChan'[p] = 0
      /\ \A r \in Packs : r # p => applied'[r] = applied[r] /\ updateChan'[r] = updateChan[r]
  BY Zenon DEF takeUpdate, Typed
<1>3. Latest(q)' = Latest(q)
  BY Zenon, <1>1, <1>2 DEF Latest
<1>4. Msgs("server")' = Msgs("server")
  BY Zenon, <1>1 DEF Msgs
<1> QED BY Zenon, <1>1, <1>3, <1>4, PutQuiet DEF Quiet

(***************************************************************************)
(* Every step keeps PutInv.                                                *)
(***************************************************************************)
LEMMA PutStep ==
  Typed /\ Typed' /\ FlowInv /\ AllPut /\ [Next]_vars => AllPut'
<1> SUFFICES ASSUME Typed, Typed', FlowInv, [Next]_vars, NEW q \in Packs, PutInv(q)
             PROVE  PutInv(q)'
  BY DEF AllPut
<1>0. "client" \in Sides /\ "server" \in Sides
  BY Zenon DEF Sides
<1> DEFINE Lost == /\ UNCHANGED <<handler, updateChan, applied>>
                   /\ wire'["server"] = wire["server"] \/ wire'["server"] = <<>>
                   /\ recv'["server"] = recv["server"] \/ recv'["server"].at # "deliver"
<1>1. ASSUME Lost PROVE PutInv(q)'
  <2>1. Msgs("server")' = Msgs("server") \/ Msgs("server")' = {}
    BY <1>1 DEF Msgs
  <2>2. Latest(q)' = Latest(q)
    BY <1>1 DEF Latest
  <2>3. Held("server", q)' => recv'["server"] = recv["server"]
    BY <1>1 DEF Held
  <2> QED BY Zenon, <1>1, <2>1, <2>2, <2>3, PutQuiet DEF Quiet
<1>2. NoWire["server"] = <<>>
  BY <1>0 DEF NoWire
<1>3. CASE breakLink \/ stopServer \/ SDSSrv \/ Kill \/ ctxFires \/ streamFails
           \/ UNCHANGED vars \/ \E p \in Packs : issue(p)
  <2>1. UNCHANGED <<handler, updateChan, applied, recv>> /\ (wire' = wire \/ wire' = NoWire)
    BY Zenon, <1>3 DEF breakLink, stopServer, SDSSrv, Kill, ctxFires, streamFails, issue, vars, watch
  <2> QED BY Zenon, <1>1, <1>2, <2>1
<1>4. ASSUME NEW s \in Sides, streamReturns(s) \/ sendExits(s) \/ recvExits(s)
      PROVE  PutInv(q)'
  <2>1. UNCHANGED <<handler, updateChan, applied>> /\ (wire' = wire \/ wire' = NoWire)
    BY Zenon, <1>4 DEF streamReturns, sendExits, recvExits, watch
  <2>2. recv'["server"] = recv["server"] \/ recv'["server"].at # "deliver"
    BY <1>0, <1>4 DEF streamReturns, sendExits, recvExits, Typed, Off, At
  <2> QED BY Zenon, <1>1, <1>2, <2>1, <2>2
<1>5. CASE StreamSecrets
  BY Zenon, <1>0, <1>1, <1>5 DEF StreamSecrets, Typed, At, watch
<1>6. CASE Stream
  <2>1. UNCHANGED <<wire, updateChan, applied>> /\ recv'["server"] = recv["server"]
    BY Zenon, <1>0, <1>6 DEF Stream, Typed, watch
  <2>2. /\ handler'["server"][q] = handler["server"][q]
        /\ handler'["client"][q].at = IF q \in watched THEN "select" ELSE "off"
    BY <1>0, <1>6 DEF Stream, Typed
  <2>3. Msgs("server")' = Msgs("server") /\ Latest(q)' = Latest(q)
    BY Zenon, <2>1 DEF Msgs, Latest
  <2> QED BY Zenon, <2>1, <2>2, <2>3, PutQuiet DEF Quiet
<1>7. CASE sendOpen
  <2>1. UNCHANGED <<handler, recv, updateChan, applied>> /\ Send("client", Open)
    BY Zenon, <1>7 DEF sendOpen, watch
  <2>2. wire'["server"] = wire["server"] \/ wire'["server"] = Append(wire["server"], Open)
    BY Zenon, <1>0, <2>1, SendWire, Records
  <2>3. \A m \in Msgs("server")' : m.pack = q => m \in Msgs("server")
    <3>1. q # None /\ Open.pack = None
      BY Zenon, ConstantsAssumption DEF Open
    <3>2. CASE wire'["server"] = wire["server"]
      BY Zenon, <3>2 DEF Msgs
    <3>3. CASE wire'["server"] = Append(wire["server"], Open)
      <4>1. wire["server"] \in Seq(Msg) /\ Open \in Msg
        BY Zenon, <1>0, Records DEF Typed
      <4>2. \A i \in DOMAIN wire'["server"] :
              \/ i \in DOMAIN wire["server"] /\ wire'["server"][i] = wire["server"][i]
              \/ wire'["server"][i] = Open
        BY SMTT(30), <3>3, <4>1
      <4> QED BY Zenon, <3>1, <4>2 DEF Msgs
    <3> QED BY Zenon, <2>2, <3>2, <3>3
  <2>4. Latest(q)' = Latest(q)
    BY <2>1 DEF Latest
  <2> QED BY Zenon, <2>1, <2>3, <2>4, PutQuiet DEF Quiet
<1>8. CASE recvOpen
  BY Zenon, <1>8, PutRecvOpen
<1>9. ASSUME NEW s \in Sides, recvMsg(s) PROVE PutInv(q)'
  BY Zenon, <1>9, PutRecvMsg
<1>10. ASSUME NEW p \in Packs, offerWait(p) \/ takeOffer(p) PROVE PutInv(q)'
  <2>1. UNCHANGED <<wire, updateChan, applied>>
    BY Zenon, <1>10 DEF offerWait, takeOffer, watch
  <2>2. recv'["server"] = recv["server"]
    BY Zenon, <1>0, <1>10 DEF offerWait, takeOffer, Typed
  <2>3. /\ handler'["client"][q] = handler["client"][q] \/ handler'["client"][q].at # "ack"
        /\ handler'["server"][q] = handler["server"][q] \/ handler'["server"][q].at # "wait"
    <3>1. CASE offerWait(p)
      <4> PICK h : h = [at |-> "offer", ver |-> version[p]]
        BY Zenon
      <4>1. handler' = [handler EXCEPT !["server"][p] = h] /\ h.at # "wait"
        BY Zenon, <3>1 DEF offerWait
      <4> QED BY Zenon, <1>0, <4>1 DEF Typed
    <3>2. CASE takeOffer(p)
      <4> PICK h : h = [at |-> "put", ver |-> recv["client"].ver]
        BY Zenon
      <4>1. handler' = [handler EXCEPT !["client"][p] = h] /\ h.at # "ack"
        BY Zenon, <3>2 DEF takeOffer
      <4> QED BY <1>0, <4>1 DEF Typed
    <3> QED BY Zenon, <1>10, <3>1, <3>2
  <2>4. Msgs("server")' = Msgs("server") /\ Latest(q)' = Latest(q)
    BY Zenon, <2>1 DEF Msgs, Latest
  <2> QED BY Zenon, <2>2, <2>3, <2>4, PutQuiet DEF Quiet
<1>11. ASSUME NEW p \in Packs, offer(p) PROVE PutInv(q)'
  <2>1. UNCHANGED <<recv, updateChan, applied>>
    BY <1>11 DEF offer, watch
  <2>2. /\ handler'["server"][p].at = "ack"
        /\ \A t \in Sides, r \in Packs : t # "server" \/ r # p => handler'[t][r] = handler[t][r]
    <3>1. handler' = [handler EXCEPT !["server"][p].at = "ack"]
      BY Zenon, <1>11 DEF offer
    <3> QED BY Zenon, <1>0, <3>1, HandlerAt
  <2>3. wire'["server"] = wire["server"]
    <3> PICK m : m = [pack |-> p, ver |-> handler["server"][p].ver]
      BY Zenon
    <3>1. m \in Msg
      BY <1>0 DEF Typed, Handler, Msg
    <3>2. Send("server", m)
      BY Zenon, <1>11 DEF offer
    <3> QED BY Zenon, <1>0, <3>1, <3>2, SendWire
  <2>4. Msgs("server")' = Msgs("server") /\ Latest(q)' = Latest(q)
    BY Zenon, <2>1, <2>3 DEF Msgs, Latest
  <2>5. /\ handler'["client"][q] = handler["client"][q]
        /\ handler'["server"][q] = handler["server"][q] \/ handler'["server"][q].at # "wait"
    BY Zenon, <1>0, <2>2
  <2> QED BY Zenon, <2>1, <2>4, <2>5, PutQuiet DEF Quiet
<1>12. ASSUME NEW p \in Packs, takeAck(p) \/ putUpdate(p) \/ sendAck(p) \/ takeUpdate(p)
       PROVE  PutInv(q)'
  BY Zenon, <1>12, PutTakeAck, PutPutUpdate, PutSendAck, PutTakeUpdate
<1>13. ASSUME NEW s \in Sides, NEW p \in Packs, handlerExits(s, p) PROVE PutInv(q)'
  <2>1. UNCHANGED <<wire, recv, updateChan, applied>>
    BY Zenon, <1>13 DEF handlerExits, watch
  <2>2. /\ handler'["client"][q] = handler["client"][q] \/ handler'["client"][q].at # "ack"
        /\ handler'["server"][q] = handler["server"][q] \/ handler'["server"][q].at # "wait"
    BY Zenon, <1>0, <1>13 DEF handlerExits, Typed
  <2>3. Msgs("server")' = Msgs("server") /\ Latest(q)' = Latest(q)
    BY <2>1 DEF Msgs, Latest
  <2> QED BY Zenon, <2>1, <2>2, <2>3, PutQuiet DEF Quiet
<1> QED
  BY Zenon, <1>0, <1>3, <1>4, <1>5, <1>6, <1>7, <1>8, <1>9, <1>10, <1>11, <1>12, <1>13
     DEF Next, Goroutines, Receiver, Sender, ServerHandler, ClientHandler

(***************************************************************************)
(* PutInv holds of every pack in every behaviour.                          *)
(***************************************************************************)
LEMMA PutInvariant == Spec => []AllPut
<1>1. Init => AllPut
  BY DEF Init, AllPut, PutInv, Msgs, Held, Off, At, Sides
<1> QED BY <1>1, FlowInvariant, PutStep, PTL DEF Spec

-----------------------------------------------------------------------------
(* The length of the wires *)

\* What TypeOK says of the variables no other invariant needs.
RestInv == watched # {} /\ admitted \in BOOLEAN /\ link \in {"up", "stopping", "down"}

(***************************************************************************)
(* Every step keeps RestInv.                                               *)
(***************************************************************************)
LEMMA RestStep == RestInv /\ [Next]_vars => RestInv'
<1> SUFFICES ASSUME RestInv, [Next]_vars PROVE RestInv'
  OBVIOUS
<1> USE DEF ends
<1>1. ASSUME NEW s \in Sides, streamReturns(s) \/ recvMsg(s) \/ recvExits(s) \/ sendExits(s)
      PROVE  UNCHANGED <<watched, admitted, link>>
  BY Zenon, <1>1 DEF streamReturns, recvMsg, recvExits, sendExits
<1>2. ASSUME NEW p \in Packs,
             \/ offerWait(p) \/ offer(p) \/ takeAck(p) \/ handlerExits("server", p)
             \/ takeOffer(p) \/ putUpdate(p) \/ sendAck(p) \/ handlerExits("client", p)
             \/ issue(p) \/ takeUpdate(p)
      PROVE  UNCHANGED <<watched, admitted, link>>
  BY <1>2 DEF offerWait, offer, takeAck, handlerExits, takeOffer, putUpdate, sendAck, issue, takeUpdate
<1>3. CASE \/ ctxFires \/ StreamSecrets \/ recvOpen \/ sendOpen \/ Kill \/ Stream \/ streamFails
           \/ UNCHANGED vars
  <2>1. UNCHANGED <<watched, admitted, link>>
    BY Zenon, <1>3 DEF ctxFires, StreamSecrets, recvOpen, sendOpen, Kill, Stream, streamFails, vars
  <2> QED BY Zenon, <2>1 DEF RestInv
<1>4. CASE SDSSrv \/ breakLink \/ stopServer
  <2>1. UNCHANGED <<watched, admitted>> /\ link' \in {"stopping", "down"}
    BY Zenon, <1>4 DEF SDSSrv, breakLink, stopServer
  <2> QED BY Zenon, <2>1 DEF RestInv
<1>5. ASSUME UNCHANGED <<watched, admitted, link>> PROVE RestInv'
  BY Zenon, <1>5 DEF RestInv
<1> QED
  BY Zenon, <1>1, <1>2, <1>3, <1>4, <1>5
     DEF Next, Goroutines, Receiver, Sender, ServerHandler, ClientHandler

(***************************************************************************)
(* The messages on a wire are of different packs, and none shares the wire *)
(* with the first request: there are no more of them than packs.           *)
(***************************************************************************)
LEMMA WireBound ==
  ASSUME Typed, OpenInv, watched # {}, NEW s \in Sides
  PROVE  Len(wire[s]) <= Cardinality(Packs)
<1>1. /\ wire[s] \in Seq(Msg) /\ Len(wire[s]) \in Nat /\ DOMAIN wire[s] = 1 .. Len(wire[s])
      /\ watched \subseteq Packs
  BY SMTT(30) DEF Typed
<1>2. \A i, j \in DOMAIN wire[s] : wire[s][i].pack = wire[s][j].pack => i = j
  BY Zenon DEF OpenInv
<1>3. Cardinality(Packs) \in Nat /\ Cardinality(Packs) # 0
  <2>1. Packs # {}
    BY <1>1
  <2> QED BY Zenon, <2>1, ConstantsAssumption, FS_CardinalityType, FS_EmptySet
<1>4. CASE \A i \in DOMAIN wire[s] : wire[s][i].pack \in Packs
  <2> DEFINE f == [i \in 1 .. Len(wire[s]) |-> wire[s][i].pack]
  <2>1. f \in Injection(1 .. Len(wire[s]), Packs)
    BY Zenon, <1>1, <1>2, <1>4 DEF Injection, IsInjective
  <2>2. Cardinality(1 .. Len(wire[s])) <= Cardinality(Packs)
    BY Zenon, <2>1, ConstantsAssumption, FS_Injection
  <2>3. Cardinality(1 .. Len(wire[s])) = Len(wire[s])
    BY <1>1, FS_Interval
  <2> QED BY Zenon, <2>2, <2>3
<1>5. CASE \E i \in DOMAIN wire[s] : wire[s][i].pack \notin Packs
  <2>1. s = "server" /\ Open \in Msgs(s)
    BY Zenon, <1>1, <1>5 DEF OpenInv, Msgs, Sides
  <2>2. \A p \in Packs : ~On(s, p)
    BY Zenon, <2>1 DEF OpenInv, Unopened, Token
  <2>3. \A m \in Msgs(s) : m = Open
    BY Zenon, <1>1, <2>1, <2>2 DEF OpenInv, On
  <2>4. \A i, j \in DOMAIN wire[s] : i = j
    BY <1>2, <2>3 DEF Msgs
  <2>5. ~(Len(wire[s]) > 1)
    <3> SUFFICES ASSUME Len(wire[s]) > 1 PROVE FALSE
      OBVIOUS
    <3>1. 1 \in DOMAIN wire[s] /\ 2 \in DOMAIN wire[s]
      BY <1>1
    <3>2. 1 = 2
      BY <2>4, <3>1
    <3> QED BY <3>2
  <2> QED BY <1>1, <1>3, <2>5
<1> QED BY Zenon, <1>4, <1>5

-----------------------------------------------------------------------------
(* The theorems *)

(***************************************************************************)
(* TypeOK, and with it that no wire ever has to hold more messages than    *)
(* there are packs, however fast certificates are renewed.                 *)
(***************************************************************************)
THEOREM TypeCorrect == Spec => []TypeOK
<1>1. Init => RestInv
  <2> SUFFICES ASSUME Init PROVE RestInv
    OBVIOUS
  <2>1. watched # {} /\ link \in {"up", "stopping", "down"}
    BY DEF Init
  <2>2. admitted \in BOOLEAN
    BY Zenon DEF Init
  <2> QED BY Zenon, <2>1, <2>2 DEF RestInv
<1>2. Typed /\ FlowInv /\ RestInv => TypeOK
  <2> SUFFICES ASSUME Typed, FlowInv, RestInv PROVE TypeOK
    OBVIOUS
  <2>1. \A s \in Sides : /\ \A i \in DOMAIN wire[s] : wire[s][i] \in Msg
                         /\ Len(wire[s]) <= Cardinality(Packs)
    BY WireBound DEF Typed, FlowInv, RestInv
  <2>2. /\ watched \subseteq Packs /\ version \in [Packs -> 0 .. MaxVersion]
        /\ done \in [Sides -> BOOLEAN]
        /\ stream \in [Sides -> {"off", "run", "failed", "returned"}]
        /\ recv \in [Sides -> Receiving] /\ send \in [Sides -> {"off", "open", "select", "err"}]
        /\ handler \in [Sides -> [Packs -> Handler]]
        /\ updateChan \in [Packs -> 0 .. MaxVersion] /\ applied \in [Packs -> 0 .. MaxVersion]
    BY Zenon DEF Typed
  <2>3. admitted \in BOOLEAN /\ link \in {"up", "stopping", "down"}
    BY Zenon DEF RestInv
  <2> QED BY Zenon, <2>1, <2>2, <2>3 DEF TypeOK, Handler
<1> QED BY <1>1, <1>2, FlowInvariant, RestStep, PTL DEF Spec

\* When a handler of the server waits for the next renewal, the watcher has the version
\* it sent last, or will take it next: nothing of its pack is under way.
WaitingMeansPut ==
  \A p \in Packs : handler["server"][p].at = "wait" => handler["server"][p].ver = Latest(p)

(***************************************************************************)
(* WaitingMeansPut: the server takes a certificate for delivered only when *)
(* the client has put it where its watcher finds it.                       *)
(***************************************************************************)
THEOREM DeliveredMeansPut == Spec => []WaitingMeansPut
<1>1. AllPut => WaitingMeansPut
  BY DEF AllPut, PutInv, WaitingMeansPut
<1> QED BY <1>1, PutInvariant, PTL

(***************************************************************************)
(* AckMatchesOffer: what the server's receiving goroutine delivers is the  *)
(* acknowledgement its handler waits for, so handleCert never comes to the *)
(* branch for a rejected version; and the watcher has what it acknowledges *)
(* or will take it next.                                                   *)
(***************************************************************************)
THEOREM AcksMatchOffers == Spec => []AckMatchesOffer
<1>1. Typed /\ FlowInv /\ HeldInv /\ AllPut => AckMatchesOffer
  <2> SUFFICES ASSUME Typed, FlowInv, HeldInv, AllPut, recv["server"].at = "deliver"
               PROVE  LET p == recv["server"].pack
                          h == handler["server"][p]
                      IN /\ (h.at = "ack" /\ h.ver = recv["server"].ver) \/ done["server"]
                         /\ recv["server"].ver = Latest(p)
    BY DEF AckMatchesOffer
  <2> PICK p : p = recv["server"].pack
    OBVIOUS
  <2>0. "server" \in Sides
    BY DEF Sides
  <2>1. Held("server", p) /\ p \in Packs
    BY Zenon DEF Held, HeldInv, Sides
  <2>2. PackInv(p) /\ Token(p) /\ PutInv(p)
    BY Zenon, <2>1 DEF FlowInv, AllPut, Token
  <2>3. handler["server"][p].at = "ack" \/ done["server"]
    BY <2>2 DEF PackInv, Owed
  <2>4. handler["server"][p].at = "ack" => handler["server"][p].ver = recv["server"].ver
    BY Zenon, <2>0, <2>1, <2>2 DEF PackInv, Same
  <2>5. recv["server"].ver = Latest(p)
    BY <2>1, <2>2 DEF PutInv
  <2> QED BY Zenon, <2>3, <2>4, <2>5
<1> QED BY <1>1, FlowInvariant, PutInvariant, PTL

(***************************************************************************)
(* NoHeadOfLine: the client's receiving goroutine, which serves all packs, *)
(* never waits for a handler that waits for its watcher.                   *)
(***************************************************************************)
THEOREM ReceiverNeverWaits == Spec => []NoHeadOfLine
<1>1. Typed /\ FlowInv /\ HeldInv => NoHeadOfLine
  <2> SUFFICES ASSUME Typed, FlowInv, HeldInv, recv["client"].at = "deliver", ~done["client"]
               PROVE  handler["client"][recv["client"].pack].at = "select"
    BY DEF NoHeadOfLine
  <2> PICK p : p = recv["client"].pack
    OBVIOUS
  <2>1. Held("client", p)
    BY DEF Held
  <2>2. p \in Packs
    BY Zenon DEF HeldInv, Sides
  <2>3. PackInv(p) /\ Token(p) /\ OpenInv
    BY Zenon, <2>1, <2>2 DEF FlowInv, Token
  <2>4. stream["client"] # "off" /\ p \in watched
    BY Zenon, <2>2, <2>3 DEF OpenInv, Unopened, PackInv, Owed
  <2>5. ~Busy(p)
    BY Zenon, <2>1, <2>3 DEF PackInv, Alone
  <2> QED BY Zenon, <2>3, <2>4, <2>5 DEF PackInv, ClientUp, Busy
<1> QED BY <1>1, FlowInvariant, PTL

(***************************************************************************)
(* ImplementsFeed: whatever is offered, lost and cut off on the way, the   *)
(* watchers take issued certificates only, each newer than the one before. *)
(* issue is Issue, takeUpdate is Apply, every other step stutters.         *)
(***************************************************************************)
THEOREM StreamImplementsFeed == Spec => ImplementsFeed
<1>1. Init => Feed!Init
  BY DEF Init, Feed!Init
<1>2. ASSUME Typed, FlowInv, [Next]_vars PROVE [Feed!Next]_(Feed!feedVars)
  <2>1. ASSUME NEW p \in Packs, issue(p) PROVE Feed!Next
    <3>1. Feed!Issue(p)
      BY <2>1 DEF issue, watch, Feed!Issue
    <3> QED BY Zenon, <3>1 DEF Feed!Next
  <2>2. ASSUME NEW p \in Packs, takeUpdate(p) PROVE Feed!Next
    <3>1. applied[p] < updateChan[p] /\ updateChan[p] <= version[p]
      BY Zenon, <1>2, <2>2 DEF takeUpdate, FlowInv, PackInv, Rising
    <3>2. updateChan[p] \in (applied[p] + 1) .. version[p]
      BY <1>2, <3>1 DEF Typed
    <3>3. Feed!Apply(p)
      BY Zenon, <2>2, <3>2 DEF takeUpdate, ends, Feed!Apply
    <3> QED BY <3>3 DEF Feed!Next
  <2>3. ASSUME UNCHANGED <<version, applied>> PROVE UNCHANGED Feed!feedVars
    BY Zenon, <2>3 DEF Feed!feedVars
  <2>4. ASSUME NEW s \in Sides, streamReturns(s) \/ recvMsg(s) \/ recvExits(s) \/ sendExits(s)
        PROVE  UNCHANGED <<version, applied>>
    BY Zenon, <2>4 DEF streamReturns, recvMsg, recvExits, sendExits, ends, watch
  <2>5. ASSUME NEW p \in Packs,
               \/ offerWait(p) \/ offer(p) \/ takeAck(p) \/ handlerExits("server", p)
               \/ takeOffer(p) \/ putUpdate(p) \/ sendAck(p) \/ handlerExits("client", p)
        PROVE  UNCHANGED <<version, applied>>
    BY <2>5 DEF offerWait, offer, takeAck, handlerExits, takeOffer, putUpdate, sendAck, ends, watch
  <2>6. CASE \/ SDSSrv \/ ctxFires \/ StreamSecrets \/ recvOpen \/ sendOpen \/ breakLink
             \/ stopServer \/ Kill \/ Stream \/ streamFails \/ UNCHANGED vars
    <3>1. UNCHANGED <<version, applied>>
      BY Zenon, <2>6 DEF SDSSrv, ctxFires, StreamSecrets, recvOpen, sendOpen, breakLink, stopServer,
                  Kill, Stream, streamFails, vars, ends, watch
    <3> QED BY <2>3, <3>1
  <2> QED
    BY Zenon, <1>2, <2>1, <2>2, <2>3, <2>4, <2>5, <2>6
       DEF Next, Goroutines, Receiver, Sender, ServerHandler, ClientHandler
<1> QED BY <1>1, <1>2, FlowInvariant, PTL DEF Spec, ImplementsFeed, Feed!Spec
=============================================================================
