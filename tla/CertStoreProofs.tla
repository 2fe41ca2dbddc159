--------------------------- MODULE CertStoreProofs ---------------------------
(* Proofs about CertStore, for any keys, channel capacity and number of renewals. *)
EXTENDS CertStore, TLAPS

(***************************************************************************)
(* A complete cache.json has its type.                                     *)
(***************************************************************************)
LEMMA FileType ==
  \A c \in [Keys -> Nat] : [ok |-> TRUE, certs |-> c] \in [ok : BOOLEAN, certs : [Keys -> Nat]]
OBVIOUS

(***************************************************************************)
(* Every step of the store and of the process keeps the types.             *)
(***************************************************************************)
LEMMA TypeStep == TypeOK /\ [Next]_vars => TypeOK'
<1> SUFFICES ASSUME TypeOK, [Next]_vars PROVE TypeOK'
  OBVIOUS
<1> USE StoreAssumption DEF TypeOK, renewals, disk, NoCerts
<1>1. ASSUME NEW k \in Keys, renew(k) PROVE TypeOK'
  BY <1>1 DEF renew
<1>2. ASSUME NEW k \in Keys, cancel(k) \/ giveUp(k) PROVE TypeOK'
  <2>1. CASE cancel(k)
    BY <1>2, <2>1 DEF cancel
  <2>2. CASE giveUp(k)
    BY <1>2, <2>2 DEF giveUp
  <2> QED BY Zenon, <1>2, <2>1, <2>2
<1>3. ASSUME NEW k \in Keys, send(k) PROVE TypeOK'
  <2>1. [key |-> k, cert |-> handing[k]] \in Item
    BY DEF Item
  <2>2. update' \in Seq(Item) /\ Len(update') <= QueueCap
    BY <1>3, <2>1 DEF send
  <2> QED BY <1>3, <2>2 DEF send
<1>4. ASSUME NEW l, NEW w, take(l, w), l \in {"loop", "drain"}, w \in {"loopWrite", "drainWrite"},
             UNCHANGED <<renewals, stopped, life>>
      PROVE  TypeOK'
  <2>1. Head(update) \in Item
    BY <1>4 DEF take
  <2>2. update' \in Seq(Item) /\ Len(update') <= QueueCap
    BY <1>4 DEF take
  <2> QED BY Zenon, <1>4, <2>1, <2>2 DEF take, saveEntry, Item
<1>5. CASE receive
  BY <1>4, <1>5 DEF receive
<1>6. CASE seeStop
  BY <1>6 DEF seeStop
<1>7. CASE drain
  <2>1. CASE take("drain", "drainWrite")
    BY <1>4, <1>7, <2>1 DEF drain
  <2>2. CASE ~take("drain", "drainWrite")
    BY <1>7, <2>2 DEF drain
  <2> QED BY <2>1, <2>2
<1>8. CASE write
  <2>1. writer' \in {"loop", "drain"}
    BY <1>8 DEF write, AfterWrite
  <2>2. file' \in [ok : BOOLEAN, certs : [Keys -> Nat]]
    BY Zenon, <1>8, FileType DEF write
  <2>3. dirty' \in BOOLEAN
    BY Zenon, <1>8 DEF write
  <2> QED BY <1>8, <2>1, <2>2, <2>3 DEF write
<1>9. CASE Stop \/ mainReturns \/ crash
  BY Zenon, <1>9 DEF Stop, mainReturns, crash
<1>10. CASE start
  <2>1. entries' \in [Keys -> Nat]
    BY <1>10 DEF start
  <2>2. /\ cert' = entries' /\ update' = <<>> /\ UNCHANGED <<issued, file>>
        /\ handing' = NoCerts /\ gaveUp' = NoCerts
        /\ ctxDone' = [k \in Keys |-> FALSE]
        /\ dirty' = FALSE /\ stopped' = FALSE
        /\ writer' = "loop" /\ life' = "up"
    BY <1>10 DEF start
  <2>3. <<>> \in Seq(Item) /\ Len(<<>>) <= QueueCap
    OBVIOUS
  <2>4. [k \in Keys |-> FALSE] \in [Keys -> BOOLEAN]
    OBVIOUS
  <2> QED BY Zenon, <2>1, <2>2, <2>3, <2>4
<1>11. CASE UNCHANGED vars
  BY <1>11 DEF vars
<1> QED
  BY Zenon, <1>1, <1>2, <1>3, <1>5, <1>6, <1>7, <1>8, <1>9, <1>10, <1>11 DEF Next

(***************************************************************************)
(* The store is type correct: in particular the channel never holds more   *)
(* than its capacity.                                                      *)
(***************************************************************************)
THEOREM TypeCorrect == Spec => []TypeOK
<1>1. Init => TypeOK
  <2>1. NoCerts \in [Keys -> Nat] /\ [k \in Keys |-> FALSE] \in [Keys -> BOOLEAN]
    BY DEF NoCerts
  <2>2. <<>> \in Seq(Item) /\ Len(<<>>) <= QueueCap
    BY StoreAssumption
  <2> QED BY Zenon, <2>1, <2>2, FileType DEF Init, TypeOK
<1> QED BY <1>1, TypeStep, PTL DEF Spec

(***************************************************************************)
(* MapOnDisk: between writes that succeed, the writer's map is on file.    *)
(* It is inductive.                                                        *)
(***************************************************************************)
THEOREM MapIsOnDisk == Spec => []MapOnDisk
<1>1. Init => MapOnDisk
  BY DEF Init, MapOnDisk, NoCerts
<1>2. TypeOK /\ MapOnDisk /\ [Next]_vars => MapOnDisk'
  <2> SUFFICES ASSUME TypeOK, MapOnDisk, [Next]_vars PROVE MapOnDisk'
    OBVIOUS
  <2> USE DEF MapOnDisk, disk
  <2>1. CASE receive \/ drain
    BY <2>1 DEF receive, drain, take, saveEntry
  <2>2. CASE write
    BY <2>2 DEF write
  <2>3. CASE start
    BY <2>3 DEF start
  <2>4. CASE seeStop
    BY <2>4 DEF seeStop
  <2>5. CASE UNCHANGED disk /\ (life' = "up" => life = "up")
    BY <2>5
  <2> QED
    BY Zenon, <2>1, <2>2, <2>3, <2>4, <2>5
       DEF Next, vars, renew, cancel, send, giveUp, Stop, mainReturns, crash
<1> QED BY <1>1, <1>2, TypeCorrect, PTL DEF Spec

-----------------------------------------------------------------------------
(* Order, and nothing lost *)

\* No certificate anywhere has a higher number than the last one issued for its key.
Bounded ==
  \A k \in Keys :
    /\ cert[k] <= issued[k] /\ handing[k] <= issued[k] /\ entries[k] <= issued[k]
    /\ file.certs[k] <= issued[k]
    /\ \A i \in DOMAIN update : update[i].key = k => update[i].cert <= issued[k]

\* PersistInOrder and NothingLost said of the channel's places, with the fact that the
\* certificate in the hand-off is the cached one.
PipelineInv ==
  life = "up" =>
    /\ \A i, j \in DOMAIN update :
         i < j /\ update[i].key = update[j].key => update[i].cert < update[j].cert
    /\ \A i \in DOMAIN update :
         /\ entries[update[i].key] < update[i].cert
         /\ update[i].cert <= cert[update[i].key]
         /\ handing[update[i].key] # 0 => update[i].cert < handing[update[i].key]
    /\ \A k \in Keys :
         /\ entries[k] <= cert[k]
         /\ handing[k] # 0 => entries[k] < handing[k] /\ handing[k] = cert[k]
         /\ \/ cert[k] \in {entries[k], handing[k], gaveUp[k]}
            \/ \E i \in DOMAIN update : update[i].key = k /\ update[i].cert = cert[k]

\* What the arithmetic below needs of TypeOK, point by point.
Plain ==
  /\ \A k \in Keys :
       /\ issued[k] \in Nat /\ cert[k] \in Nat /\ handing[k] \in Nat
       /\ gaveUp[k] \in Nat /\ entries[k] \in Nat /\ file.certs[k] \in Nat
  /\ Len(update) \in Nat /\ DOMAIN update = 1 .. Len(update)
  /\ \A i \in DOMAIN update : update[i].key \in Keys /\ update[i].cert \in Nat

(***************************************************************************)
(* Plain is a part of TypeOK.                                              *)
(***************************************************************************)
LEMMA PlainType == TypeOK => Plain
<1> SUFFICES ASSUME TypeOK PROVE Plain
  OBVIOUS
<1>1. \A k \in Keys :
        /\ issued[k] \in Nat /\ cert[k] \in Nat /\ handing[k] \in Nat
        /\ gaveUp[k] \in Nat /\ entries[k] \in Nat /\ file.certs[k] \in Nat
  BY DEF TypeOK
<1>2. update \in Seq(Item)
  BY DEF TypeOK
<1>3. Len(update) \in Nat /\ DOMAIN update = 1 .. Len(update)
  BY <1>2
<1>4. ASSUME NEW i \in DOMAIN update PROVE update[i].key \in Keys /\ update[i].cert \in Nat
  <2>1. update[i] \in Item
    BY <1>2, <1>3, <1>4
  <2> QED BY <2>1 DEF Item
<1> QED BY <1>1, <1>3, <1>4 DEF Plain

(***************************************************************************)
(* renew, key by key.                                                      *)
(***************************************************************************)
LEMMA RenewEffect ==
  ASSUME TypeOK, NEW k \in Keys, renew(k)
  PROVE  /\ handing[k] = 0
         /\ issued'[k] = issued[k] + 1 /\ cert'[k] = issued[k] + 1 /\ handing'[k] = issued[k] + 1
         /\ \A q \in Keys \ {k} :
              issued'[q] = issued[q] /\ cert'[q] = cert[q] /\ handing'[q] = handing[q]
         /\ UNCHANGED <<gaveUp, update, entries, file, life>>
BY DEF TypeOK, renew, disk

(***************************************************************************)
(* The end of the hand-off, key by key: giveUp and send.                   *)
(***************************************************************************)
LEMMA HandEffect ==
  ASSUME TypeOK, NEW k \in Keys, giveUp(k) \/ send(k)
  PROVE  /\ handing[k] # 0 /\ handing'[k] = 0
         /\ \A q \in Keys \ {k} : handing'[q] = handing[q] /\ gaveUp'[q] = gaveUp[q]
         /\ UNCHANGED <<issued, cert, entries, file, life>>
BY DEF TypeOK, send, giveUp, disk

(***************************************************************************)
(* send puts its item behind the others.                                   *)
(***************************************************************************)
LEMMA SendQueue ==
  ASSUME TypeOK, NEW k \in Keys, send(k)
  PROVE  /\ DOMAIN update' = 1 .. (Len(update) + 1)
         /\ \A i \in 1 .. Len(update) : update'[i] = update[i]
         /\ update'[Len(update) + 1].key = k
         /\ update'[Len(update) + 1].cert = handing[k]
BY DEF TypeOK, send, Item

(***************************************************************************)
(* take moves every item but the first one place forward, and the first    *)
(* into the writer's map.                                                  *)
(***************************************************************************)
LEMMA TakeQueue ==
  ASSUME TypeOK, NEW l, NEW w, take(l, w)
  PROVE  /\ 1 \in DOMAIN update /\ DOMAIN update' = 1 .. (Len(update) - 1)
         /\ \A i \in DOMAIN update' : i + 1 \in DOMAIN update /\ update'[i] = update[i + 1]
         /\ entries'[update[1].key] = update[1].cert
         /\ \A q \in Keys \ {update[1].key} : entries'[q] = entries[q]
         /\ file'.certs = file.certs
<1>1. Len(update) \in Nat /\ Len(update) > 0 /\ DOMAIN update = 1 .. Len(update)
  BY DEF TypeOK, take
<1>2. /\ DOMAIN update' = 1 .. (Len(update) - 1)
      /\ \A i \in 1 .. (Len(update) - 1) : update'[i] = update[i + 1]
  BY <1>1 DEF TypeOK, take
<1>3. Head(update) = update[1]
  BY <1>1 DEF TypeOK
<1>4. file'.certs = file.certs
  BY DEF TypeOK, take, saveEntry
<1>5. entries' = [entries EXCEPT ![update[1].key] = update[1].cert]
  BY Zenon, <1>3 DEF take, saveEntry
<1>6. entries \in [Keys -> Nat] /\ update[1].key \in Keys
  <2>1. Plain /\ 1 \in DOMAIN update
    BY <1>1, PlainType
  <2> QED BY Zenon, <2>1 DEF TypeOK, Plain
<1>7. 1 \in DOMAIN update /\ \A i \in DOMAIN update' : i + 1 \in DOMAIN update
  BY <1>1, <1>2
<1> QED BY Zenon, <1>2, <1>4, <1>5, <1>6, <1>7

(***************************************************************************)
(* Every step keeps all certificates within those issued.                  *)
(***************************************************************************)
LEMMA BoundedStep == TypeOK /\ Bounded /\ [Next]_vars => Bounded'
<1> SUFFICES ASSUME TypeOK, Bounded, [Next]_vars PROVE Bounded'
  OBVIOUS
<1>0. Plain
  BY PlainType
<1>1. ASSUME NEW k \in Keys, renew(k) PROVE Bounded'
  <2>1. \A q \in Keys :
          /\ cert'[q] <= issued'[q] /\ handing'[q] <= issued'[q]
          /\ issued'[q] \in Nat /\ issued[q] <= issued'[q]
    BY <1>0, <1>1, RenewEffect DEF Bounded, Plain
  <2>2. UNCHANGED <<update, entries, file>>
    BY <1>1, RenewEffect
  <2>3. \A q \in Keys : entries[q] <= issued'[q] /\ file.certs[q] <= issued'[q]
    BY <1>0, <2>1 DEF Bounded, Plain
  <2>4. \A q \in Keys : \A i \in DOMAIN update :
          update[i].key = q => update[i].cert <= issued'[q]
    BY <1>0, <2>1 DEF Bounded, Plain
  <2> QED BY Zenon, <2>1, <2>2, <2>3, <2>4 DEF Bounded
<1>2. ASSUME NEW k \in Keys, cancel(k) PROVE Bounded'
  BY <1>2 DEF Bounded, cancel, disk
<1>3. ASSUME NEW k \in Keys, giveUp(k) PROVE Bounded'
  <2>1. UNCHANGED update
    BY <1>3 DEF giveUp
  <2> QED BY <1>0, <1>3, <2>1, HandEffect DEF Bounded, Plain
<1>4. ASSUME NEW k \in Keys, send(k) PROVE Bounded'
  <2>1. \A q \in Keys : \A i \in DOMAIN update' :
          update'[i].key = q => update'[i].cert <= issued[q]
    <3> TAKE q \in Keys
    <3> TAKE i \in DOMAIN update'
    <3>1. CASE i \in DOMAIN update
      BY Zenon, <1>0, <1>4, <3>1, SendQueue DEF Bounded, Plain
    <3>2. CASE i = Len(update) + 1
      BY <1>4, <3>2, SendQueue DEF Bounded
    <3> QED BY <1>0, <1>4, <3>1, <3>2, SendQueue DEF Plain
  <2> QED BY <1>0, <1>4, <2>1, HandEffect DEF Bounded, Plain
<1>5. ASSUME NEW l, NEW w, take(l, w), UNCHANGED renewals PROVE Bounded'
  <2>1. \A q \in Keys : \A i \in DOMAIN update' :
          update'[i].key = q => update'[i].cert <= issued[q]
    BY <1>5, TakeQueue DEF Bounded
  <2>2. \A q \in Keys : entries'[q] <= issued[q]
    BY <1>0, <1>5, TakeQueue DEF Bounded, Plain
  <2>3. \A q \in Keys : file'.certs[q] <= issued[q]
    BY <1>5, TakeQueue DEF Bounded
  <2> QED BY Zenon, <1>5, <2>1, <2>2, <2>3 DEF Bounded, renewals
<1>6. CASE receive
  BY <1>5, <1>6 DEF receive
<1>7. CASE seeStop
  BY <1>7 DEF Bounded, seeStop, renewals
<1>8. CASE drain
  <2>1. CASE take("drain", "drainWrite")
    BY <1>5, <1>8, <2>1 DEF drain
  <2>2. CASE ~take("drain", "drainWrite")
    BY <1>8, <2>2 DEF Bounded, drain, renewals
  <2> QED BY <2>1, <2>2
<1>9. CASE write
  <2>1. file'.certs = file.certs \/ file'.certs = entries
    BY <1>9 DEF write
  <2> QED BY <1>9, <2>1 DEF Bounded, write, renewals
<1>10. CASE Stop \/ mainReturns \/ crash
  BY <1>10 DEF Bounded, Stop, mainReturns, crash, renewals, disk
<1>11. CASE start
  BY <1>0, <1>11 DEF Bounded, start, NoCerts, Plain
<1>12. CASE UNCHANGED vars
  BY <1>12 DEF Bounded, vars, renewals, disk
<1> QED
  BY Zenon, <1>1, <1>2, <1>3, <1>4, <1>6, <1>7, <1>8, <1>9, <1>10, <1>11, <1>12 DEF Next

(***************************************************************************)
(* Every step keeps the order of the certificates on their way, and the    *)
(* newest of them.                                                         *)
(***************************************************************************)
LEMMA PipelineStep == TypeOK /\ Bounded /\ PipelineInv /\ [Next]_vars => PipelineInv'
<1> SUFFICES ASSUME TypeOK, Bounded, PipelineInv, [Next]_vars PROVE PipelineInv'
  OBVIOUS
<1>0. Plain
  BY PlainType
<1>1. ASSUME NEW k \in Keys, renew(k) PROVE PipelineInv'
  <2>1. UNCHANGED <<gaveUp, update, entries, life>> /\ life = "up"
    BY Zenon, <1>1, RenewEffect DEF renew
  <2>2. \A i \in DOMAIN update :
          /\ update[i].cert <= cert'[update[i].key]
          /\ handing'[update[i].key] # 0 => update[i].cert < handing'[update[i].key]
    <3> TAKE i \in DOMAIN update
    <3>1. CASE update[i].key = k
      <4>1. update[i].cert <= issued[k]
        BY <3>1 DEF Bounded
      <4> QED BY <1>0, <1>1, <3>1, <4>1, RenewEffect DEF Plain
    <3>2. CASE update[i].key # k
      BY <1>0, <1>1, <2>1, <3>2, RenewEffect DEF PipelineInv, Plain
    <3> QED BY <3>1, <3>2
  <2>3. \A q \in Keys :
          /\ entries[q] <= cert'[q]
          /\ handing'[q] # 0 => entries[q] < handing'[q] /\ handing'[q] = cert'[q]
          /\ \/ cert'[q] \in {entries[q], handing'[q], gaveUp[q]}
             \/ \E i \in DOMAIN update : update[i].key = q /\ update[i].cert = cert'[q]
    <3> TAKE q \in Keys
    <3>1. CASE q = k
      BY <1>0, <1>1, <3>1, RenewEffect DEF Bounded, Plain
    <3>2. CASE q # k
      BY SMTT(30), <1>1, <2>1, <3>2, RenewEffect DEF PipelineInv
    <3> QED BY <3>1, <3>2
  <2> QED BY <2>1, <2>2, <2>3 DEF PipelineInv
<1>2. ASSUME NEW k \in Keys, cancel(k) PROVE PipelineInv'
  BY <1>2 DEF PipelineInv, cancel, disk
<1>3. ASSUME NEW k \in Keys, giveUp(k) PROVE PipelineInv'
  <2>1. UNCHANGED update /\ gaveUp'[k] = handing[k]
    BY <1>3 DEF giveUp, TypeOK
  <2>2. UNCHANGED <<cert, entries, life>> /\ life = "up"
    BY Zenon, <1>3, HandEffect DEF giveUp
  <2>3. \A i \in DOMAIN update :
          handing'[update[i].key] # 0 => update[i].cert < handing'[update[i].key]
    BY Zenon, <1>0, <1>3, <2>2, HandEffect DEF PipelineInv, Plain
  <2>4. \A q \in Keys :
          /\ handing'[q] # 0 => entries[q] < handing'[q] /\ handing'[q] = cert[q]
          /\ \/ cert[q] \in {entries[q], handing'[q], gaveUp'[q]}
             \/ \E i \in DOMAIN update : update[i].key = q /\ update[i].cert = cert[q]
    <3> TAKE q \in Keys
    <3>1. CASE q = k
      BY Zenon, <1>3, <2>1, <2>2, <3>1, HandEffect DEF PipelineInv
    <3>2. CASE q # k
      BY <1>3, <2>2, <3>2, HandEffect DEF PipelineInv
    <3> QED BY <3>1, <3>2
  <2> QED BY Zenon, <2>1, <2>2, <2>3, <2>4 DEF PipelineInv
<1>4. ASSUME NEW k \in Keys, send(k) PROVE PipelineInv'
  <2>1. UNCHANGED gaveUp /\ life = "up"
    BY Zenon, <1>4 DEF send
  <2> DEFINE n == Len(update) + 1
  <2>2. /\ DOMAIN update' = 1 .. n /\ n \in DOMAIN update'
        /\ \A i \in 1 .. n : i \in DOMAIN update \/ i = n
        /\ \A i \in DOMAIN update : update'[i] = update[i] /\ i < n /\ i \in DOMAIN update'
        /\ update'[n].key = k /\ update'[n].cert = handing[k]
    BY <1>0, <1>4, SendQueue DEF Plain
  <2> HIDE DEF n
  <2>3. \A i, j \in DOMAIN update' :
          i < j /\ update'[i].key = update'[j].key => update'[i].cert < update'[j].cert
    <3> TAKE i, j \in DOMAIN update'
    <3>1. CASE j = n
      BY <1>0, <1>4, <2>1, <2>2, <3>1, HandEffect DEF PipelineInv, Plain
    <3>2. CASE j # n
      <4>1. j \in DOMAIN update
        BY Zenon, <2>2, <3>2
      <4>2. CASE i = n
        BY <1>0, <2>2, <4>1, <4>2 DEF Plain
      <4>3. CASE i # n
        BY Zenon, <2>1, <2>2, <4>1, <4>3 DEF PipelineInv
      <4> QED BY <4>2, <4>3
    <3> QED BY Zenon, <3>1, <3>2
  <2>4. \A i \in DOMAIN update' :
          /\ entries'[update'[i].key] < update'[i].cert
          /\ update'[i].cert <= cert'[update'[i].key]
          /\ handing'[update'[i].key] # 0 => update'[i].cert < handing'[update'[i].key]
    <3> TAKE i \in DOMAIN update'
    <3>1. UNCHANGED <<cert, entries>>
      BY Zenon, <1>4, HandEffect
    <3>2. CASE i = n
      BY SMTT(30), <1>0, <1>4, <2>1, <2>2, <3>1, <3>2, HandEffect DEF PipelineInv, Plain
    <3>3. CASE i \in DOMAIN update
      <4>1. update'[i] = update[i] /\ update[i].key \in Keys
        BY Zenon, <1>0, <2>2, <3>3 DEF Plain
      <4>2. handing'[update[i].key] \in {0, handing[update[i].key]}
        BY Zenon, <1>4, <4>1, HandEffect
      <4> QED BY Zenon, <2>1, <3>1, <3>3, <4>1, <4>2 DEF PipelineInv
    <3> QED BY Zenon, <2>2, <3>2, <3>3
  <2>5. \A q \in Keys :
          /\ entries'[q] <= cert'[q]
          /\ handing'[q] # 0 => entries'[q] < handing'[q] /\ handing'[q] = cert'[q]
    BY Zenon, <1>0, <1>4, <2>1, HandEffect DEF PipelineInv, Plain
  <2>6. \A q \in Keys :
          \/ cert'[q] \in {entries'[q], handing'[q], gaveUp'[q]}
          \/ \E i \in DOMAIN update' : update'[i].key = q /\ update'[i].cert = cert'[q]
    <3> TAKE q \in Keys
    <3>1. UNCHANGED <<cert, entries>> /\ handing[k] # 0
      BY Zenon, <1>4, HandEffect
    <3>2. CASE q = k
      <4>1. handing[k] = cert[k]
        BY Zenon, <2>1, <3>1 DEF PipelineInv
      <4> QED BY Zenon, <2>2, <3>1, <3>2, <4>1
    <3>3. CASE q # k
      <4>1. handing'[q] = handing[q]
        BY Zenon, <1>4, <3>3, HandEffect
      <4>2. \/ cert[q] \in {entries[q], handing[q], gaveUp[q]}
            \/ \E i \in DOMAIN update : update[i].key = q /\ update[i].cert = cert[q]
        BY Zenon, <2>1 DEF PipelineInv
      <4> QED BY Zenon, <2>1, <2>2, <3>1, <4>1, <4>2
    <3> QED BY <3>2, <3>3
  <2> QED BY Zenon, <2>3, <2>4, <2>5, <2>6 DEF PipelineInv
<1>5. ASSUME NEW l, NEW w, take(l, w), UNCHANGED renewals, life = "up"
      PROVE  PipelineInv'
  <2>1. UNCHANGED <<cert, handing, gaveUp>>
    BY Zenon, <1>5 DEF renewals
  <2>2. \A i, j \in DOMAIN update' :
          i < j /\ update'[i].key = update'[j].key => update'[i].cert < update'[j].cert
    <3> TAKE i, j \in DOMAIN update'
    <3>1. i + 1 \in DOMAIN update /\ j + 1 \in DOMAIN update /\ i \in Nat /\ j \in Nat
      BY <1>0, <1>5, TakeQueue DEF Plain
    <3>2. i < j => i + 1 < j + 1
      BY <3>1
    <3> QED BY <1>5, <3>1, <3>2, TakeQueue DEF PipelineInv
  <2>3. \A i \in DOMAIN update' :
          /\ entries'[update'[i].key] < update'[i].cert
          /\ update'[i].cert <= cert[update'[i].key]
          /\ handing[update'[i].key] # 0 => update'[i].cert < handing[update'[i].key]
    <3> TAKE i \in DOMAIN update'
    <3>1. /\ i + 1 \in DOMAIN update /\ 1 \in DOMAIN update /\ 1 < i + 1
          /\ update'[i] = update[i + 1]
      BY <1>0, <1>5, TakeQueue DEF Plain
    <3>2. entries'[update[i + 1].key] < update[i + 1].cert
      BY SMTT(30), <1>0, <1>5, <3>1, TakeQueue DEF PipelineInv, Plain
    <3> QED BY <1>5, <3>1, <3>2 DEF PipelineInv
  <2>4. \A q \in Keys :
          /\ entries'[q] <= cert[q]
          /\ handing[q] # 0 => entries'[q] < handing[q] /\ handing[q] = cert[q]
    BY <1>0, <1>5, TakeQueue DEF PipelineInv, Plain
  <2>5. ASSUME NEW q \in Keys
        PROVE  \/ cert[q] \in {entries'[q], handing[q], gaveUp[q]}
               \/ \E i \in DOMAIN update' : update'[i].key = q /\ update'[i].cert = cert[q]
    <3>1. CASE cert[q] \in {handing[q], gaveUp[q]}
      BY Zenon, <3>1
    <3>2. CASE cert[q] = entries[q] /\ q # update[1].key
      BY Zenon, <1>5, <3>2, TakeQueue
    <3>3. CASE cert[q] = entries[q] /\ q = update[1].key
      BY <1>0, <1>5, <3>3, TakeQueue DEF PipelineInv, Plain
    <3>4. CASE \E i \in DOMAIN update : update[i].key = q /\ update[i].cert = cert[q]
      <4> PICK i \in DOMAIN update : update[i].key = q /\ update[i].cert = cert[q]
        BY <3>4
      <4>1. CASE i = 1
        BY Zenon, <1>5, <4>1, TakeQueue
      <4>2. CASE i # 1
        <5>1. i - 1 \in DOMAIN update' /\ (i - 1) + 1 = i
          BY <1>0, <1>5, <4>2, TakeQueue DEF Plain
        <5>2. update'[i - 1] = update[i]
          BY Zenon, <1>5, <5>1, TakeQueue
        <5> QED BY Zenon, <5>1, <5>2
      <4> QED BY <4>1, <4>2
    <3> QED BY Zenon, <1>5, <3>1, <3>2, <3>3, <3>4 DEF PipelineInv
  <2> QED BY Zenon, <2>1, <2>2, <2>3, <2>4, <2>5 DEF PipelineInv
<1>6. CASE receive
  BY Zenon, <1>5, <1>6 DEF receive
<1>7. CASE seeStop
  BY <1>7 DEF PipelineInv, seeStop, renewals
<1>8. CASE drain
  <2>1. CASE take("drain", "drainWrite")
    BY Zenon, <1>5, <1>8, <2>1 DEF drain
  <2>2. CASE ~take("drain", "drainWrite")
    BY <1>8, <2>2 DEF PipelineInv, drain, renewals
  <2> QED BY <2>1, <2>2
<1>9. CASE write
  BY Zenon, <1>9 DEF PipelineInv, write, renewals
<1>10. CASE Stop \/ mainReturns \/ crash
  BY <1>10 DEF PipelineInv, Stop, mainReturns, crash, renewals, disk
<1>11. CASE start
  BY <1>0, <1>11 DEF PipelineInv, start, NoCerts, Plain
<1>12. CASE UNCHANGED vars
  BY <1>12 DEF PipelineInv, vars, renewals, disk
<1> QED
  BY Zenon, <1>1, <1>2, <1>3, <1>4, <1>6, <1>7, <1>8, <1>9, <1>10, <1>11, <1>12 DEF Next

(***************************************************************************)
(* PipelineInv holds of every behaviour.                                   *)
(***************************************************************************)
LEMMA PipelineInvariant == Spec => []PipelineInv
<1>1. Init => Bounded /\ PipelineInv
  BY DEF Init, Bounded, PipelineInv, NoCerts
<1> QED BY <1>1, BoundedStep, PipelineStep, TypeCorrect, PTL DEF Spec

\* The file lies behind all that is on its way to it: what may be written next is not
\* older than what the file holds, also when start has dropped the key from the map.
DiskInv ==
  life = "up" =>
    /\ \A i \in DOMAIN update : file.certs[update[i].key] < update[i].cert
    /\ \A k \in Keys :
         /\ entries[k] # 0 => file.certs[k] <= entries[k]
         /\ handing[k] # 0 => file.certs[k] < handing[k]

(***************************************************************************)
(* Every step keeps the file behind what is on its way to it.  A new       *)
(* certificate is newer than the file because the file holds none that was *)
(* not issued; write only moves the file to the map, which is behind the   *)
(* channel.                                                                *)
(***************************************************************************)
LEMMA DiskStep ==
  TypeOK /\ Bounded /\ PipelineInv /\ DiskInv /\ [Next]_vars => DiskInv'
<1> SUFFICES ASSUME TypeOK, Bounded, PipelineInv, DiskInv, [Next]_vars PROVE DiskInv'
  OBVIOUS
<1>0. Plain
  BY PlainType
<1>1. ASSUME NEW k \in Keys, renew(k) PROVE DiskInv'
  <2>1. UNCHANGED <<update, entries, file, life>> /\ life = "up"
    BY Zenon, <1>1, RenewEffect DEF renew
  <2>2. \A q \in Keys : handing'[q] # 0 => file.certs[q] < handing'[q]
    BY SMTT(30), <1>0, <1>1, <2>1, RenewEffect DEF Bounded, Plain, DiskInv
  <2> QED BY <2>1, <2>2 DEF DiskInv
<1>2. ASSUME NEW k \in Keys, cancel(k) PROVE DiskInv'
  BY <1>2 DEF DiskInv, cancel, disk
<1>3. ASSUME NEW k \in Keys, giveUp(k) PROVE DiskInv'
  <2>1. UNCHANGED <<update, entries, file, life>> /\ life = "up"
    BY Zenon, <1>3, HandEffect DEF giveUp
  <2>2. \A q \in Keys : handing'[q] \in {0, handing[q]}
    BY <1>3, HandEffect
  <2> QED BY <2>1, <2>2 DEF DiskInv
<1>4. ASSUME NEW k \in Keys, send(k) PROVE DiskInv'
  <2>1. UNCHANGED <<entries, file, life>> /\ life = "up"
    BY Zenon, <1>4, HandEffect DEF send
  <2>2. \A q \in Keys : handing'[q] \in {0, handing[q]}
    BY <1>4, HandEffect
  <2>3. ASSUME NEW i \in DOMAIN update' PROVE file.certs[update'[i].key] < update'[i].cert
    <3>1. CASE i \in DOMAIN update
      BY Zenon, <1>0, <1>4, <2>1, <3>1, SendQueue DEF DiskInv, Plain
    <3>2. CASE i = Len(update) + 1
      BY Zenon, <1>4, <2>1, <3>2, SendQueue, HandEffect DEF DiskInv
    <3> QED BY SMTT(30), <1>0, <1>4, <3>1, <3>2, SendQueue DEF Plain
  <2> QED BY <2>1, <2>2, <2>3 DEF DiskInv
<1>5. ASSUME NEW l, NEW w, take(l, w), UNCHANGED renewals, life = "up"
      PROVE  DiskInv'
  <2>1. UNCHANGED handing /\ file'.certs = file.certs
    BY Zenon, <1>5, TakeQueue DEF renewals
  <2>2. \A i \in DOMAIN update' : file.certs[update'[i].key] < update'[i].cert
    BY Zenon, <1>5, TakeQueue DEF DiskInv
  <2>3. \A q \in Keys : entries'[q] # 0 => file.certs[q] <= entries'[q]
    BY SMTT(30), <1>0, <1>5, TakeQueue DEF DiskInv, Plain
  <2> QED BY Zenon, <1>5, <2>1, <2>2, <2>3 DEF DiskInv
<1>6. CASE receive
  BY <1>5, <1>6 DEF receive
<1>7. CASE seeStop
  BY <1>7 DEF DiskInv, seeStop, renewals
<1>8. CASE drain
  <2>1. CASE take("drain", "drainWrite")
    BY Zenon, <1>5, <1>8, <2>1 DEF drain
  <2>2. CASE ~take("drain", "drainWrite")
    BY <1>8, <2>2 DEF DiskInv, drain, renewals
  <2> QED BY <2>1, <2>2
<1>9. CASE write
  <2>1. UNCHANGED <<update, entries, handing, life>> /\ life = "up"
    BY Zenon, <1>9 DEF write, renewals
  <2>2. CASE file'.certs = file.certs
    BY Zenon, <2>1, <2>2 DEF DiskInv
  <2>3. CASE file'.certs = entries
    BY SMTT(30), <1>0, <2>1, <2>3 DEF DiskInv, PipelineInv, Plain
  <2> QED BY <1>9, <2>2, <2>3 DEF write
<1>10. CASE Stop \/ mainReturns \/ crash
  BY <1>10 DEF DiskInv, Stop, mainReturns, crash, renewals, disk
<1>11. CASE start
  BY <1>0, <1>11 DEF DiskInv, start, NoCerts, Plain
<1>12. CASE UNCHANGED vars
  BY <1>12 DEF DiskInv, vars, renewals, disk
<1> QED
  BY Zenon, <1>1, <1>2, <1>3, <1>4, <1>6, <1>7, <1>8, <1>9, <1>10, <1>11, <1>12 DEF Next

(***************************************************************************)
(* DiskInv holds of every behaviour.                                       *)
(***************************************************************************)
LEMMA DiskInvariant == Spec => []DiskInv
<1>1. Init => Bounded /\ PipelineInv /\ DiskInv
  BY DEF Init, Bounded, PipelineInv, DiskInv, NoCerts
<1> QED BY <1>1, BoundedStep, PipelineStep, DiskStep, TypeCorrect, PTL DEF Spec

(***************************************************************************)
(* PersistInOrder: an older certificate never overwrites a newer one.      *)
(***************************************************************************)
THEOREM PersistedInOrder == Spec => []PersistInOrder
<1>1. TypeOK /\ PipelineInv /\ DiskInv => PersistInOrder
  <2> SUFFICES ASSUME TypeOK, PipelineInv, DiskInv, life = "up" PROVE PersistInOrder
    BY DEF PersistInOrder
  <2>1. ASSUME NEW k \in Keys, NEW c \in Queued(k)
        PROVE  entries[k] < c /\ file.certs[k] < c /\ (handing[k] # 0 => c < handing[k])
    BY <2>1 DEF PipelineInv, DiskInv, Queued
  <2>2. \A k \in Keys :
          /\ entries[k] # 0 => file.certs[k] <= entries[k]
          /\ handing[k] # 0 => entries[k] < handing[k] /\ file.certs[k] < handing[k]
    BY Zenon DEF PipelineInv, DiskInv
  <2> QED BY Zenon, <2>1, <2>2 DEF PersistInOrder, PipelineInv
<1> QED BY <1>1, PipelineInvariant, DiskInvariant, TypeCorrect, PTL

\* A step that leaves a certificate of k in cache.json leaves one that is not older.
FileStepsForward ==
  \A k \in Keys : file'.certs[k] # 0 => file.certs[k] <= file'.certs[k]

(***************************************************************************)
(* No step puts an older certificate into cache.json in place of a newer   *)
(* one, whatever crashes, restarts, failed saves and shutdowns come        *)
(* between: a key may vanish from the file, never go back.                 *)
(***************************************************************************)
THEOREM FileNeverGoesBack == Spec => [][FileStepsForward]_vars
<1>1. TypeOK /\ DiskInv /\ [Next]_vars => [FileStepsForward]_vars
  <2> SUFFICES ASSUME TypeOK, DiskInv, Next PROVE FileStepsForward
    BY DEF FileStepsForward, vars, disk, TypeOK
  <2>0. Plain
    BY PlainType
  <2>1. CASE file'.certs = file.certs
    BY <2>0, <2>1 DEF FileStepsForward, Plain
  <2>2. CASE write
    BY <2>0, <2>1, <2>2 DEF write, FileStepsForward, DiskInv
  <2>3. CASE receive \/ drain
    BY <2>1, <2>3, TakeQueue DEF receive, drain
  <2> QED
    BY Zenon, <2>1, <2>2, <2>3
       DEF Next, disk, renew, cancel, send, giveUp, seeStop, Stop, mainReturns, crash, start
<1> QED BY <1>1, DiskInvariant, TypeCorrect, PTL DEF Spec

(***************************************************************************)
(* NothingLost: what is cached is on its way to the file, in it, or given  *)
(* up.                                                                     *)
(***************************************************************************)
THEOREM NothingIsLost == Spec => []NothingLost
<1>1. TypeOK /\ PipelineInv => NothingLost
  <2> SUFFICES ASSUME TypeOK, PipelineInv, life = "up", NEW k \in Keys
               PROVE  /\ cert[k] \in OnTheWay(k) \cup {gaveUp[k]}
                      /\ \A c \in OnTheWay(k) : c <= cert[k]
    BY Zenon DEF NothingLost
  <2>0. Plain
    BY PlainType
  <2>1. cert[k] \in OnTheWay(k) \cup {gaveUp[k]}
    <3>1. handing[k] = cert[k] \/ handing[k] = 0
      BY DEF PipelineInv
    <3>2. cert[k] = 0 => entries[k] = 0
      BY <2>0 DEF PipelineInv, Plain
    <3> QED BY Zenon, <3>1, <3>2 DEF PipelineInv, OnTheWay, Queued
  <2>2. \A c \in OnTheWay(k) : c <= cert[k]
    BY <2>0 DEF PipelineInv, Plain, OnTheWay, Queued
  <2> QED BY <2>1, <2>2
<1> QED BY <1>1, PipelineInvariant, TypeCorrect, PTL
=============================================================================
