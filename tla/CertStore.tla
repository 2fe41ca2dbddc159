------------------------------ MODULE CertStore ------------------------------
(***************************************************************************)
(* From a renewed certificate to cache.json and back: the hand-off at the  *)
(* end of renew, the update channel, the writer goroutine listenUpdate,    *)
(* the cache file, Stop, the end of the process and the next start.        *)
(*                                                                         *)
(* Of an entry's renewals only what CertCell promises is used: they come   *)
(* one at a time, and the next one waits for the hand-off of the last.     *)
(* A certificate is the number of its issuance for its key, 0 for none.    *)
(***************************************************************************)
EXTENDS Naturals, Sequences

CONSTANTS
  Keys,      \* the cache keys, one per set of domains
  QueueCap,  \* capacity of the update channel (10 in the code)
  MaxCert    \* bound: certificates issued per key

ASSUME StoreAssumption == QueueCap \in Nat \ {0} /\ MaxCert \in Nat

VARIABLES
  issued,   \* per key, the certificates ACME has issued
  cert,     \* per key, the certificate cached in memory
  handing,  \* per key, the certificate renew is handing to the writer, or 0
  ctxDone,  \* per key, whether the context of that renew is done
  gaveUp,   \* per key, the last certificate whose hand-off was given up
  update,   \* the channel to the writer
  entries,  \* the writer's map: per key a certificate, or 0 if absent
  file,     \* cache.json: whether it can be parsed, and the map it holds
  dirty,    \* whether the last save failed
  writer,   \* where listenUpdate is
  stopped,  \* whether rootCtx is cancelled
  life      \* "up"; "exited" when main has returned; "crashed"

renewals == <<issued, cert, handing, ctxDone, gaveUp>>
disk == <<entries, file, dirty, writer>>
vars == <<renewals, update, disk, stopped, life>>

NoCerts == [k \in Keys |-> 0]
Item == [key : Keys, cert : Nat]

TypeOK ==
  /\ issued \in [Keys -> Nat] /\ cert \in [Keys -> Nat] /\ handing \in [Keys -> Nat]
  /\ ctxDone \in [Keys -> BOOLEAN] /\ gaveUp \in [Keys -> Nat]
  /\ update \in Seq(Item) /\ Len(update) <= QueueCap
  /\ entries \in [Keys -> Nat]
  /\ file \in [ok : BOOLEAN, certs : [Keys -> Nat]]
  /\ dirty \in BOOLEAN
  /\ writer \in {"loop", "loopWrite", "drain", "drainWrite", "exited"}
  /\ stopped \in BOOLEAN
  /\ life \in {"up", "exited", "crashed"}

\* The first start: no cache.json, which loads like an empty one.
Init ==
  /\ issued = NoCerts /\ cert = NoCerts /\ handing = NoCerts
  /\ ctxDone = [k \in Keys |-> FALSE] /\ gaveUp = NoCerts
  /\ update = <<>>
  /\ entries = NoCerts /\ file = [ok |-> TRUE, certs |-> NoCerts] /\ dirty = FALSE
  /\ writer = "loop"
  /\ stopped = FALSE /\ life = "up"

-----------------------------------------------------------------------------
(* renew, once ACME has issued the certificate *)

\* The certificate is cached.  The caller's context may be done already: it is
\* not looked at while ACME is at work.
renew(k) ==
  /\ life = "up" /\ handing[k] = 0 /\ issued[k] < MaxCert
  /\ issued' = [issued EXCEPT ![k] = @ + 1]
  /\ cert' = [cert EXCEPT ![k] = issued[k] + 1]
  /\ handing' = [handing EXCEPT ![k] = issued[k] + 1]
  /\ \E d \in BOOLEAN : ctxDone' = [ctxDone EXCEPT ![k] = d]
  /\ UNCHANGED <<gaveUp, update, disk, stopped, life>>

\* The caller goes away, or Stop cancels the caller's context.
cancel(k) ==
  /\ life = "up" /\ handing[k] # 0 /\ ~ctxDone[k]
  /\ ctxDone' = [ctxDone EXCEPT ![k] = TRUE]
  /\ UNCHANGED <<issued, cert, handing, gaveUp, update, disk, stopped, life>>

\* Slip: the send does not wait for room.
send_Drops(k) ==
  /\ life = "up" /\ handing[k] # 0
  /\ update' = IF Len(update) < QueueCap
               THEN Append(update, [key |-> k, cert |-> handing[k]]) ELSE update
  /\ handing' = [handing EXCEPT ![k] = 0]
  /\ UNCHANGED <<issued, cert, ctxDone, gaveUp, disk, stopped, life>>

\* Slip: the channel is an unbounded queue.
send_Unbounded(k) ==
  /\ life = "up" /\ handing[k] # 0
  /\ update' = Append(update, [key |-> k, cert |-> handing[k]])
  /\ handing' = [handing EXCEPT ![k] = 0]
  /\ UNCHANGED <<issued, cert, ctxDone, gaveUp, disk, stopped, life>>

\* The two branches of the select: when both are ready either is taken.
send(k) ==
  /\ life = "up" /\ handing[k] # 0
  /\ Len(update) < QueueCap
  /\ update' = Append(update, [key |-> k, cert |-> handing[k]])
  /\ handing' = [handing EXCEPT ![k] = 0]
  /\ UNCHANGED <<issued, cert, ctxDone, gaveUp, disk, stopped, life>>

giveUp(k) ==
  /\ life = "up" /\ handing[k] # 0
  /\ ctxDone[k]
  /\ gaveUp' = [gaveUp EXCEPT ![k] = handing[k]]
  /\ handing' = [handing EXCEPT ![k] = 0]
  /\ UNCHANGED <<issued, cert, ctxDone, update, disk, stopped, life>>

-----------------------------------------------------------------------------
(* listenUpdate *)

\* Slip: the map is written out before the new certificate is entered.
saveEntry_Late(fe, l, w) ==
  /\ entries' = [entries EXCEPT ![fe.key] = fe.cert]
  /\ file' = [ok |-> TRUE, certs |-> entries]
  /\ writer' = l /\ dirty' = FALSE

\* saveEntry up to the start of os.WriteFile, which truncates the file unless it
\* cannot open it; l and w are the places before the next select and in the write.
saveEntry(fe, l, w) ==
  /\ entries' = [entries EXCEPT ![fe.key] = fe.cert]
  /\ \/ /\ file' = [file EXCEPT !.ok = FALSE]
        /\ writer' = w
        /\ UNCHANGED dirty
     \/ /\ writer' = l
        /\ dirty' = TRUE
        /\ UNCHANGED file

\* Slip: each update is persisted by a goroutine of its own, in any order.
take_AnyOrder(l, w) ==
  \E i \in DOMAIN update :
    /\ saveEntry(update[i], l, w)
    /\ update' = SubSeq(update, 1, i - 1) \o SubSeq(update, i + 1, Len(update))

take(l, w) ==
  /\ update # <<>>
  /\ saveEntry(Head(update), l, w)
  /\ update' = Tail(update)

\* The outer select: a queued update, or ctx.Done.
receive ==
  /\ life = "up" /\ writer = "loop"
  /\ take("loop", "loopWrite")
  /\ UNCHANGED <<renewals, stopped, life>>

seeStop ==
  /\ life = "up" /\ writer = "loop"
  /\ stopped
  /\ writer' = "drain"
  /\ UNCHANGED <<renewals, update, entries, file, dirty, stopped, life>>

\* The inner select: it returns as soon as nothing is queued.
drain ==
  /\ life = "up" /\ writer = "drain"
  /\ \/ take("drain", "drainWrite")
     \/ /\ update = <<>>
        /\ writer' = "exited"
        /\ UNCHANGED <<update, entries, file, dirty>>
  /\ UNCHANGED <<renewals, stopped, life>>

AfterWrite == IF writer = "loopWrite" THEN "loop" ELSE "drain"

\* Slip: the writer stops after one update.
write_Quits ==
  /\ life = "up" /\ writer \in {"loopWrite", "drainWrite"}
  /\ file' = [ok |-> TRUE, certs |-> entries] /\ dirty' = FALSE
  /\ writer' = "exited"
  /\ UNCHANGED <<renewals, update, entries, stopped, life>>

\* os.WriteFile returns: the whole map is in the file, or the write failed and is
\* only logged.
write ==
  /\ life = "up" /\ writer \in {"loopWrite", "drainWrite"}
  /\ \/ file' = [ok |-> TRUE, certs |-> entries] /\ dirty' = FALSE
     \/ dirty' = TRUE /\ UNCHANGED file
  /\ writer' = AfterWrite
  /\ UNCHANGED <<renewals, update, entries, stopped, life>>

-----------------------------------------------------------------------------
(* The process *)

Stop ==
  /\ life = "up" /\ ~stopped
  /\ stopped' = TRUE
  /\ UNCHANGED <<renewals, update, disk, life>>

\* main blocks in Wait, which returns when rootCtx is done, and main returns.
mainReturns ==
  /\ life = "up" /\ stopped
  /\ life' = "exited"
  /\ UNCHANGED <<renewals, update, disk, stopped>>

crash ==
  /\ life = "up"
  /\ life' = "crashed"
  /\ UNCHANGED <<renewals, update, disk, stopped>>

\* Init and loadCertStore: a file that cannot be parsed is only logged, expired
\* certificates (the keys outside live) are discarded.
start ==
  /\ life # "up"
  /\ \E live \in SUBSET Keys :
       entries' = [k \in Keys |-> IF file.ok /\ k \in live THEN file.certs[k] ELSE 0]
  /\ cert' = entries'
  /\ handing' = NoCerts /\ ctxDone' = [k \in Keys |-> FALSE] /\ gaveUp' = NoCerts
  /\ update' = <<>>
  /\ writer' = "loop" /\ dirty' = FALSE
  /\ stopped' = FALSE /\ life' = "up"
  /\ UNCHANGED <<issued, file>>

Next ==
  \/ \E k \in Keys : renew(k) \/ cancel(k) \/ send(k) \/ giveUp(k)
  \/ receive \/ seeStop \/ drain \/ write
  \/ Stop \/ mainReturns \/ crash \/ start

Spec == Init /\ [][Next]_vars

\* Goroutines that can run do; a goroutine blocked on a channel is served when
\* there is room often enough (Go queues senders); main returns after Stop.
FairSpec ==
  /\ Spec
  /\ \A k \in Keys : SF_vars(send(k)) /\ WF_vars(send(k) \/ giveUp(k))
  /\ WF_vars(receive \/ drain \/ seeStop) /\ WF_vars(write)
  /\ WF_vars(mainReturns)

-----------------------------------------------------------------------------
(* Safety *)

\* The certificates of k in the writer's map, in the channel and in the hand-off.
Queued(k) == {update[i].cert : i \in {j \in DOMAIN update : update[j].key = k}}
OnTheWay(k) == {entries[k]} \cup Queued(k) \cup ({handing[k]} \ {0})

\* Along cache.json, the writer's map, the channel and the hand-off, certificates of one
\* key only get newer, over crashes and restarts too: an older one never overwrites a
\* newer one in cache.json.  A key may be missing from the map, when start has found its
\* certificate expired or could not parse the file.
PersistInOrder ==
  life = "up" =>
    /\ \A i, j \in DOMAIN update :
         i < j /\ update[i].key = update[j].key => update[i].cert < update[j].cert
    /\ \A k \in Keys :
         /\ entries[k] # 0 => file.certs[k] <= entries[k]
         /\ \A c \in Queued(k) :
              entries[k] < c /\ file.certs[k] < c /\ (handing[k] # 0 => c < handing[k])
         /\ handing[k] # 0 => entries[k] < handing[k] /\ file.certs[k] < handing[k]

\* While the server runs, the cached certificate is the newest on its way to the file
\* or in it, unless the hand-off of that very certificate was given up.
NothingLost ==
  life = "up" =>
    \A k \in Keys :
      /\ cert[k] \in OnTheWay(k) \cup {gaveUp[k]}
      /\ \A c \in OnTheWay(k) : c <= cert[k]

\* Between writes, every certificate in the writer's map is in a file that can be
\* parsed, unless the last save failed: saving one key keeps the others.
MapOnDisk ==
  life = "up" /\ writer \in {"loop", "drain", "exited"} /\ ~dirty =>
    \A k \in Keys : entries[k] # 0 => file.ok /\ file.certs[k] = entries[k]

-----------------------------------------------------------------------------
(* Liveness, under FairSpec *)

\* A renewed certificate reaches cache.json, unless its hand-off is given up, the
\* last save failed, or the process ends.
RenewalReachesDisk ==
  \A k \in Keys :
    (life = "up" /\ handing[k] # 0) ~>
      \/ file.ok /\ file.certs[k] = cert[k]
      \/ gaveUp[k] = cert[k]
      \/ dirty
      \/ life # "up"

-----------------------------------------------------------------------------
(* What a comment of the code says, and the code does not guarantee *)

\* listenUpdate: on ctx.Done it "drains any updates already in the buffered channel
\* before exiting so a renewal that landed right at shutdown is not silently
\* dropped".  main does not wait for it.
DrainedAtExit == life = "exited" => update = <<>> /\ file.ok
=============================================================================
