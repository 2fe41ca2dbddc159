------------------------- MODULE UpdaterTasksProofs -------------------------
(* Proofs about Domains, and about UpdaterTasks for any tasks, domain lists and *)
(* retry budgets.                                                              *)
EXTENDS UpdaterTasks, Integers, Functions, FiniteSetTheorems, TLAPS

-----------------------------------------------------------------------------
(* Domains: names of any labels and lists of any length *)

\* The names made of labels of L, and those that have a label.
AnyName(L) == [labels : Seq(L), upper : BOOLEAN, dot : BOOLEAN]
Names(L) == [labels : Seq(L) \ {<<>>}, upper : BOOLEAN, dot : BOOLEAN]

(***************************************************************************)
(* A suffix, position by position.                                         *)
(***************************************************************************)
LEMMA SuffixAt ==
  ASSUME NEW L, NEW s \in Seq(L), NEW t \in Seq(L)
  PROVE  IsSuffix(s, t) <=>
           /\ Len(s) <= Len(t)
           /\ \A i \in 1 .. Len(s) : s[i] = t[Len(t) - Len(s) + i]
<1> DEFINE rs == Reverse(s)
           rt == Reverse(t)
<1>1. /\ rs \in Seq(L) /\ Len(rs) = Len(s)
      /\ \A i \in 1 .. Len(s) : rs[i] = s[(Len(s) - i) + 1]
  BY DEF Reverse
<1>2. /\ rt \in Seq(L) /\ Len(rt) = Len(t)
      /\ \A i \in 1 .. Len(t) : rt[i] = t[(Len(t) - i) + 1]
  BY DEF Reverse
<1>3. IsSuffix(s, t) <=>
        Len(s) <= Len(t) /\ SubSeq(rs, 1, Len(s)) = SubSeq(rt, 1, Len(s))
  BY <1>1, <1>2 DEF IsSuffix, IsPrefix
<1> HIDE DEF rs, rt
<1>4. ASSUME Len(s) <= Len(t)
      PROVE  SubSeq(rs, 1, Len(s)) = SubSeq(rt, 1, Len(s)) <=>
               \A i \in 1 .. Len(s) : rs[i] = rt[i]
  <2>1. /\ SubSeq(rs, 1, Len(s)) = [i \in 1 .. Len(s) |-> rs[i]]
        /\ SubSeq(rt, 1, Len(s)) = [i \in 1 .. Len(s) |-> rt[i]]
    BY <1>1, <1>2, <1>4
  <2> QED BY <2>1
<1>5. ASSUME Len(s) <= Len(t)
      PROVE  (\A i \in 1 .. Len(s) : rs[i] = rt[i]) <=>
               \A i \in 1 .. Len(s) : s[i] = t[Len(t) - Len(s) + i]
  <2>1. \A i \in 1 .. Len(s) : /\ (Len(s) - i) + 1 \in 1 .. Len(s)
                               /\ (Len(s) - ((Len(s) - i) + 1)) + 1 = i
                               /\ i \in 1 .. Len(t)
                               /\ Len(t) - Len(s) + ((Len(s) - i) + 1) = (Len(t) - i) + 1
    BY <1>5
  <2>2. ASSUME \A i \in 1 .. Len(s) : rs[i] = rt[i], NEW i \in 1 .. Len(s)
        PROVE  s[i] = t[Len(t) - Len(s) + i]
    <3> PICK j : j = (Len(s) - i) + 1
      OBVIOUS
    <3>1. /\ j \in 1 .. Len(s) /\ j \in 1 .. Len(t) /\ (Len(s) - j) + 1 = i
          /\ (Len(t) - j) + 1 = Len(t) - Len(s) + i
      BY <1>5
    <3>2. rs[j] = s[i] /\ rt[j] = t[Len(t) - Len(s) + i]
      BY Zenon, <1>1, <1>2, <3>1
    <3> QED BY <2>2, <3>1, <3>2
  <2>3. ASSUME \A i \in 1 .. Len(s) : s[i] = t[Len(t) - Len(s) + i], NEW i \in 1 .. Len(s)
        PROVE  rs[i] = rt[i]
    <3> PICK j : j = (Len(s) - i) + 1
      OBVIOUS
    <3>1. /\ j \in 1 .. Len(s) /\ i \in 1 .. Len(t)
          /\ Len(t) - Len(s) + j = (Len(t) - i) + 1
      BY <1>5
    <3>2. rs[i] = s[j] /\ rt[i] = t[Len(t) - Len(s) + j]
      BY <1>1, <1>2, <3>1
    <3> QED BY <2>3, <3>1, <3>2
  <2> QED BY <2>2, <2>3
<1> QED BY <1>3, <1>4, <1>5

(***************************************************************************)
(* A suffix of a suffix is a suffix.                                       *)
(***************************************************************************)
LEMMA SuffixTransitive ==
  ASSUME NEW L, NEW s \in Seq(L), NEW t \in Seq(L), NEW u \in Seq(L),
         IsSuffix(s, t), IsSuffix(t, u)
  PROVE  IsSuffix(s, u)
<1>1. /\ Len(s) \in Nat /\ Len(t) \in Nat /\ Len(u) \in Nat
      /\ Len(s) <= Len(t) /\ \A i \in 1 .. Len(s) : s[i] = t[Len(t) - Len(s) + i]
      /\ Len(t) <= Len(u) /\ \A i \in 1 .. Len(t) : t[i] = u[Len(u) - Len(t) + i]
  BY SuffixAt
<1>2. ASSUME NEW i \in 1 .. Len(s) PROVE s[i] = u[Len(u) - Len(s) + i]
  <2> PICK j : j = Len(t) - Len(s) + i
    OBVIOUS
  <2>1. j \in 1 .. Len(t) /\ Len(u) - Len(t) + j = Len(u) - Len(s) + i
    BY <1>1
  <2>2. s[i] = t[j] /\ t[j] = u[Len(u) - Len(t) + j]
    BY <1>1, <2>1
  <2> QED BY <2>1, <2>2
<1>3. Len(s) <= Len(u)
  BY <1>1
<1> QED BY <1>2, <1>3, SuffixAt

(***************************************************************************)
(* A name in lower case, and its normal form.                              *)
(***************************************************************************)
LEMMA NormalRecord ==
  ASSUME NEW L, NEW x \in AnyName(L)
  PROVE  /\ toLower(x) = [labels |-> x.labels, upper |-> FALSE, dot |-> x.dot]
         /\ normalizeName(x) = [labels |-> x.labels, upper |-> FALSE, dot |-> FALSE]
<1>1. x = [labels |-> x.labels, upper |-> x.upper, dot |-> x.dot]
  BY DEF AnyName
<1>2. ASSUME NEW no
      PROVE  /\ [x EXCEPT !.upper = no] = [labels |-> x.labels, upper |-> no, dot |-> x.dot]
             /\ [[x EXCEPT !.upper = no] EXCEPT !.dot = no] =
                  [labels |-> x.labels, upper |-> no, dot |-> no]
  <2>1. [x EXCEPT !.upper = no] = [labels |-> x.labels, upper |-> no, dot |-> x.dot]
    BY <1>1
  <2>2. \A y : y = [labels |-> x.labels, upper |-> no, dot |-> x.dot] =>
               [y EXCEPT !.dot = no] = [labels |-> x.labels, upper |-> no, dot |-> no]
    OBVIOUS
  <2> QED BY Zenon, <2>1, <2>2
<1> QED BY Zenon, <1>2 DEF normalizeName, toLower

(***************************************************************************)
(* The normal form of a name is told by its labels alone.                  *)
(***************************************************************************)
LEMMA NormalForm ==
  ASSUME NEW L, NEW m \in Names(L), NEW n \in Names(L)
  PROVE  /\ normalizeName(n).labels = n.labels /\ ~isEmpty(normalizeName(n))
         /\ normalizeName(m) = normalizeName(n) <=> m.labels = n.labels
<1>1. \A x \in Names(L) :
        normalizeName(x) = [labels |-> x.labels, upper |-> FALSE, dot |-> FALSE]
  <2>1. \A x \in Names(L) : x \in AnyName(L)
    BY DEF Names, AnyName
  <2> QED BY Zenon, <2>1, NormalRecord
<1>2. normalizeName(m).labels = m.labels /\ normalizeName(n).labels = n.labels
  BY <1>1
<1>3. ~isEmpty(normalizeName(n))
  BY <1>2 DEF isEmpty, Names
<1>4. m.labels = n.labels => normalizeName(m) = normalizeName(n)
  BY Zenon, <1>1
<1> QED BY <1>2, <1>3, <1>4

(***************************************************************************)
(* Lower case first changes nothing: neither the normal form nor whether   *)
(* anything is left of the name.                                           *)
(***************************************************************************)
LEMMA NormalOfLower ==
  ASSUME NEW L, NEW n \in AnyName(L)
  PROVE  /\ normalizeName(toLower(n)) = normalizeName(n)
         /\ isEmpty(toLower(n)) => isEmpty(normalizeName(n))
<1>1. /\ toLower(n) = [labels |-> n.labels, upper |-> FALSE, dot |-> n.dot]
      /\ normalizeName(n) = [labels |-> n.labels, upper |-> FALSE, dot |-> FALSE]
  BY Zenon, NormalRecord
<1>2. toLower(n) \in AnyName(L) /\ toLower(n).labels = n.labels
  BY <1>1 DEF AnyName
<1>3. normalizeName(toLower(n)) = [labels |-> toLower(n).labels, upper |-> FALSE, dot |-> FALSE]
  BY Zenon, <1>2, NormalRecord
<1>4. isEmpty(toLower(n)) => isEmpty(normalizeName(n))
  BY <1>1 DEF isEmpty
<1> QED BY <1>1, <1>2, <1>3, <1>4

(***************************************************************************)
(* A name with a label keeps it in lower case.                             *)
(***************************************************************************)
LEMMA LowerNames ==
  ASSUME NEW L, NEW n \in Names(L)
  PROVE  n \in AnyName(L) /\ toLower(n) \in Names(L)
<1>1. n \in AnyName(L) /\ n.labels \in Seq(L) \ {<<>>} /\ n.dot \in BOOLEAN
  BY DEF Names, AnyName
<1>2. toLower(n) = [labels |-> n.labels, upper |-> FALSE, dot |-> n.dot]
  BY Zenon, <1>1, NormalRecord
<1>3. \A l \in Seq(L) \ {<<>>} : \A u, d \in BOOLEAN :
        [labels |-> l, upper |-> u, dot |-> d] \in Names(L)
  BY DEF Names
<1>4. FALSE \in BOOLEAN
  OBVIOUS
<1> QED BY Zenon, <1>1, <1>2, <1>3, <1>4

(***************************************************************************)
(* Lists with one key have the same names up to case and root dot.         *)
(***************************************************************************)
LEMMA KeyNames ==
  ASSUME NEW L, NEW a \in Seq(Names(L)), NEW b \in Seq(Names(L)), AsKey(a) = AsKey(b)
  PROVE  \A i \in DOMAIN a : \E j \in DOMAIN b : a[i].labels = b[j].labels
<1> TAKE i \in DOMAIN a
<1>1. a[i] \in Names(L)
  OBVIOUS
<1>2. normalizeName(a[i]) \in AsKey(a)
  BY <1>1, NormalForm DEF AsKey
<1>3. PICK j \in DOMAIN b : normalizeName(a[i]) = normalizeName(b[j])
  BY <1>2 DEF AsKey
<1>4. b[j] \in Names(L)
  OBVIOUS
<1> QED BY <1>1, <1>3, <1>4, NormalForm

(***************************************************************************)
(* IsSubdomain of names, by their labels.                                  *)
(***************************************************************************)
LEMMA SubdomainLabels ==
  ASSUME NEW L, NEW d \in Names(L), NEW allowed \in Seq(Names(L))
  PROVE  IsSubdomain(d, allowed) <=>
           \E i \in DOMAIN allowed : IsSuffix(allowed[i].labels, d.labels)
<1>1. \A i \in DOMAIN allowed : allowed[i] \in Names(L)
  OBVIOUS
<1>2. \A i \in DOMAIN allowed :
        /\ normalizeName(allowed[i]).labels = allowed[i].labels
        /\ allowed[i].labels # <<>> /\ allowed[i].labels \in Seq(L)
  BY <1>1, NormalForm DEF Names
<1>3. normalizeName(d).labels = d.labels /\ d.labels \in Seq(L)
  BY NormalForm DEF Names
<1>4. IsSuffix(d.labels, d.labels)
  BY <1>3, SuffixAt
<1> QED BY <1>2, <1>3, <1>4 DEF IsSubdomain

-----------------------------------------------------------------------------
(* The theorems *)

(***************************************************************************)
(* The allow-list tells no two lists with one key apart.  GetCertEntry and *)
(* the store find an entry by AsKey of the request, which may be spelled   *)
(* unlike the request that made the entry: the entry is of names the       *)
(* allow-list admits exactly if it admits the request.                     *)
(***************************************************************************)
THEOREM SameKeySameAdmission ==
  ASSUME NEW L, NEW allowed \in Seq(Names(L)),
         NEW a \in Seq(Names(L)), NEW b \in Seq(Names(L)), AsKey(a) = AsKey(b)
  PROVE  AllAllowed(allowed, a) <=> AllAllowed(allowed, b)
<1>1. ASSUME NEW x \in Seq(Names(L)), NEW y \in Seq(Names(L)), AsKey(x) = AsKey(y),
             AllAllowed(allowed, x)
      PROVE  AllAllowed(allowed, y)
  <2> SUFFICES ASSUME NEW j \in DOMAIN y PROVE IsSubdomain(y[j], allowed)
    BY DEF AllAllowed
  <2>1. PICK i \in DOMAIN x : y[j].labels = x[i].labels
    BY <1>1, KeyNames
  <2>2. IsSubdomain(x[i], allowed)
    BY <1>1 DEF AllAllowed
  <2>3. x[i] \in Names(L) /\ y[j] \in Names(L)
    OBVIOUS
  <2> QED BY <2>1, <2>2, <2>3, SubdomainLabels
<1> QED BY <1>1

(***************************************************************************)
(* Nor do two allow-lists with one key admit different lists.              *)
(***************************************************************************)
THEOREM SameKeySameAllowList ==
  ASSUME NEW L, NEW a \in Seq(Names(L)), NEW b \in Seq(Names(L)), AsKey(a) = AsKey(b),
         NEW list \in Seq(Names(L))
  PROVE  AllAllowed(a, list) <=> AllAllowed(b, list)
<1>1. ASSUME NEW x \in Seq(Names(L)), NEW y \in Seq(Names(L)), AsKey(x) = AsKey(y),
             AllAllowed(x, list)
      PROVE  AllAllowed(y, list)
  <2> SUFFICES ASSUME NEW i \in DOMAIN list PROVE IsSubdomain(list[i], y)
    BY DEF AllAllowed
  <2>1. list[i] \in Names(L) /\ IsSubdomain(list[i], x)
    BY <1>1 DEF AllAllowed
  <2>2. PICK j \in DOMAIN x : IsSuffix(x[j].labels, list[i].labels)
    BY <2>1, SubdomainLabels
  <2>3. PICK k \in DOMAIN y : x[j].labels = y[k].labels
    BY <1>1, KeyNames
  <2> QED BY <2>1, <2>2, <2>3, SubdomainLabels
<1> QED BY <1>1

(***************************************************************************)
(* Admission composes: what an admitted list admits is admitted.  The      *)
(* Kubernetes updater asks for the names of a secret that lie within an    *)
(* entry of its configuration; a server that admits the entry does not     *)
(* refuse them.                                                            *)
(***************************************************************************)
THEOREM AdmissionComposes ==
  ASSUME NEW L, NEW a \in Seq(Names(L)), NEW b \in Seq(Names(L)), NEW c \in Seq(Names(L)),
         AllAllowed(a, b), AllAllowed(b, c)
  PROVE  AllAllowed(a, c)
<1> SUFFICES ASSUME NEW i \in DOMAIN c PROVE IsSubdomain(c[i], a)
  BY DEF AllAllowed
<1>1. c[i] \in Names(L) /\ IsSubdomain(c[i], b)
  BY DEF AllAllowed
<1>2. PICK j \in DOMAIN b : IsSuffix(b[j].labels, c[i].labels)
  BY <1>1, SubdomainLabels
<1>3. b[j] \in Names(L) /\ IsSubdomain(b[j], a)
  BY DEF AllAllowed
<1>4. PICK k \in DOMAIN a : IsSuffix(a[k].labels, b[j].labels)
  BY <1>3, SubdomainLabels
<1>5. a[k].labels \in Seq(L) /\ b[j].labels \in Seq(L) /\ c[i].labels \in Seq(L)
  <2>1. a[k] \in Names(L)
    OBVIOUS
  <2> QED BY <1>1, <1>3, <2>1 DEF Names
<1>6. IsSuffix(a[k].labels, c[i].labels)
  BY <1>2, <1>4, <1>5, SuffixTransitive
<1> QED BY <1>1, <1>6, SubdomainLabels

-----------------------------------------------------------------------------
(* The updaters *)

(***************************************************************************)
(* There are finitely many matches, no fewer than entries matched, and as  *)
(* many only if no entry is matched twice.                                 *)
(***************************************************************************)
LEMMA MatchesFinite ==
  /\ IsFiniteSet(txcMatches) /\ Cardinality(txcMatches) \in Nat
  /\ IsFiniteSet(txcTasks) /\ txcTasks \subseteq Tasks
  /\ Cardinality(txcTasks) \in Nat /\ Cardinality(txcTasks) <= Cardinality(txcMatches)
  /\ Cardinality(txcTasks) = Cardinality(txcMatches) =>
       \A m, n \in txcMatches : m[1] = n[1] => m = n
<1>1. txcMatches \subseteq Tasks \X CloudIds
  BY Zenon DEF txcMatches
<1>2. IsFiniteSet(Tasks \X CloudIds)
  BY UpdaterAssumption, FS_Product
<1>3. IsFiniteSet(txcMatches) /\ Cardinality(txcMatches) \in Nat
  BY Zenon, <1>1, <1>2, FS_Subset, FS_CardinalityType
<1>4. \A m \in txcMatches : m[1] \in Tasks
  BY <1>1
<1>5. txcTasks \subseteq Tasks
  BY Zenon, <1>4 DEF txcTasks
<1> DEFINE f == [m \in txcMatches |-> m[1]]
<1>6. f \in Surjection(txcMatches, txcTasks)
  BY DEF Surjection, txcTasks
<1>7. /\ IsFiniteSet(txcTasks) /\ Cardinality(txcTasks) <= Cardinality(txcMatches)
      /\ Cardinality(txcTasks) = Cardinality(txcMatches) => f \in Injection(txcMatches, txcTasks)
  BY Zenon, <1>3, <1>6, FS_Surjection
<1>8. f \in Injection(txcMatches, txcTasks) => \A m, n \in txcMatches : m[1] = n[1] => m = n
  <2>1. f \in Injection(txcMatches, txcTasks) =>
          \A m, n \in txcMatches : f[m] = f[n] => m = n
    <3>1. DOMAIN f = txcMatches
      OBVIOUS
    <3> HIDE DEF f
    <3> QED BY Zenon, <3>1 DEF Injection, IsInjective
  <2>2. \A m \in txcMatches : f[m] = m[1]
    BY Zenon
  <2> QED BY Zenon, <2>1, <2>2
<1>9. Cardinality(txcTasks) \in Nat
  BY <1>7, FS_CardinalityType
<1> QED BY Zenon, <1>3, <1>5, <1>7, <1>8, <1>9

(***************************************************************************)
(* Every step of an updater keeps the types, with no assumption on how     *)
(* often a handler is called: the counter starts at a natural number and   *)
(* stops falling at zero, and an attempt is only added within the budget.  *)
(***************************************************************************)
LEMMA TypeStep == TypeOK /\ [Next]_vars => TypeOK'
<1> SUFFICES ASSUME TypeOK, [Next]_vars PROVE TypeOK'
  OBVIOUS
<1> USE UpdaterAssumption DEF TypeOK, fixed, tasks, runs, returns
<1>1. CASE getAllCertificatesFails \/ FetchTencentCloudFails \/ startCertDXDaemon
           \/ waitDeadline \/ waitDone
  BY <1>1 DEF getAllCertificatesFails, FetchTencentCloudFails, startCertDXDaemon,
              waitDeadline, waitDone
<1>2. ASSUME NEW chosen \in SUBSET Tasks, NEW count \in Nat, register(chosen, count),
             UNCHANGED <<fixed, runs, taskErr>>,
             phase' \in {"start", "returned"}, result' \in {result, "ok"}
      PROVE  TypeOK'
  <2>1. certs' \in [Keys -> Tasks \cup {None}]
    BY <1>2 DEF register
  <2> QED BY <1>2, <2>1 DEF register
<1>3. CASE k8sRegister
  <2>1. k8sTasks \in SUBSET Tasks /\ Cardinality(k8sTasks) \in Nat
    BY FS_Subset, FS_CardinalityType DEF k8sTasks
  <2> QED BY Zenon, <1>2, <1>3, <2>1 DEF k8sRegister
<1>4. CASE txcRegister
  <2>1. txcTasks \in SUBSET Tasks /\ Cardinality(txcMatches) \in Nat
    BY MatchesFinite
  <2> QED BY Zenon, <1>2, <1>4, <2>1 DEF txcRegister
<1>5. ASSUME NEW t \in Tasks, deliver(t) PROVE TypeOK'
  BY <1>5 DEF deliver
<1>6. ASSUME NEW t \in Tasks, NEW o \in {"done", "failed"}, settle(t, o) PROVE TypeOK'
  <2>1. taskErr' \in BOOLEAN
    BY <1>6 DEF settle
  <2> QED BY <1>6, <2>1 DEF settle
<1>7. ASSUME NEW t \in Tasks, handle(t) PROVE TypeOK'
  <2>1. CASE getSecret(t)
    BY <1>6, <2>1 DEF getSecret
  <2>2. CASE updateEnds(t)
    BY <1>6, <2>2 DEF updateEnds
  <2>3. CASE updateAgain(t)
    <3>1. attempt[t] + 1 \in 0 .. (RetrySteps - 1)
      BY <2>3 DEF updateAgain
    <3> QED BY <2>3, <3>1 DEF updateAgain
  <2>4. CASE finish(t)
    <3>1. wg' \in Nat
      BY <2>4 DEF finish
    <3> QED BY <2>4, <3>1 DEF finish
  <2> QED BY Zenon, <1>7, <2>1, <2>2, <2>3, <2>4 DEF handle
<1>8. CASE UNCHANGED vars
  BY <1>8 DEF vars
<1> QED
  BY Zenon, <1>1, <1>3, <1>4, <1>5, <1>7, <1>8 DEF Next, InvokeCertificateUpdate

(***************************************************************************)
(* An updater is type correct: its counter stays a natural number, and no  *)
(* handler goes over its budget of attempts.                               *)
(***************************************************************************)
THEOREM TypeCorrect == Spec => []TypeOK
<1>1. Init => TypeOK
  <2> SUFFICES ASSUME Init PROVE TypeOK
    OBVIOUS
  <2>1. wg \in Nat
    BY DEF Init
  <2>2. attempt \in [Tasks -> 0 .. (RetrySteps - 1)]
    BY UpdaterAssumption DEF Init
  <2>3. certs \in [Keys -> Tasks \cup {None}] /\ delivered \in [Tasks -> Nat]
    BY DEF Init
  <2> QED BY Zenon, <2>1, <2>2, <2>3 DEF Init, TypeOK
<1> QED BY <1>1, TypeStep, PTL DEF Spec

-----------------------------------------------------------------------------
(* The WaitGroup counts the handlers *)

\* The handlers that have not come to their wg.Done.
Unfinished == {t \in registered : outcome[t] = "none" \/ handler[t] = "finish"}

\* The matches of the Tencent Cloud updater beyond the first of each entry: registrations
\* that have no handler of their own.
Surplus ==
  IF updater = "txc" /\ registered # {}
  THEN Cardinality(txcMatches) - Cardinality(registered) ELSE 0

\* A handler runs once, and wg counts the handlers that have not finished, and the
\* surplus.  The result may be success only when nothing is left and no error was
\* recorded.
CountInv ==
  /\ registered \subseteq Tasks /\ wg \in Nat /\ taskErr \in BOOLEAN
  /\ handler \in [Tasks -> {"idle", "get", "update", "finish"}]
  /\ delivered \in [Tasks -> Nat]
  /\ outcome \in [Tasks -> {"none", "done", "failed"}]
  /\ \A k \in Keys : certs[k] \in registered \cup {None}
  /\ \A t \in Tasks : delivered[t] = 0 => handler[t] = "idle" /\ outcome[t] = "none"
  /\ \A t \in Tasks : handler[t] # "idle" \/ outcome[t] # "none" => t \in registered
  /\ \A t \in Tasks : handler[t] \in {"get", "update"} => outcome[t] = "none"
  /\ \A t \in Tasks : handler[t] = "finish" => outcome[t] # "none"
  /\ \A t \in Tasks : outcome[t] = "failed" => taskErr
  /\ phase = "list" => registered = {} /\ ~taskErr
  /\ Surplus \in Nat /\ wg = Cardinality(Unfinished) + Surplus
  /\ result = "ok" => phase = "returned" /\ Unfinished = {} /\ Surplus = 0 /\ ~taskErr

\* Whether the daemon calls no handler twice that does not guard against it.
CalledOnce == updater = "k8s" \/ TxcDeliveries <= 1

(***************************************************************************)
(* The sum of two counts is a count.                                       *)
(***************************************************************************)
LEMMA SumInNat == \A a, b \in Nat : a + b \in Nat
OBVIOUS

(***************************************************************************)
(* Every step of an updater whose handlers are called once keeps the count *)
(* of the WaitGroup.                                                       *)
(***************************************************************************)
LEMMA CountStep == CountInv /\ CalledOnce /\ [Next]_vars => CountInv'
<1> SUFFICES ASSUME CountInv, CalledOnce, [Next]_vars PROVE CountInv'
  OBVIOUS
<1> USE UpdaterAssumption DEF fixed, tasks, runs, returns
<1>f. IsFiniteSet(Unfinished) /\ Cardinality(Unfinished) \in Nat
  BY FS_Subset, FS_CardinalityType DEF CountInv, Unfinished
<1>s. UNCHANGED <<fixed, registered>> => Surplus' = Surplus
  BY Zenon DEF Surplus, txcMatches, isActivatingCertificateExists
<1>1. CASE getAllCertificatesFails \/ FetchTencentCloudFails \/ startCertDXDaemon \/ waitDeadline
  <2>1. Unfinished' = Unfinished
    BY <1>1 DEF getAllCertificatesFails, FetchTencentCloudFails, startCertDXDaemon,
                waitDeadline, Unfinished
  <2> QED
    BY Zenon, <1>1, <1>s, <2>1 DEF getAllCertificatesFails, FetchTencentCloudFails,
                            startCertDXDaemon, waitDeadline, CountInv
<1>2. ASSUME NEW chosen \in SUBSET Tasks, NEW count, register(chosen, count), phase = "list",
             Surplus' \in Nat, count = Cardinality(chosen) + Surplus',
             UNCHANGED <<fixed, runs, taskErr>>,
             \/ phase' = "start" /\ UNCHANGED result
             \/ chosen = {} /\ Surplus' = 0 /\ returns("ok")
      PROVE  CountInv'
  <2>1. \A t \in Tasks : handler[t] = "idle"
    BY <1>2 DEF CountInv
  <2>2. \A t \in Tasks : outcome[t] = "none"
    BY <1>2 DEF CountInv
  <2>3. Unfinished' = chosen
    BY Zenon, <1>2, <2>2 DEF Unfinished, register
  <2>c. Cardinality(chosen) \in Nat
    BY Zenon, FS_Subset, FS_CardinalityType
  <2>d. wg' = Cardinality(chosen) + Surplus'
    BY Zenon, <1>2 DEF register
  <2>4. wg' = Cardinality(Unfinished') + Surplus' /\ wg' \in Nat
    BY Zenon, <1>2, <2>c, <2>d, <2>3, SumInNat
  <2>5. ~taskErr' /\ (result' = "ok" => phase' = "returned" /\ Unfinished' = {} /\ Surplus' = 0)
    BY <1>2, <2>3 DEF CountInv
  <2> QED BY Zenon, <1>2, <2>1, <2>2, <2>4, <2>5 DEF CountInv, register
<1>3. CASE k8sRegister
  <2>1. k8sTasks \in SUBSET Tasks /\ Cardinality(k8sTasks) \in Nat
    BY FS_Subset, FS_CardinalityType DEF k8sTasks
  <2>2. Surplus' = 0
    BY <1>3 DEF k8sRegister, Surplus
  <2>3. Cardinality(k8sTasks) = Cardinality(k8sTasks) + Surplus'
    BY <2>1, <2>2
  <2> QED BY Zenon, <1>2, <1>3, <2>1, <2>2, <2>3 DEF k8sRegister
<1>4. CASE txcRegister
  <2>1. txcMatches' = txcMatches /\ registered' = txcTasks /\ updater' = "txc"
    BY Zenon, <1>4 DEF txcRegister, register, txcMatches, isActivatingCertificateExists
  <2>2. txcTasks = {} => txcMatches = {}
    BY Zenon DEF txcTasks
  <2>3. txcTasks = {} => Surplus' = 0 /\ Cardinality(txcMatches) = 0 /\ Cardinality(txcTasks) = 0
    BY Zenon, <2>1, <2>2, FS_EmptySet DEF Surplus
  <2>4. txcTasks # {} => Surplus' = Cardinality(txcMatches) - Cardinality(txcTasks)
    BY <2>1 DEF Surplus
  <2>5. Surplus' \in Nat /\ Cardinality(txcMatches) = Cardinality(txcTasks) + Surplus'
    BY <2>3, <2>4, MatchesFinite
  <2>6. txcTasks \in SUBSET Tasks
    BY Zenon, MatchesFinite
  <2> QED BY <1>2, <1>4, <2>5, <2>6 DEF txcRegister
<1>5. ASSUME NEW t \in Tasks, deliver(t) PROVE CountInv'
  <2>s. Surplus' = Surplus
    BY Zenon, <1>5, <1>s DEF deliver
  <2>1. CASE OnlyOnce(t)
    <3>1. Unfinished' = Unfinished
      BY <1>5, <2>1 DEF deliver, Unfinished
    <3>2. delivered' \in [Tasks -> Nat] /\ \A u \in Tasks : delivered'[u] = 0 => delivered[u] = 0
      BY <1>5 DEF deliver, CountInv
    <3> QED BY Zenon, <1>5, <2>s, <2>1, <3>1, <3>2 DEF deliver, CountInv
  <2>2. CASE ~OnlyOnce(t)
    <3>1. delivered[t] = 0
      BY <1>5, <2>2 DEF deliver, OnlyOnce, CalledOnce, Deliveries, CountInv
    <3>2. t \in registered /\ outcome[t] = "none" /\ handler[t] = "idle"
      BY <1>5, <3>1 DEF deliver, CountInv
    <3>3. \E h \in {"get", "update"} : handler' = [handler EXCEPT ![t] = h]
      BY <1>5, <2>2 DEF deliver
    <3>4. Unfinished' = Unfinished
      BY Zenon, <1>5, <3>2, <3>3 DEF deliver, Unfinished, CountInv
    <3>5. delivered' \in [Tasks -> Nat] /\ \A u \in Tasks : delivered'[u] = 0 => delivered[u] = 0 /\ u # t
      BY <1>5 DEF deliver, CountInv
    <3>6. /\ handler' \in [Tasks -> {"idle", "get", "update", "finish"}]
          /\ handler'[t] \in {"get", "update"}
          /\ \A u \in Tasks \ {t} : handler'[u] = handler[u]
      BY <3>3 DEF CountInv
    <3>7. \A u \in Tasks : delivered'[u] = 0 => handler'[u] = "idle" /\ outcome[u] = "none"
      BY <3>5, <3>6 DEF CountInv
    <3>8. \A u \in Tasks : handler'[u] # "idle" \/ outcome[u] # "none" => u \in registered
      BY <3>2, <3>6 DEF CountInv
    <3>9. /\ \A u \in Tasks : handler'[u] \in {"get", "update"} => outcome[u] = "none"
          /\ \A u \in Tasks : handler'[u] = "finish" => outcome[u] # "none"
      BY <3>2, <3>6 DEF CountInv
    <3>d. delivered' \in [Tasks -> Nat]
      BY <3>5
    <3>h. handler' \in [Tasks -> {"idle", "get", "update", "finish"}]
      BY <3>6
    <3>10. /\ phase' = phase /\ registered' = registered /\ certs' = certs /\ wg' = wg
           /\ outcome' = outcome /\ taskErr' = taskErr /\ result' = result
      BY Zenon, <1>5 DEF deliver
    <3> QED BY Zenon, <2>s, <3>4, <3>d, <3>h, <3>7, <3>8, <3>9, <3>10 DEF CountInv
  <2> QED BY <2>1, <2>2
<1>6. ASSUME NEW t \in Tasks, getSecret(t) \/ updateEnds(t) \/ updateAgain(t) PROVE CountInv'
  <2>0. t \in registered /\ outcome[t] = "none" /\ delivered[t] # 0
    BY <1>6 DEF getSecret, updateEnds, updateAgain, CountInv
  <2>1. ASSUME NEW o \in {"done", "failed"}, settle(t, o), phase = "wait" PROVE CountInv'
    <3>1. Unfinished' = Unfinished
      BY <2>0, <2>1 DEF settle, Unfinished, CountInv
    <3>2. taskErr' \in BOOLEAN
      BY <2>1 DEF settle
    <3>3. (taskErr => taskErr') /\ (o = "failed" => taskErr')
      BY Zenon, <2>1 DEF settle
    <3>4. Surplus' = Surplus
      BY Zenon, <1>s, <2>1 DEF settle
    <3> QED BY Zenon, <2>0, <2>1, <3>1, <3>2, <3>3, <3>4 DEF settle, CountInv
  <2>2. ASSUME NEW h \in {"get", "update"}, handler' = [handler EXCEPT ![t] = h],
               UNCHANGED <<fixed, phase, tasks, wg, delivered, outcome, taskErr, result>>,
               handler[t] \in {"get", "update"}
        PROVE  CountInv'
    <3>1. Unfinished' = Unfinished
      BY <2>0, <2>2 DEF Unfinished, CountInv
    <3>2. Surplus' = Surplus
      BY Zenon, <1>s, <2>2
    <3> QED BY Zenon, <2>0, <2>2, <3>1, <3>2 DEF CountInv
  <2>3. CASE getSecret(t)
    BY <2>1, <2>2, <2>3 DEF getSecret
  <2>4. CASE updateEnds(t)
    BY <2>1, <2>4 DEF updateEnds
  <2>5. CASE updateAgain(t)
    BY Zenon, <2>2, <2>5 DEF updateAgain
  <2> QED BY Zenon, <1>6, <2>3, <2>4, <2>5
<1>7. ASSUME NEW t \in Tasks, finish(t) PROVE CountInv'
  <2>1. t \in Unfinished /\ outcome[t] # "none" /\ delivered[t] # 0
    BY <1>7 DEF finish, Unfinished, CountInv
  <2>2. Unfinished' = Unfinished \ {t}
    BY <1>7, <2>1 DEF finish, Unfinished, CountInv
  <2>3. /\ Cardinality(Unfinished) \in Nat \ {0}
        /\ Cardinality(Unfinished') = Cardinality(Unfinished) - 1
    BY Zenon, <1>f, <2>1, <2>2, FS_RemoveElement, FS_EmptySet, FS_CardinalityType
  <2>4. Surplus' = Surplus
    BY Zenon, <1>7, <1>s DEF finish
  <2>5. wg' = wg - 1 /\ UNCHANGED <<phase, result>>
    BY <1>7, <2>3 DEF finish, CountInv
  <2>6. wg' = Cardinality(Unfinished') + Surplus' /\ wg' \in Nat
    BY <2>3, <2>4, <2>5 DEF CountInv
  <2> QED BY Zenon, <1>7, <2>1, <2>2, <2>4, <2>5, <2>6 DEF finish, CountInv
<1>8. CASE waitDone
  <2>0. Cardinality(Unfinished) = 0 /\ Surplus = 0
    BY <1>8, <1>f DEF waitDone, CountInv
  <2>1. Unfinished = {} /\ Unfinished' = Unfinished /\ Surplus' = Surplus /\ Surplus' = 0
    BY Zenon, <1>8, <1>f, <1>s, <2>0, FS_EmptySet DEF waitDone, Unfinished
  <2> QED BY ZenonT(30), <1>8, <2>1 DEF waitDone, CountInv
<1>9. CASE UNCHANGED vars
  <2>1. Unfinished' = Unfinished
    BY Zenon, <1>9 DEF vars, Unfinished
  <2>2. Surplus' = Surplus
    BY Zenon, <1>9, <1>s DEF vars
  <2> QED BY Zenon, <1>9, <2>1, <2>2 DEF vars, CountInv
<1> QED
  BY Zenon, <1>1, <1>3, <1>4, <1>5, <1>6, <1>7, <1>8, <1>9
     DEF Next, InvokeCertificateUpdate, handle

(***************************************************************************)
(* The updater is the same one throughout.                                 *)
(***************************************************************************)
LEMMA FixedStep == [Next]_vars => UNCHANGED fixed
BY DEF Next, vars, fixed, InvokeCertificateUpdate, getAllCertificatesFails,
       FetchTencentCloudFails, k8sRegister, txcRegister, startCertDXDaemon, waitDone,
       waitDeadline, deliver, handle, getSecret, updateEnds, updateAgain, settle, finish

(***************************************************************************)
(* The count holds of every behaviour in which no unguarded handler is     *)
(* called twice.                                                           *)
(***************************************************************************)
LEMMA CountInvariant == Spec => [](CalledOnce => CountInv)
<1>1. Init => CountInv
  <2> SUFFICES ASSUME Init PROVE CountInv
    OBVIOUS
  <2>1. Unfinished = {} /\ Surplus = 0
    BY DEF Init, Unfinished, Surplus
  <2>2. wg = Cardinality(Unfinished) + Surplus /\ wg \in Nat /\ Surplus \in Nat
    BY <2>1, FS_EmptySet DEF Init
  <2>3. taskErr = FALSE /\ result = "none" /\ registered = {} /\ delivered \in [Tasks -> Nat]
    BY DEF Init
  <2> QED BY Zenon, <2>1, <2>2, <2>3 DEF Init, CountInv
<1>2. [Next]_vars => (CalledOnce' <=> CalledOnce)
  BY FixedStep DEF CalledOnce, fixed
<1> QED BY <1>1, <1>2, CountStep, PTL DEF Spec

(***************************************************************************)
(* SuccessMeansAllDone, for the Kubernetes updater however often its       *)
(* handlers are called, and for the other when none is called twice.       *)
(***************************************************************************)
THEOREM SuccessIsComplete == Spec => [](CalledOnce => SuccessMeansAllDone)
<1>1. CountInv => SuccessMeansAllDone
  BY DEF CountInv, SuccessMeansAllDone, Unfinished
<1> QED BY <1>1, CountInvariant, PTL

\* A handler that is about to call wg.Done finds the counter above zero.
DoneIsCounted ==
  \A t \in Tasks : handler[t] = "finish" => wg > 0

(***************************************************************************)
(* The deferred wg.Done never takes the counter below zero, which would    *)
(* panic: for the Kubernetes updater however often its handlers are        *)
(* called, for the other when none is called twice.                        *)
(***************************************************************************)
THEOREM DoneNeverPanics == Spec => [](CalledOnce => DoneIsCounted)
<1>1. CountInv => DoneIsCounted
  <2> SUFFICES ASSUME CountInv, NEW t \in Tasks, handler[t] = "finish" PROVE wg > 0
    BY DEF DoneIsCounted
  <2>1. t \in Unfinished
    BY DEF CountInv, Unfinished
  <2>2. IsFiniteSet(Unfinished)
    BY UpdaterAssumption, FS_Subset DEF CountInv, Unfinished
  <2> QED BY <2>1, <2>2, FS_EmptySet, FS_CardinalityType DEF CountInv
<1> QED BY <1>1, CountInvariant, PTL

-----------------------------------------------------------------------------
(* The daemon's map has one place per domain set *)

\* A place is held by a task with that key, and only a task with a place is called.
PlaceInv ==
  /\ phase = "list" => \A t \in Tasks : delivered[t] = 0
  /\ \A k \in Keys : certs[k] # None => AsKey(domains[certs[k]]) = k
  /\ \A t \in Tasks : delivered[t] # 0 => \E k \in Keys : certs[k] = t

(***************************************************************************)
(* Every step keeps the places of the map.                                 *)
(***************************************************************************)
LEMMA PlaceStep == TypeOK /\ PlaceInv /\ [Next]_vars => PlaceInv'
<1> SUFFICES ASSUME TypeOK, PlaceInv, [Next]_vars PROVE PlaceInv'
  OBVIOUS
<1> USE UpdaterAssumption DEF PlaceInv, fixed, tasks, runs, returns
<1>1. CASE getAllCertificatesFails \/ FetchTencentCloudFails \/ startCertDXDaemon
           \/ waitDeadline \/ waitDone
  BY Zenon, <1>1 DEF getAllCertificatesFails, FetchTencentCloudFails, startCertDXDaemon,
              waitDeadline, waitDone
<1>2. ASSUME NEW chosen \in SUBSET Tasks, NEW count, register(chosen, count),
             UNCHANGED <<fixed, runs>>, phase = "list", phase' # "list"
      PROVE  PlaceInv'
  <2>1. \A t \in Tasks : delivered'[t] = 0
    BY Zenon, <1>2
  <2>2. \A k \in Keys : certs'[k] # None => AsKey(domains[certs'[k]]) = k
    BY <1>2 DEF register
  <2> QED BY Zenon, <1>2, <2>1, <2>2
<1>3. CASE k8sRegister
  <2>1. k8sTasks \in SUBSET Tasks
    BY DEF k8sTasks
  <2> QED BY Zenon, <1>2, <1>3, <2>1 DEF k8sRegister
<1>4. CASE txcRegister
  <2>1. txcTasks \in SUBSET Tasks
    BY Zenon, MatchesFinite
  <2> QED BY Zenon, <1>2, <1>4, <2>1 DEF txcRegister
<1>5. ASSUME NEW t \in Tasks, deliver(t) PROVE PlaceInv'
  <2>1. \A u \in Tasks : delivered'[u] # 0 => delivered[u] # 0 \/ u = t
    BY <1>5 DEF deliver, TypeOK
  <2> QED BY <1>5, <2>1 DEF deliver
<1>6. ASSUME NEW t \in Tasks, handle(t) PROVE PlaceInv'
  <2>1. UNCHANGED <<fixed, tasks, delivered>> /\ phase = "wait" /\ phase' # "list"
    BY Zenon, <1>6 DEF handle, getSecret, updateEnds, updateAgain, settle, finish
  <2> QED BY Zenon, <2>1
<1>7. CASE UNCHANGED vars
  BY <1>7 DEF vars
<1> QED
  BY Zenon, <1>1, <1>3, <1>4, <1>5, <1>6, <1>7 DEF Next, InvokeCertificateUpdate

\* The Tencent Cloud updater registers the entries matched, or nothing.
MatchInv == updater = "txc" => registered \in {{}, txcTasks}

(***************************************************************************)
(* MatchInv holds of every behaviour.                                      *)
(***************************************************************************)
LEMMA MatchInvariant == Spec => []MatchInv
<1>1. Init => MatchInv
  BY DEF Init, MatchInv
<1>2. MatchInv /\ [Next]_vars => MatchInv'
  <2> SUFFICES ASSUME MatchInv, [Next]_vars PROVE MatchInv'
    OBVIOUS
  <2>1. updater' = updater /\ txcTasks' = txcTasks
    BY Zenon, FixedStep DEF fixed, txcTasks, txcMatches, isActivatingCertificateExists
  <2>2. registered' = registered \/ updater # "txc" \/ registered' = txcTasks
    BY Zenon DEF Next, vars, tasks, InvokeCertificateUpdate, getAllCertificatesFails,
       FetchTencentCloudFails, k8sRegister, txcRegister, register, startCertDXDaemon, waitDone,
       waitDeadline, deliver, handle, getSecret, updateEnds, updateAgain, settle, finish
  <2> QED BY <2>1, <2>2 DEF MatchInv
<1> QED BY <1>1, <1>2, PTL DEF Spec

\* No two of the tasks registered have the same domain set.
DistinctKeys ==
  \A t, u \in registered : AsKey(domains[t]) = AsKey(domains[u]) => t = u

\* No entry that was registered matches two certificates of the cloud.
MatchedOnce ==
  updater = "txc" /\ registered # {} => \A m, n \in txcMatches : m[1] = n[1] => m = n

(***************************************************************************)
(* An updater that reports success had no two tasks with one domain set,   *)
(* and no entry that matched two certificates: the daemon's map keeps one  *)
(* handler per set, and the registration that lost its place keeps the     *)
(* WaitGroup from reaching zero, so that it is never passed over in        *)
(* silence.                                                                *)
(***************************************************************************)
THEOREM DuplicatesNeverSucceed ==
  Spec => [](CalledOnce /\ result = "ok" => DistinctKeys /\ MatchedOnce)
<1>1. Init => PlaceInv
  BY DEF Init, PlaceInv
<1>m. CountInv /\ MatchInv /\ result = "ok" => MatchedOnce
  <2> SUFFICES ASSUME CountInv, MatchInv, result = "ok", updater = "txc", registered # {}
               PROVE  \A m, n \in txcMatches : m[1] = n[1] => m = n
    BY DEF MatchedOnce
  <2>1. registered = txcTasks /\ Surplus = 0
    BY DEF MatchInv, CountInv
  <2>2. Cardinality(txcTasks) = Cardinality(txcMatches)
    BY <2>1, MatchesFinite DEF Surplus
  <2> QED BY Zenon, <2>2, MatchesFinite
<1>2. CountInv /\ PlaceInv /\ result = "ok" => DistinctKeys
  <2> SUFFICES ASSUME CountInv, PlaceInv, result = "ok",
                      NEW t \in registered, NEW u \in registered,
                      AsKey(domains[t]) = AsKey(domains[u])
               PROVE  t = u
    BY DEF DistinctKeys
  <2>1. t \in Tasks /\ u \in Tasks /\ delivered[t] # 0 /\ delivered[u] # 0
    BY DEF CountInv, Unfinished
  <2>2. PICK k \in Keys : certs[k] = t
    BY <2>1 DEF PlaceInv
  <2>3. PICK l \in Keys : certs[l] = u
    BY <2>1 DEF PlaceInv
  <2>4. k = AsKey(domains[t]) /\ l = AsKey(domains[u])
    BY Zenon, <2>1, <2>2, <2>3, UpdaterAssumption DEF PlaceInv
  <2> QED BY <2>2, <2>3, <2>4
<1> QED
  BY <1>1, <1>2, <1>m, PlaceStep, CountInvariant, MatchInvariant, TypeCorrect, PTL DEF Spec

-----------------------------------------------------------------------------
(* The names an updater asks for *)

(***************************************************************************)
(* A sequence made of a finite set has its elements and no others.         *)
(***************************************************************************)
LEMMA SetToSeqElements ==
  ASSUME NEW S, IsFiniteSet(S)
  PROVE  SetToSeq(S) \in Seq(S) /\ {SetToSeq(S)[i] : i \in DOMAIN SetToSeq(S)} = S
<1> PICK n : n = Cardinality(S)
  OBVIOUS
<1>1. n \in Nat /\ ExistsBijection(1 .. n, S)
  BY FS_CardinalityType
<1>2. \E f \in [1 .. n -> S] : IsInjective(f)
  BY <1>1 DEF ExistsBijection, Bijection, Injection, IsInjective
<1> PICK f : f = SetToSeq(S)
  OBVIOUS
<1>3. f \in [1 .. n -> S] /\ IsInjective(f)
  BY Zenon, <1>2 DEF SetToSeq
<1>4. f \in Injection(1 .. n, S)
  BY <1>3 DEF Injection
<1>5. Cardinality(1 .. n) = n
  BY <1>1, FS_Interval
<1>6. f \in Surjection(1 .. n, S)
  BY <1>4, <1>5, FS_Injection
<1>7. f \in Seq(S) /\ DOMAIN f = 1 .. n
  BY <1>1, <1>3
<1>8. {f[i] : i \in 1 .. n} = S
  BY <1>3, <1>6 DEF Surjection
<1> QED BY <1>7, <1>8

Kept(list) == {n \in {toLower(list[i]) : i \in DOMAIN list} : ~isEmpty(n)}

(***************************************************************************)
(* The names parseDomainsAnnotation keeps.                                 *)
(***************************************************************************)
LEMMA AnnotationNames ==
  ASSUME NEW L, NEW list \in Seq(AnyName(L)), NEW parsed,
         parsed = parseDomainsAnnotation(list)
  PROVE  parsed \in Seq(Kept(list)) /\ {parsed[i] : i \in DOMAIN parsed} = Kept(list)
<1> DEFINE all == {toLower(list[i]) : i \in DOMAIN list}
           f == [i \in DOMAIN list |-> toLower(list[i])]
<1>1. IsFiniteSet(DOMAIN list)
  <2>1. DOMAIN list = 1 .. Len(list) /\ Len(list) \in Nat
    OBVIOUS
  <2> QED BY <2>1, FS_Interval
<1>2. f \in Surjection(DOMAIN list, all)
  BY DEF Surjection
<1>3. IsFiniteSet(all)
  BY Zenon, <1>1, <1>2, FS_Surjection
<1>4. IsFiniteSet(Kept(list))
  BY <1>3, FS_Subset DEF Kept
<1>5. parsed = SetToSeq(Kept(list))
  BY DEF parseDomainsAnnotation, Kept
<1> QED BY <1>4, <1>5, SetToSeqElements

(***************************************************************************)
(* The list made of an annotation has the annotation's key, whatever the   *)
(* spelling, repetitions and empty names in it: a secret shares its place  *)
(* in the daemon's map, and its entry in the server, with all others of    *)
(* its domain set.                                                         *)
(***************************************************************************)
THEOREM AnnotationKeepsKey ==
  ASSUME NEW L, NEW list \in Seq(AnyName(L))
  PROVE  AsKey(parseDomainsAnnotation(list)) = AsKey(list)
<1> PICK parsed : parsed = parseDomainsAnnotation(list)
  OBVIOUS
<1>1. {parsed[i] : i \in DOMAIN parsed} = Kept(list)
  BY AnnotationNames
<1>2. \A i \in DOMAIN list : list[i] \in AnyName(L)
  OBVIOUS
<1>3. \A i \in DOMAIN list :
        /\ normalizeName(toLower(list[i])) = normalizeName(list[i])
        /\ isEmpty(toLower(list[i])) => isEmpty(normalizeName(list[i]))
  BY Zenon, <1>2, NormalOfLower
<1>4. ASSUME NEW k \in AsKey(parsed) PROVE k \in AsKey(list)
  <2>1. PICK i \in DOMAIN parsed : k = normalizeName(parsed[i])
    BY DEF AsKey
  <2>2. PICK j \in DOMAIN list : parsed[i] = toLower(list[j])
    BY <1>1 DEF Kept
  <2>3. k = normalizeName(list[j]) /\ ~isEmpty(k)
    BY Zenon, <1>3, <2>1, <2>2 DEF AsKey
  <2> QED BY <2>3 DEF AsKey
<1>5. ASSUME NEW k \in AsKey(list) PROVE k \in AsKey(parsed)
  <2>1. PICK j \in DOMAIN list : k = normalizeName(list[j]) /\ ~isEmpty(k)
    BY DEF AsKey
  <2>2. toLower(list[j]) \in Kept(list)
    BY <1>3, <2>1 DEF Kept
  <2>3. PICK i \in DOMAIN parsed : parsed[i] = toLower(list[j])
    BY Zenon, <1>1, <2>2
  <2>4. k = normalizeName(parsed[i])
    BY <1>3, <2>1, <2>3
  <2> QED BY <2>1, <2>4 DEF AsKey
<1> QED BY Zenon, <1>4, <1>5

\* Every secret the Kubernetes updater watches passed areDomainsAllowed.
AskedInv ==
  updater = "k8s" => \A t \in registered : areDomainsAllowed(parseDomainsAnnotation(domains[t]))

(***************************************************************************)
(* Every step keeps AskedInv.                                              *)
(***************************************************************************)
LEMMA AskedStep == AskedInv /\ [Next]_vars => AskedInv'
<1> SUFFICES ASSUME AskedInv, [Next]_vars PROVE AskedInv'
  OBVIOUS
<1> USE DEF fixed, tasks
<1>1. CASE UNCHANGED <<updater, domains, registered>>
  BY Zenon, <1>1 DEF AskedInv
<1>2. CASE k8sRegister
  <2>1. registered' = k8sTasks /\ domains' = domains
    BY <1>2 DEF k8sRegister, register
  <2> QED BY Zenon, <2>1 DEF AskedInv, k8sTasks
<1>3. CASE txcRegister
  BY Zenon, <1>3 DEF txcRegister, AskedInv
<1>4. ASSUME NEW t \in Tasks, deliver(t) \/ handle(t)
      PROVE  UNCHANGED <<updater, domains, registered>>
  BY Zenon, <1>4 DEF deliver, handle, getSecret, updateEnds, updateAgain, settle, finish
<1>5. CASE getAllCertificatesFails \/ FetchTencentCloudFails \/ startCertDXDaemon
           \/ waitDeadline \/ waitDone \/ UNCHANGED vars
  BY <1>1, <1>5 DEF getAllCertificatesFails, FetchTencentCloudFails, startCertDXDaemon,
                    waitDeadline, waitDone, vars
<1> QED BY Zenon, <1>1, <1>2, <1>3, <1>4, <1>5 DEF Next, InvokeCertificateUpdate

(***************************************************************************)
(* The Kubernetes updater never asks a server for what it would refuse: if *)
(* the server's allow-list admits the entries of the updater's             *)
(* configuration, it admits the domains of every secret that is watched,   *)
(* as the annotation spells them.                                          *)
(***************************************************************************)
THEOREM WatchedAreAdmitted ==
  ASSUME NEW L, DomainLists \subseteq Seq(Names(L)), Configured \subseteq Seq(Names(L)),
         NEW allowed \in Seq(Names(L)), \A item \in Configured : AllAllowed(allowed, item)
  PROVE  Spec => [](updater = "k8s" => \A t \in registered : AllAllowed(allowed, domains[t]))
<1>1. Init => AskedInv
  BY DEF Init, AskedInv
<1>2. TypeOK /\ AskedInv =>
        (updater = "k8s" => \A t \in registered : AllAllowed(allowed, domains[t]))
  <2> SUFFICES ASSUME TypeOK, AskedInv, updater = "k8s", NEW t \in registered
               PROVE  AllAllowed(allowed, domains[t])
    OBVIOUS
  <2> PICK list : list = domains[t]
    OBVIOUS
  <2> PICK parsed : parsed = parseDomainsAnnotation(list)
    OBVIOUS
  <2>1. list \in Seq(Names(L)) /\ list \in Seq(AnyName(L))
    <3>1. list \in Seq(Names(L))
      BY DEF TypeOK
    <3>2. \A x \in Names(L) : x \in AnyName(L)
      BY LowerNames
    <3> QED BY <3>1, <3>2
  <2>2. parsed \in Seq(Names(L))
    <3>1. parsed \in Seq(Kept(list))
      BY <2>1, AnnotationNames
    <3>2. \A i \in DOMAIN list : toLower(list[i]) \in Names(L)
      BY <2>1, LowerNames
    <3>3. \A x \in Kept(list) : x \in Names(L)
      BY <3>2 DEF Kept
    <3> QED BY <3>1, <3>3
  <2>3. PICK item \in Configured : AllAllowed(item, parsed)
    BY DEF AskedInv, areDomainsAllowed
  <2>4. AllAllowed(allowed, parsed)
    BY Zenon, <2>2, <2>3, AdmissionComposes
  <2>5. AsKey(parsed) = AsKey(list)
    BY <2>1, AnnotationKeepsKey
  <2> QED BY Zenon, <2>1, <2>2, <2>4, <2>5, SameKeySameAdmission
<1> QED BY <1>1, <1>2, AskedStep, TypeCorrect, PTL DEF Spec
=============================================================================
