------------------------- MODULE ServerProcessProofs -------------------------
(* Proofs about ServerProcess and MtlsFiles, for any set of names. *)
EXTENDS ServerProcess, FiniteSetTheorems, TLAPS

-----------------------------------------------------------------------------
(* The account key *)

\* KeyOnFileIsRegistered, with the places RegisterAccount can be at.
KeyInv ==
  /\ registering \in {None} \cup ({"server", "tool"} \X {"write", "register"})
  /\ KeyOnFileIsRegistered

(***************************************************************************)
(* KeyOnFileIsRegistered: a key is on file without being registered only   *)
(* while RegisterAccount is at work, or after it was killed or could not   *)
(* write the key's file.                                                   *)
(***************************************************************************)
THEOREM FiledKeyIsRegistered == Spec => []KeyOnFileIsRegistered
<1> USE DEF KeyInv, KeyOnFileIsRegistered
<1>1. Init => KeyInv
  BY Zenon DEF Init
<1>2. KeyInv /\ [Next]_vars => KeyInv'
  <2> SUFFICES ASSUME KeyInv, [Next]_vars PROVE KeyInv'
    OBVIOUS
  <2>1. CASE GoogleAccount \/ makeACMEUser
    BY <2>1, ServerAssumption DEF GoogleAccount, makeACMEUser
  <2>2. CASE saveKey
    BY <2>2, ServerAssumption DEF saveKey
  <2>3. CASE register
    BY <2>3 DEF register, onError
  <2>4. CASE main \/ crash
    BY <2>4 DEF main, crash, exit
  <2>5. CASE UNCHANGED account
    BY <2>5 DEF account
  <2> QED
    BY <2>1, <2>2, <2>3, <2>4, <2>5
       DEF Next, vars, RegisterAccount, start, initFails, InitDone, WaitForShutdown, Renewal,
           Handoff, HttpSrv, serveHttps, firstCert, firstWait, firstSnapshot, bind, freshCert,
           rebind, runHTTPServer, SDSSrv, others
<1>3. KeyInv => KeyOnFileIsRegistered
  OBVIOUS
<1> QED BY <1>1, <1>2, <1>3, PTL DEF Spec

-----------------------------------------------------------------------------
(* The serial numbers *)

\* The types; what a task at work knows of the files; that serial numbers stay behind
\* the counter; and SerialsRepeatOnlyIfUnsaved, with room for one more repetition when
\* the counter is a number that was used already.
SerialInv ==
  /\ bundle \in [Names -> {None, Torn} \cup Nat]
  /\ counter \in {None, Torn} \cup Nat /\ unsaved \in Nat
  /\ ca \in {None, Torn, 0} /\ (ca # 0 => Issued = {})
  /\ counter \in Nat => \A n \in Issued : bundle[n] <= counter
  /\ tool.at \in {"ca", "caCounter"} => Issued = {} /\ tool.counter = 0
  /\ tool.at \in {"bundle", "counter"} =>
       tool.name \in Names /\ counter \in Nat /\ tool.counter = counter /\ ca = 0
  /\ tool.at = "bundle" => bundle[tool.name] = None
  /\ tool.at \in {"off", "ca", "caCounter", "bundle", "counter"}
  /\ SerialsRepeatOnlyIfUnsaved
  /\ counter \in Serials /\ tool.at # "counter" =>
       Cardinality(Issued) + 1 <= Cardinality(Serials) + unsaved

(***************************************************************************)
(* There are finitely many certificates, and no more numbers than          *)
(* certificates.                                                           *)
(***************************************************************************)
LEMMA SerialsFinite ==
  ASSUME bundle \in [Names -> {None, Torn} \cup Nat]
  PROVE  /\ IsFiniteSet(Issued) /\ Cardinality(Issued) \in Nat
         /\ IsFiniteSet(Serials) /\ Cardinality(Serials) \in Nat
<1>1. IsFiniteSet(Issued) /\ Cardinality(Issued) \in Nat
  BY MtlsAssumption, FS_Subset, FS_CardinalityType DEF Issued
<1> DEFINE f == [n \in Issued |-> bundle[n]]
<1>2. f \in Surjection(Issued, Serials)
  BY DEF Surjection, Serials
<1>3. IsFiniteSet(Serials)
  BY <1>1, <1>2, FS_Surjection
<1> QED BY <1>1, <1>3, FS_CardinalityType

(***************************************************************************)
(* What leaves room for one more repetition is within the bound.           *)
(***************************************************************************)
LEMMA RoomForOne == \A a, b, c \in Nat : a + 1 <= b + c => a <= b + c
OBVIOUS

(***************************************************************************)
(* A task of certdx_tools keeps SerialInv.                                 *)
(***************************************************************************)
LEMMA SerialStep == SerialInv /\ Tools => SerialInv'
<1> SUFFICES ASSUME SerialInv, Tools PROVE SerialInv'
  OBVIOUS
<1> USE MtlsAssumption
<1>f. /\ IsFiniteSet(Issued) /\ Cardinality(Issued) \in Nat
      /\ IsFiniteSet(Serials) /\ Cardinality(Serials) \in Nat
  BY SerialsFinite DEF SerialInv
<1>1. CASE MakeCA
  <2>1. Issued' = Issued /\ Serials' = Serials
    BY <1>1 DEF MakeCA, Issued, Serials
  <2> QED BY <1>1, <2>1 DEF MakeCA, SerialInv, SerialsRepeatOnlyIfUnsaved, Serials, Task
<1>2. ASSUME NEW n \in Names, makeCert(n) PROVE SerialInv'
  <2>1. Issued' = Issued /\ Serials' = Serials
    BY <1>2 DEF makeCert, Issued, Serials
  <2> QED
    BY <1>2, <2>1 DEF makeCert, loadCA, SerialInv, SerialsRepeatOnlyIfUnsaved, Serials, Task
<1>3. CASE writeBundle /\ tool.at = "ca"
  <2>1. Issued' = Issued /\ Serials' = Serials
    BY <1>3 DEF writeBundle, Issued, Serials
  <2> QED
    BY <1>3, <2>1
       DEF writeBundle, Lost, SerialInv, SerialsRepeatOnlyIfUnsaved, Serials, Task, NoTask
<1>4. CASE writeBundle /\ tool.at = "bundle" /\ tool' = NoTask
  <2>1. Issued' = Issued /\ Serials' = Serials
    BY <1>4 DEF writeBundle, Lost, SerialInv, Issued, Serials, NoTask
  <2>2. /\ bundle' \in [Names -> {None, Torn} \cup Nat]
        /\ \A n \in Issued : bundle'[n] = bundle[n]
        /\ UNCHANGED <<ca, counter, unsaved>>
        /\ tool'.at = "off"
    BY <1>4 DEF writeBundle, Lost, SerialInv, Issued, NoTask
  <2>3. SerialsRepeatOnlyIfUnsaved'
    BY Zenon, <2>1, <2>2 DEF SerialInv, SerialsRepeatOnlyIfUnsaved, Serials
  <2> QED BY <1>4, <2>1, <2>2, <2>3 DEF SerialInv
<1>5. CASE writeBundle /\ tool.at = "bundle" /\ tool' # NoTask
  <2>1. /\ tool.name \in Names /\ counter \in Nat /\ bundle[tool.name] = None
        /\ bundle' = [bundle EXCEPT ![tool.name] = counter]
        /\ tool' = [tool EXCEPT !.at = "counter"]
        /\ UNCHANGED <<ca, counter, unsaved>>
    BY <1>5 DEF writeBundle, SerialInv
  <2>2. tool.name \notin Issued /\ Issued' = Issued \cup {tool.name}
    BY <2>1 DEF Issued, SerialInv
  <2>3. Serials' = Serials \cup {counter}
    BY <2>1, <2>2 DEF Serials, Issued, SerialInv
  <2>4. Cardinality(Issued') = Cardinality(Issued) + 1
    BY Zenon, <1>f, <2>2, FS_AddElement
  <2>5. Cardinality(Serials') =
          IF counter \in Serials THEN Cardinality(Serials) ELSE Cardinality(Serials) + 1
    BY Zenon, <1>f, <2>3, FS_AddElement
  <2>6. SerialsRepeatOnlyIfUnsaved'
    BY <1>5, <1>f, <2>1, <2>4, <2>5
       DEF SerialInv, SerialsRepeatOnlyIfUnsaved, Serials
  <2>7. \A n \in Issued' : bundle'[n] <= counter'
    BY <2>1, <2>2 DEF SerialInv, Issued
  <2>8. tool'.at = "counter" /\ tool'.name = tool.name /\ tool'.counter = tool.counter
    BY <1>5, <2>1
  <2> QED BY <1>5, <2>1, <2>6, <2>7, <2>8 DEF SerialInv
<1>6. CASE saveCounter
  <2>1. Issued' = Issued /\ Serials' = Serials
    BY <1>6 DEF saveCounter, Issued, Serials
  <2>2. CASE tool.at = "caCounter"
    <3>1. Issued = {} /\ Serials = {}
      BY <2>2 DEF SerialInv, Serials
    <3>2. counter' \in {None, Torn} \cup Nat /\ UNCHANGED <<ca, bundle, unsaved>>
      BY <1>6, <2>2 DEF saveCounter, nextSerial, Lost, SerialInv
    <3>3. SerialsRepeatOnlyIfUnsaved'
      BY <2>1, <3>2 DEF SerialInv, SerialsRepeatOnlyIfUnsaved, Serials
    <3>4. tool'.at = "off"
      BY <1>6 DEF saveCounter, NoTask
    <3> QED BY <2>1, <3>1, <3>2, <3>3, <3>4 DEF SerialInv
  <2>3. CASE tool.at = "counter" /\ counter' = nextSerial /\ unsaved' = unsaved
    <3>1. /\ counter \in Nat /\ counter' = counter + 1
          /\ UNCHANGED <<ca, bundle, unsaved>> /\ tool'.at = "off"
      BY <1>6, <2>3 DEF saveCounter, nextSerial, SerialInv, NoTask
    <3>2. \A n \in Issued : bundle[n] \in Nat /\ bundle[n] <= counter
      BY <3>1 DEF SerialInv, Issued
    <3>3. counter' \notin Serials' /\ \A n \in Issued' : bundle'[n] <= counter'
      BY <2>1, <3>1, <3>2 DEF Serials
    <3>4. SerialsRepeatOnlyIfUnsaved'
      BY <2>1, <3>1 DEF SerialInv, SerialsRepeatOnlyIfUnsaved, Serials
    <3> QED BY <2>1, <3>1, <3>3, <3>4 DEF SerialInv
  <2>4. CASE tool.at = "counter" /\ counter' \in Lost(counter) /\ unsaved' = unsaved + 1
    <3>1. /\ counter' \in {counter, Torn} /\ UNCHANGED <<ca, bundle>>
          /\ unsaved' = unsaved + 1 /\ tool'.at = "off"
      BY <1>6, <2>4 DEF saveCounter, Lost, NoTask
    <3>2. Cardinality(Issued') + 1 <= Cardinality(Serials') + unsaved'
      BY <1>f, <2>1, <3>1 DEF SerialInv, SerialsRepeatOnlyIfUnsaved, Serials
    <3>3. unsaved' \in Nat /\ Cardinality(Issued') \in Nat /\ Cardinality(Serials') \in Nat
      BY <1>f, <2>1, <3>1 DEF SerialInv
    <3>4. SerialsRepeatOnlyIfUnsaved'
      BY Zenon, <3>2, <3>3, RoomForOne DEF SerialsRepeatOnlyIfUnsaved
    <3> QED BY <2>1, <3>1, <3>2, <3>4 DEF SerialInv
  <2> QED BY <1>6, <2>2, <2>3, <2>4 DEF saveCounter
<1> QED BY <1>1, <1>2, <1>3, <1>4, <1>5, <1>6 DEF Tools, writeBundle

(***************************************************************************)
(* Only the tasks of certdx_tools write to the mtls directory.             *)
(***************************************************************************)
LEMMA OnlyToolsWrite == [Next]_vars => Tools \/ UNCHANGED mtlsVars
BY DEF Next, vars, GoogleAccount, RegisterAccount, saveKey, register, start, makeACMEUser,
       initFails, InitDone, WaitForShutdown, main, crash, exit, Renewal, Handoff, HttpSrv,
       serveHttps, firstCert, firstWait, firstSnapshot, bind, freshCert, rebind,
       runHTTPServer, SDSSrv, others

(***************************************************************************)
(* SerialInv holds of every behaviour.                                     *)
(***************************************************************************)
LEMMA SerialInvariant == Spec => []SerialInv
<1>1. Init => SerialInv
  <2> SUFFICES ASSUME Init PROVE SerialInv
    OBVIOUS
  <2>1. Issued = {} /\ Serials = {}
    BY DEF Init, MtlsInit, Issued, Serials
  <2> QED
    BY <2>1, MtlsAssumption, FS_EmptySet
       DEF Init, MtlsInit, NoTask, SerialInv, SerialsRepeatOnlyIfUnsaved, Serials
<1>2. SerialInv /\ UNCHANGED mtlsVars => SerialInv'
  BY DEF mtlsVars, SerialInv, SerialsRepeatOnlyIfUnsaved, Serials, Issued
<1> QED BY <1>1, <1>2, OnlyToolsWrite, SerialStep, PTL DEF Spec

(***************************************************************************)
(* SerialsRepeatOnlyIfUnsaved: repetitions of serial numbers among server  *)
(* and client certificates are no more than the writes of the counter that *)
(* were lost.                                                              *)
(***************************************************************************)
THEOREM SerialNumbers == Spec => []SerialsRepeatOnlyIfUnsaved
<1>1. SerialInv => SerialsRepeatOnlyIfUnsaved
  BY DEF SerialInv
<1> QED BY <1>1, SerialInvariant, PTL

\* A step leaves every complete bundle as it is.
BundlesStay == \A n \in Issued : bundle'[n] = bundle[n]

(***************************************************************************)
(* A complete bundle is never overwritten: neither by a later task for the *)
(* same name nor by a write that fails half way, so the endpoint that      *)
(* loads it keeps its identity.                                            *)
(***************************************************************************)
THEOREM BundlesAreKept == Spec => [][BundlesStay]_vars
<1>1. SerialInv /\ [Next]_vars => [BundlesStay]_vars
  <2> SUFFICES ASSUME SerialInv, [Next]_vars PROVE BundlesStay
    OBVIOUS
  <2>1. CASE UNCHANGED bundle
    BY <2>1 DEF BundlesStay
  <2>2. CASE writeBundle
    BY <2>2, <2>1 DEF writeBundle, SerialInv, Issued, BundlesStay
  <2> QED
    BY <2>1, <2>2, OnlyToolsWrite DEF Tools, MakeCA, makeCert, saveCounter, mtlsVars
<1> QED BY <1>1, SerialInvariant, PTL DEF Spec

\* The counter on file is at most the number of certificates, and less while the task
\* that wrote the last one has not saved it.
CounterInv ==
  /\ counter \in Nat => counter <= Cardinality(Issued)
  /\ tool.at = "counter" => counter + 1 <= Cardinality(Issued)

(***************************************************************************)
(* A task of certdx_tools keeps the counter behind the certificates.       *)
(***************************************************************************)
LEMMA CounterStep == SerialInv /\ CounterInv /\ Tools => CounterInv'
<1> SUFFICES ASSUME SerialInv, CounterInv, Tools PROVE CounterInv'
  OBVIOUS
<1> USE MtlsAssumption
<1>f. IsFiniteSet(Issued) /\ Cardinality(Issued) \in Nat
  BY SerialsFinite DEF SerialInv
<1>1. CASE MakeCA \/ \E n \in Names : makeCert(n)
  <2>1. Issued' = Issued /\ tool'.at # "counter" /\ UNCHANGED counter
    BY <1>1 DEF MakeCA, makeCert, Issued, Task
  <2> QED BY <2>1 DEF CounterInv
<1>2. CASE writeBundle /\ tool.at = "ca"
  <2>1. Issued' = Issued /\ tool'.at # "counter" /\ UNCHANGED counter
    BY <1>2 DEF writeBundle, Issued, Task, NoTask
  <2> QED BY <2>1 DEF CounterInv
<1>3. CASE writeBundle /\ tool.at = "bundle" /\ tool' = NoTask
  <2>1. Issued' = Issued /\ tool'.at # "counter" /\ UNCHANGED counter
    BY <1>3 DEF writeBundle, Lost, SerialInv, Issued, NoTask
  <2> QED BY <2>1 DEF CounterInv
<1>4. CASE writeBundle /\ tool.at = "bundle" /\ tool' # NoTask
  <2>1. /\ tool.name \in Names /\ counter \in Nat /\ bundle[tool.name] = None
        /\ bundle' = [bundle EXCEPT ![tool.name] = counter]
        /\ UNCHANGED counter
    BY <1>4 DEF writeBundle, SerialInv
  <2>2. tool.name \notin Issued /\ Issued' = Issued \cup {tool.name}
    BY <2>1 DEF Issued, SerialInv
  <2>3. Cardinality(Issued') = Cardinality(Issued) + 1
    BY Zenon, <1>f, <2>2, FS_AddElement
  <2> QED BY <1>f, <2>1, <2>3 DEF CounterInv
<1>5. CASE saveCounter
  <2>1. Issued' = Issued /\ tool'.at # "counter"
    BY <1>5 DEF saveCounter, Issued, NoTask
  <2>2. counter' \in {counter, Torn} \/ (tool.at = "caCounter" /\ counter' = tool.counter)
          \/ (tool.at = "counter" /\ counter' = tool.counter + 1)
    BY <1>5 DEF saveCounter, nextSerial, Lost
  <2>3. CASE tool.at = "caCounter" /\ counter' = tool.counter
    BY <1>f, <2>1, <2>3 DEF CounterInv, SerialInv
  <2>4. CASE tool.at = "counter" /\ counter' = tool.counter + 1
    BY Zenon, <1>f, <2>1, <2>4 DEF CounterInv, SerialInv
  <2> QED BY <2>1, <2>2, <2>3, <2>4 DEF CounterInv
<1> QED BY <1>1, <1>2, <1>3, <1>4, <1>5 DEF Tools, writeBundle

(***************************************************************************)
(* CounterInv holds of every behaviour.                                    *)
(***************************************************************************)
LEMMA CounterInvariant == Spec => []CounterInv
<1>1. Init => CounterInv
  BY MtlsAssumption DEF Init, MtlsInit, NoTask, CounterInv
<1>2. CounterInv /\ UNCHANGED mtlsVars => CounterInv'
  BY DEF mtlsVars, CounterInv, Issued
<1> QED BY <1>1, <1>2, CounterStep, OnlyToolsWrite, SerialInvariant, PTL DEF Spec

\* Once there is a server or client certificate, one of them has the CA's own number.
FirstRepeatsCA == Issued # {} => ca \in Serials

(***************************************************************************)
(* MakeCA signs the CA with number 0 and saves 0 as the next number, so    *)
(* that the first certificate always repeats the number of the CA, with no *)
(* write lost: the comment on counter, "incremented after every successful *)
(* signing" (src/pkg/tools/cert.go:29-31), is not true of MakeCA.          *)
(***************************************************************************)
THEOREM FirstBundleRepeatsCA == Spec => []FirstRepeatsCA
<1>1. Init => FirstRepeatsCA
  BY DEF Init, MtlsInit, Issued, FirstRepeatsCA
<1>2. SerialInv /\ CounterInv /\ FirstRepeatsCA /\ Tools => FirstRepeatsCA'
  <2> SUFFICES ASSUME SerialInv, CounterInv, FirstRepeatsCA, Tools PROVE FirstRepeatsCA'
    OBVIOUS
  <2> USE MtlsAssumption
  <2>1. CASE UNCHANGED <<ca, bundle>>
    BY Zenon, <2>1 DEF FirstRepeatsCA, Issued, Serials
  <2>2. CASE writeBundle /\ tool.at = "ca"
    BY <2>2 DEF writeBundle, SerialInv, FirstRepeatsCA, Issued
  <2>3. CASE writeBundle /\ tool.at = "bundle" /\ tool' = NoTask
    <3>1. Issued' = Issued /\ Serials' = Serials /\ UNCHANGED ca
      BY <2>3 DEF writeBundle, Lost, SerialInv, Issued, Serials, NoTask
    <3> QED BY Zenon, <3>1 DEF FirstRepeatsCA
  <2>4. CASE writeBundle /\ tool.at = "bundle" /\ tool' # NoTask
    <3>1. /\ tool.name \in Names /\ counter \in Nat /\ ca = 0 /\ UNCHANGED ca
          /\ bundle' = [bundle EXCEPT ![tool.name] = counter]
          /\ bundle[tool.name] = None
      BY <2>4 DEF writeBundle, SerialInv
    <3>2. Serials' = Serials \cup {counter}
      BY <3>1 DEF Serials, Issued, SerialInv
    <3>3. CASE Issued = {}
      BY <3>1, <3>2, <3>3, FS_EmptySet DEF CounterInv, FirstRepeatsCA
    <3>4. CASE Issued # {}
      BY <3>1, <3>2, <3>4 DEF FirstRepeatsCA
    <3> QED BY <3>3, <3>4
  <2> QED
    BY <2>1, <2>2, <2>3, <2>4 DEF Tools, MakeCA, makeCert, saveCounter, writeBundle
<1>3. FirstRepeatsCA /\ UNCHANGED mtlsVars => FirstRepeatsCA'
  <2> SUFFICES ASSUME FirstRepeatsCA, UNCHANGED mtlsVars PROVE FirstRepeatsCA'
    OBVIOUS
  <2>1. ca' = ca /\ bundle' = bundle
    BY DEF mtlsVars
  <2>2. Issued' = Issued /\ Serials' = Serials
    BY Zenon, <2>1 DEF Issued, Serials
  <2> QED BY Zenon, <2>1, <2>2 DEF FirstRepeatsCA
<1> QED
  BY <1>1, <1>2, <1>3, OnlyToolsWrite, SerialInvariant, CounterInvariant, PTL DEF Spec

-----------------------------------------------------------------------------
(* The endpoints *)

\* No certificate has a higher version than its number.
CellInv ==
  /\ cert \in 0 .. MaxCert /\ version \in 0 .. MaxCert /\ handing \in 0 .. MaxCert
  /\ version <= cert

(***************************************************************************)
(* Every step keeps the certificate's version within its number.           *)
(***************************************************************************)
LEMMA CellStep == CellInv /\ [Next]_vars => CellInv'
<1> SUFFICES ASSUME CellInv, [Next]_vars PROVE CellInv'
  OBVIOUS
<1>0. MaxCert \in Nat
  BY ServerAssumption
<1> USE DEF CellInv
<1>1. CASE Renewal
  <2>1. \/ UNCHANGED <<cert, version, handing>>
        \/ cert' = cert + 1 /\ version' = version + 1 /\ handing' = cert + 1
    BY Zenon, <1>1 DEF Renewal, Cell!Expire, Cell!Renew
  <2>2. cert < MaxCert
    BY Zenon, <1>1 DEF Renewal
  <2> QED BY <1>0, <2>1, <2>2
<1>2. CASE Handoff
  <2>1. UNCHANGED <<cert, version>> /\ handing' = 0
    BY Zenon, <1>2 DEF Handoff, Cell!Settle
  <2> QED BY <1>0, <2>1
<1>3. CASE InitDone
  <2>1. cert' \in {0, cert} /\ version' = 0 /\ handing' = 0
    BY Zenon, <1>3 DEF InitDone
  <2> QED BY <1>0, <2>1
<1>4. CASE UNCHANGED cell
  BY <1>4 DEF cell
<1> QED
  BY <1>1, <1>2, <1>3, <1>4
     DEF Next, vars, GoogleAccount, RegisterAccount, saveKey, register, start, makeACMEUser,
         initFails, WaitForShutdown, main, crash, exit, HttpSrv, serveHttps, firstCert,
         firstWait, firstSnapshot, bind, freshCert, rebind, runHTTPServer, SDSSrv, others

(***************************************************************************)
(* Every step of the process, of certdx_tools and of the ACME server keeps *)
(* the types.                                                              *)
(***************************************************************************)
LEMMA TypeStep ==
  TypeOK /\ SerialInv /\ CounterInv /\ CellInv /\ [Next]_vars => TypeOK'
<1> SUFFICES ASSUME TypeOK, SerialInv, CounterInv, CellInv, [Next]_vars PROVE TypeOK'
  OBVIOUS
<1>c. CellInv'
  BY CellStep
<1>m. MtlsTypeOK'
  <2>0. Cardinality(Names) \in Nat /\ Cardinality(Issued) \in Nat
          /\ Cardinality(Issued) <= Cardinality(Names)
    BY MtlsAssumption, FS_CardinalityType, FS_Subset DEF Issued
  <2> USE MtlsAssumption DEF TypeOK, MtlsTypeOK
  <2>1. CASE MakeCA \/ \E n \in Names : makeCert(n)
    <3>1. tool' = Task("ca", None, 0) \/ \E n \in Names : loadCA /\ tool' = Task("bundle", n, counter)
      BY <2>1 DEF MakeCA, makeCert
    <3>2. /\ tool'.at \in {"ca", "bundle"} /\ tool'.name \in Names \cup {None}
          /\ tool'.counter \in 0 .. Cardinality(Names)
      BY <2>0, <3>1 DEF Task, loadCA
    <3> QED BY <2>1, <3>2 DEF MakeCA, makeCert
  <2>2. CASE writeBundle /\ tool.at = "ca"
    <3>1. ca' \in {None, Torn, 0}
      BY <2>2 DEF writeBundle, Lost, SerialInv
    <3> QED BY <2>0, <2>2, <3>1 DEF writeBundle, Task, NoTask
  <2>3. CASE writeBundle /\ tool.at = "bundle"
    <3>1. bundle' \in [Names -> {None, Torn} \cup 0 .. Cardinality(Names)]
      BY <2>3 DEF writeBundle, Lost, SerialInv
    <3>2. /\ tool'.at \in {"off", "counter"} /\ tool'.name \in Names \cup {None}
          /\ tool'.counter \in 0 .. Cardinality(Names)
      <4>1. tool' = NoTask \/ tool' = [tool EXCEPT !.at = "counter"]
        BY Zenon, <2>3 DEF writeBundle
      <4>2. [tool EXCEPT !.at = "counter"].name = tool.name
            /\ [tool EXCEPT !.at = "counter"].counter = tool.counter
            /\ [tool EXCEPT !.at = "counter"].at = "counter"
        OBVIOUS
      <4>3. CASE tool' = NoTask
        BY <2>0, <4>3 DEF NoTask
      <4>4. CASE tool' = [tool EXCEPT !.at = "counter"]
        BY Zenon, <4>2, <4>4
      <4> QED BY Zenon, <4>1, <4>3, <4>4
    <3> QED BY <2>3, <3>1, <3>2 DEF writeBundle
  <2>4. CASE saveCounter
    <3>1. counter' \in {None, Torn} \cup 0 .. Cardinality(Names)
      BY <2>0, <2>4 DEF saveCounter, nextSerial, Lost, SerialInv, CounterInv
    <3>2. unsaved' \in 0 .. MaxUnsaved
      BY <2>4 DEF saveCounter
    <3> QED BY <2>0, <2>4, <3>1, <3>2 DEF saveCounter, NoTask
  <2>5. CASE UNCHANGED mtlsVars
    BY <2>5 DEF mtlsVars
  <2> QED BY <2>1, <2>2, <2>3, <2>4, <2>5, OnlyToolsWrite DEF Tools, writeBundle
<1>0. 0 \in 0 .. MaxCert
  BY ServerAssumption
<1> USE DEF account, https, others
<1>b. /\ grpc' \in BOOLEAN /\ mock' \in BOOLEAN /\ interrupted' \in BOOLEAN /\ stopped' \in BOOLEAN
      /\ valid' \in BOOLEAN /\ iterDone' \in BOOLEAN
  <2> USE DEF TypeOK
  <2>1. CASE UNCHANGED <<grpc, mock, interrupted, stopped, valid, iterDone>>
    BY Zenon, <2>1
  <2>2. CASE saveKey \/ WaitForShutdown
    BY Zenon, <2>2 DEF saveKey, WaitForShutdown, cell
  <2>6. CASE InitDone
    BY Zenon, <2>6 DEF InitDone
  <2>3. CASE main \/ crash
    BY Zenon, <2>3 DEF main, crash, exit, cell
  <2>4. CASE Renewal
    BY Zenon, <2>4 DEF Renewal, Cell!Expire, Cell!Renew
  <2>5. CASE HttpSrv \/ bind \/ freshCert \/ runHTTPServer \/ SDSSrv
    BY Zenon, <2>5 DEF HttpSrv, httpFails, bind, freshCert, runHTTPServer, SDSSrv, cell
  <2> QED
    BY Zenon, <2>1, <2>2, <2>3, <2>4, <2>5, <2>6
       DEF Next, vars, cell, GoogleAccount, RegisterAccount, register, start, makeACMEUser,
           initFails, Handoff, Cell!Settle, serveHttps, firstCert, firstWait, firstSnapshot,
           rebind
<1>k. /\ auth' \in {"off", "https", "http", "mtls"} /\ proc' \in {"down", "init", "up"}
      /\ keyFile' \in {None, Torn, "new", "registered"}
      /\ registering' \in {None} \cup ({"server", "tool"} \X {"write", "register"})
  <2> USE DEF TypeOK
  <2>1. CASE UNCHANGED <<auth, proc, keyFile, registering>>
    BY Zenon, <2>1
  <2>2. CASE GoogleAccount \/ makeACMEUser
    <3>1. <<"tool", "write">> \in {"server", "tool"} \X {"write", "register"}
          /\ <<"server", "write">> \in {"server", "tool"} \X {"write", "register"}
      OBVIOUS
    <3> QED BY Zenon, <2>2, <3>1 DEF GoogleAccount, makeACMEUser
  <2>3. CASE saveKey
    <3>1. registering # None
      BY Zenon, <2>3 DEF saveKey
    <3>2. registering[1] \in {"server", "tool"}
      BY <3>1
    <3>3. <<registering[1], "register">> \in {"server", "tool"} \X {"write", "register"}
      BY <3>2
    <3> QED BY Zenon, <2>3, <3>3 DEF saveKey, Lost
  <2>4. CASE register
    BY Zenon, <2>4 DEF register, onError
  <2>5. CASE start \/ initFails \/ InitDone
    BY Zenon, <2>5 DEF start, initFails, InitDone
  <2>6. CASE main \/ crash
    BY Zenon, <2>6 DEF main, crash, exit
  <2> QED
    BY Zenon, <2>1, <2>2, <2>3, <2>4, <2>5, <2>6
       DEF Next, vars, RegisterAccount, WaitForShutdown, Renewal, Handoff, HttpSrv, serveHttps,
           firstCert, firstWait, firstSnapshot, bind, freshCert, rebind, runHTTPServer, SDSSrv
<1>h. /\ http' \in {"off", "start", "check", "wait", "snapshot", "loop", "listen",
                    "rebind", "returned"}
      /\ mine' \in 0 .. MaxCert /\ seen' \in 0 .. MaxCert
      /\ sds' \in {"off", "start", "listen", "returned"}
  <2> USE <1>0 DEF TypeOK
  <2>1. CASE UNCHANGED <<http, mine, seen, sds>>
    BY Zenon, <2>1
  <2>2. CASE InitDone
    BY Zenon, <2>2 DEF InitDone
  <2>3. CASE main \/ crash
    BY Zenon, <2>3 DEF main, crash, exit
  <2>4. CASE HttpSrv
    BY Zenon, <2>4 DEF HttpSrv, Snapshot, httpFails
  <2>5. CASE firstCert \/ firstWait \/ firstSnapshot
    BY Zenon, <2>5 DEF firstCert, firstWait, firstSnapshot, Snapshot
  <2>6. CASE bind \/ freshCert \/ rebind
    BY Zenon, <2>6 DEF bind, freshCert, rebind, Snapshot, httpFails
  <2>7. CASE runHTTPServer
    BY Zenon, <2>7 DEF runHTTPServer, httpFails
  <2>8. CASE SDSSrv
    BY Zenon, <2>8 DEF SDSSrv
  <2> QED
    BY Zenon, <2>1, <2>2, <2>3, <2>4, <2>5, <2>6, <2>7, <2>8
       DEF Next, vars, GoogleAccount, RegisterAccount, saveKey, register, start, makeACMEUser,
           initFails, WaitForShutdown, Renewal, Handoff, serveHttps
<1> QED BY Zenon, <1>c, <1>m, <1>b, <1>k, <1>h DEF TypeOK, CellInv

(***************************************************************************)
(* The process is type correct: in particular no serial number passes the  *)
(* number of names.                                                        *)
(***************************************************************************)
THEOREM TypeCorrect == Spec => []TypeOK
<1>1. Init => TypeOK /\ CellInv
  <2> SUFFICES ASSUME Init PROVE TypeOK /\ CellInv
    OBVIOUS
  <2>1. Cardinality(Names) \in Nat
    BY MtlsAssumption, FS_CardinalityType
  <2>2. MtlsTypeOK
    BY <2>1, MtlsAssumption DEF Init, MtlsInit, NoTask, MtlsTypeOK
  <2>3. cert \in {0, 1} /\ version = 0 /\ handing = 0 /\ valid \in BOOLEAN
    BY Zenon DEF Init, Cell!Init
  <2>4. 0 \in 0 .. MaxCert /\ 1 \in 0 .. MaxCert
    BY ServerAssumption
  <2>5. CellInv
    BY <2>3, <2>4 DEF CellInv
  <2> QED BY Zenon, <2>2, <2>3, <2>4, <2>5 DEF Init, TypeOK, CellInv
<1> QED
  BY <1>1, TypeStep, CellStep, CounterInvariant, SerialInvariant, PTL DEF Spec

\* Where the endpoints stand.  Only a process that is starting registers an account for
\* itself, and an endpoint that returns takes the process down.  For HTTPS: in check, wait
\* and loop, and with a listener whose iterCtx is not done, its snapshot is the cached
\* certificate unless WaitForUpdate is about to tell it of a newer one; in loop, listen
\* and rebind it has a certificate.
HttpsInv ==
  /\ registering # None /\ registering[1] = "server" => proc = "init"
  /\ proc # "up" => http = "off" /\ sds = "off" /\ ~stopped
  /\ proc = "up" => (auth # "off" => http # "off") /\ (grpc => sds # "off")
  /\ http = "returned" \/ sds = "returned" => stopped
  /\ auth # "https" => http \in {"off", "start", "listen", "returned"} /\ ~iterDone
  /\ auth = "https" /\ http \notin {"off", "start"} => mine <= cert /\ seen <= version
  /\ auth = "https" /\ http \in {"loop", "listen", "rebind"} => mine # 0
  /\ auth = "https" /\ seen = version =>
       (http \in {"check", "wait", "loop"} \/ (http = "listen" /\ ~iterDone) => mine = cert)

(***************************************************************************)
(* Every step keeps the endpoints where HttpsInv puts them.                *)
(***************************************************************************)
LEMMA HttpsStep == TypeOK /\ CellInv /\ HttpsInv /\ [Next]_vars => HttpsInv'
<1> SUFFICES ASSUME TypeOK, CellInv, HttpsInv, [Next]_vars PROVE HttpsInv'
  OBVIOUS
<1>0. /\ cert \in Nat /\ version \in Nat /\ mine \in Nat /\ seen \in Nat /\ version <= cert
      /\ stopped \in BOOLEAN /\ iterDone \in BOOLEAN /\ grpc \in BOOLEAN
  BY DEF TypeOK, CellInv
<1> USE DEF HttpsInv, account, https, others, cell
<1>1. CASE UNCHANGED <<auth, grpc, proc, registering, stopped, cert, version, https, sds>>
  BY <1>1
<1>2. CASE GoogleAccount \/ makeACMEUser
  BY <1>2 DEF GoogleAccount, makeACMEUser
<1>3. CASE saveKey
  BY <1>3 DEF saveKey
<1>4. CASE register
  BY <1>4 DEF register
<1>5. CASE start \/ initFails
  BY <1>5 DEF start, initFails
<1>6. CASE WaitForShutdown
  BY <1>6 DEF WaitForShutdown
<1>7. CASE InitDone
  BY <1>7, <1>0 DEF InitDone
<1>8. CASE main
  BY <1>8 DEF main, exit
<1>9. CASE crash
  BY <1>9 DEF crash, exit
<1>10. CASE Renewal
  <2>1. \/ UNCHANGED <<cert, version>>
        \/ cert' = cert + 1 /\ version' = version + 1
    BY Zenon, <1>10 DEF Renewal, Cell!Expire, Cell!Renew
  <2>2. UNCHANGED <<auth, grpc, proc, registering, stopped, http, mine, seen, iterDone, sds>>
    BY Zenon, <1>10 DEF Renewal
  <2> QED BY <1>0, <2>1, <2>2
<1>11. CASE HttpSrv
  BY <1>0, <1>11 DEF HttpSrv, Snapshot, httpFails
<1>12. CASE firstCert
  BY <1>0, <1>12 DEF firstCert
<1>13. CASE firstWait \/ firstSnapshot
  BY <1>0, <1>13 DEF firstWait, firstSnapshot, Snapshot
<1>14. CASE bind
  BY <1>0, <1>14 DEF bind, httpFails
<1>15. CASE freshCert \/ rebind
  BY <1>0, <1>15 DEF freshCert, rebind, Snapshot
<1>16. CASE runHTTPServer
  BY <1>0, <1>16 DEF runHTTPServer, httpFails
<1>17. CASE SDSSrv
  BY <1>0, <1>17 DEF SDSSrv
<1> QED
  BY Zenon, <1>1, <1>2, <1>3, <1>4, <1>5, <1>6, <1>7, <1>8, <1>9, <1>10, <1>11, <1>12,
     <1>13, <1>14, <1>15, <1>16, <1>17
     DEF Next, vars, RegisterAccount, serveHttps, Handoff, Cell!Settle

(***************************************************************************)
(* HttpsInv holds of every behaviour.                                      *)
(***************************************************************************)
LEMMA HttpsInvariant == Spec => []HttpsInv
<1>1. Init => CellInv /\ HttpsInv
  <2> SUFFICES ASSUME Init PROVE CellInv /\ HttpsInv
    OBVIOUS
  <2>1. cert \in {0, 1} /\ version = 0 /\ handing = 0
    BY Zenon DEF Init, Cell!Init
  <2>2. CellInv
    BY <2>1, ServerAssumption DEF CellInv
  <2>3. HttpsInv
    BY DEF Init, HttpsInv
  <2> QED BY <2>2, <2>3
<1> QED BY <1>1, CellStep, HttpsStep, TypeCorrect, PTL DEF Spec

\* A listening HTTPS endpoint has a certificate, and it is the cached one unless the
\* listener is about to be rebound: a renewal is waiting for WaitForUpdate to see it, or
\* iterCtx is done.
ListenerIsFresh ==
  auth = "https" /\ http = "listen" =>
    mine # 0 /\ (mine = cert \/ version # seen \/ iterDone)

(***************************************************************************)
(* The HTTPS endpoint misses no renewal: not one that comes between its    *)
(* snapshot and its wait, nor between the wait and the next snapshot, when *)
(* it may see the certificate of a version it has not counted yet.  The    *)
(* safety half of ServesWhileUp.                                           *)
(***************************************************************************)
THEOREM NoRenewalMissed == Spec => []ListenerIsFresh
<1>1. TypeOK /\ HttpsInv => ListenerIsFresh
  BY DEF TypeOK, HttpsInv, ListenerIsFresh
<1> QED BY <1>1, HttpsInvariant, TypeCorrect, PTL

\* Until the process is told to stop, no endpoint it was configured with is gone.
EndpointsStand ==
  proc = "up" /\ ~stopped =>
    /\ auth # "off" => http \notin {"off", "returned"}
    /\ grpc => sds \notin {"off", "returned"}

(***************************************************************************)
(* A process that has not been told to stop runs every endpoint it was     *)
(* configured with: one that fails tells it to stop, so that the process   *)
(* never goes on with part of its endpoints.                               *)
(***************************************************************************)
THEOREM FailedEndpointStops == Spec => []EndpointsStand
<1>1. TypeOK /\ HttpsInv => EndpointsStand
  BY DEF TypeOK, HttpsInv, EndpointsStand
<1> QED BY <1>1, HttpsInvariant, TypeCorrect, PTL
=============================================================================
