------------------------------ MODULE MtlsFiles ------------------------------
(***************************************************************************)
(* The files of the mtls directory and the tasks of certdx_tools that      *)
(* write them: make-ca, make-server and make-client.  Each task is a       *)
(* process of its own that keeps nothing but the files; one runs at a      *)
(* time.  A write may fail or its process be killed, which leaves the file *)
(* as it was or, os.WriteFile having truncated it, useless.                *)
(***************************************************************************)
EXTENDS Naturals, FiniteSets

CONSTANTS
  Names,       \* names of server and client certificates ("ca" is refused)
  MaxUnsaved,  \* bound on the lost writes of the counter
  None, Torn   \* no file, and a file whose write did not come to its end

ASSUME MtlsAssumption ==
  /\ IsFiniteSet(Names) /\ None \notin Names
  /\ MaxUnsaved \in Nat
  /\ None \notin Nat /\ Torn \notin Nat /\ None # Torn

VARIABLES
  ca,       \* ca.pem: None, Torn or the serial number of the CA's own certificate
  counter,  \* counter.txt: None, Torn or a serial number
  bundle,   \* each name's .pem: None, Torn or the serial number of its certificate
  tool,     \* the task: what it writes next, for which name, and its counter
  unsaved   \* certificates written whose task did not save the counter (history)

mtlsVars == <<ca, counter, bundle, tool, unsaved>>

NoTask == [at |-> "off", name |-> None, counter |-> 0]
Task(at, name, c) == [at |-> at, name |-> name, counter |-> c]

MtlsTypeOK ==
  /\ ca \in {None, Torn, 0}
  /\ counter \in {None, Torn} \cup 0 .. Cardinality(Names)
  /\ bundle \in [Names -> {None, Torn} \cup 0 .. Cardinality(Names)]
  /\ tool.at \in {"off", "ca", "caCounter", "bundle", "counter"}
  /\ tool.name \in Names \cup {None}
  /\ tool.counter \in 0 .. Cardinality(Names)
  /\ unsaved \in 0 .. MaxUnsaved

MtlsInit ==
  /\ ca = None /\ counter = None /\ bundle = [n \in Names |-> None]
  /\ tool = NoTask /\ unsaved = 0

\* writeBundle fails, or its process is killed.
Lost(old) == {old, Torn}

\* The CA bundle must not be there yet.  The CA signs itself with number 0.
MakeCA ==
  /\ tool.at = "off" /\ ca = None
  /\ tool' = Task("ca", None, 0)
  /\ UNCHANGED <<ca, counter, bundle, unsaved>>

\* loadCA reads the CA and the serial number.
loadCA == ca \notin {None, Torn} /\ counter \notin {None, Torn}

\* Slip: an existing bundle is overwritten.
makeCert_Overwrites(n) ==
  /\ tool.at = "off"
  /\ loadCA
  /\ tool' = Task("bundle", n, counter)
  /\ UNCHANGED <<ca, counter, bundle, unsaved>>

\* MakeServerCert and MakeClientCert: the bundle must not be there yet.
makeCert(n) ==
  /\ tool.at = "off"
  /\ bundle[n] = None
  /\ loadCA
  /\ tool' = Task("bundle", n, counter)
  /\ UNCHANGED <<ca, counter, bundle, unsaved>>

writeBundle ==
  /\ \/ /\ tool.at = "ca"
        /\ \/ ca' = tool.counter /\ tool' = Task("caCounter", None, 0)
           \/ ca' \in Lost(ca) /\ tool' = NoTask
        /\ UNCHANGED bundle
     \/ /\ tool.at = "bundle"
        /\ \/ /\ bundle' = [bundle EXCEPT ![tool.name] = tool.counter]
              /\ tool' = [tool EXCEPT !.at = "counter"]
           \/ /\ \E b \in Lost(bundle[tool.name]) :
                   bundle' = [bundle EXCEPT ![tool.name] = b]
              /\ tool' = NoTask
        /\ UNCHANGED ca
  /\ UNCHANGED <<counter, unsaved>>

\* Slip: the counter is not incremented.
nextSerial_Same == tool.counter

\* makeCert increments the counter.  MakeCA writes that of a fresh process, 0, and does
\* not count the number it has just signed the CA with.
nextSerial == IF tool.at = "caCounter" THEN tool.counter ELSE tool.counter + 1

saveCounter ==
  /\ tool.at \in {"caCounter", "counter"}
  /\ \/ counter' = nextSerial /\ UNCHANGED unsaved
     \/ /\ counter' \in Lost(counter)
        /\ \/ tool.at = "caCounter" /\ UNCHANGED unsaved
           \/ tool.at = "counter" /\ unsaved < MaxUnsaved /\ unsaved' = unsaved + 1
  /\ tool' = NoTask
  /\ UNCHANGED <<ca, bundle>>

Tools == MakeCA \/ (\E n \in Names : makeCert(n)) \/ writeBundle \/ saveCounter

-----------------------------------------------------------------------------

Issued == {n \in Names : bundle[n] \notin {None, Torn}}
Serials == {bundle[n] : n \in Issued}

\* Two server or client certificates have one serial number only when the task that
\* wrote the first failed to save the counter, and each such failure repeats one serial
\* number at most.  The CA's own number is out of its scope: see FirstRepeatsCA.
SerialsRepeatOnlyIfUnsaved ==
  Cardinality(Issued) <= Cardinality(Serials) + unsaved
=============================================================================
