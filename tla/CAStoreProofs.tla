---------------------------- MODULE CAStoreProofs ----------------------------
(***************************************************************************)
(* Proofs about CAStore, for any number of processes, of hosts and of CAs  *)
(* ever created.                                                           *)
(***************************************************************************)
EXTENDS CAStore, TLAPS

Saving == {"create", "truncatecert", "writecert", "truncatekey", "writekey"}
Holding == {"truncatecert", "writecert", "truncatekey", "writekey", "up"}

-----------------------------------------------------------------------------
(* Types.                                                                  *)

\* A process past createCA, or past a successful loadCA, has a CA.
HasCA ==
  \A p \in Process :
    pc[p] \in Holding => caCert[p] \in 1 .. MaxCA /\ caKey[p] \in 1 .. MaxCA

TypeInv == TypeOK /\ HasCA

\* It holds before any process has started (ca.go:38-66).
LEMMA TypeInit == Init => TypeInv
<1> SUFFICES ASSUME Init PROVE TypeInv
  OBVIOUS
<1>1. misread \in BOOLEAN
  BY Zenon DEF Init
<1> QED
  BY <1>1, BoundAssumption
  DEF Init, TypeInv, TypeOK, HasCA, Holding, Content, Absent, Torn, Label

\* Every step of loadCA, createCA and saveCA (ca.go:38-178) keeps it.
LEMMA TypeStep == TypeInv /\ [Next]_vars => TypeInv'
<1> SUFFICES ASSUME TypeInv, [Next]_vars PROVE TypeInv'
  OBVIOUS
<1> USE BoundAssumption, DaemonAssumption DEF TypeInv, TypeOK, HasCA, Holding, Content, Absent, Torn,
      Label, files, memory, goto
<1>1. CASE StartSandbox
  BY <1>1 DEF StartSandbox
<1>2. ASSUME NEW p \in Process, Start(p) PROVE TypeInv'
  BY <1>2 DEF Start
<1>3. ASSUME NEW p \in Process, LoadCert(p) PROVE TypeInv'
  BY <1>3 DEF LoadCert
<1>4. ASSUME NEW p \in Process, LoadKey(p) PROVE TypeInv'
  BY <1>4 DEF LoadKey, loads
<1>5. ASSUME NEW p \in Process, ReadFails(p) PROVE TypeInv'
  BY <1>5 DEF ReadFails
<1>6. ASSUME NEW p \in Process, CreateCA(p) PROVE TypeInv'
  BY <1>6 DEF CreateCA
<1>7. ASSUME NEW p \in Process, TruncateCert(p) PROVE TypeInv'
  BY <1>7 DEF TruncateCert
<1>8. ASSUME NEW p \in Process, TruncateKey(p) PROVE TypeInv'
  BY <1>8 DEF TruncateKey
<1>9. ASSUME NEW p \in Process, WriteCert(p) PROVE TypeInv'
  BY <1>9 DEF WriteCert
<1>10. ASSUME NEW p \in Process, WriteKey(p) PROVE TypeInv'
  BY <1>10 DEF WriteKey
<1>11. ASSUME NEW p \in Process, Dies(p) PROVE TypeInv'
  BY <1>11 DEF Dies
<1>12. ASSUME NEW p \in Process, NEW h \in Host, GenerateCert(p, h) PROVE TypeInv'
  BY <1>12 DEF GenerateCert
<1>13. CASE UNCHANGED vars
  BY <1>13 DEF vars
<1> QED
  BY <1>1, <1>2, <1>3, <1>4, <1>6, <1>7, <1>8, <1>11, <1>12, <1>13, <1>9, <1>10, <1>5
  DEF Next

\* The state keeps its type, also when processes start at the same time
\* (ca.go:24-36).
THEOREM CATypeCorrect == Spec => []TypeOK
<1>1. TypeInv => TypeOK
  BY DEF TypeInv
<1> QED BY <1>1, TypeInit, TypeStep, PTL DEF Spec

-----------------------------------------------------------------------------
(* The two files.  Until a read of a whole pair fails they are only saved  *)
(* before there is a key, so a key on disk belongs to the certificate next *)
(* to it; while there is none no process is up and no sandbox has been     *)
(* given a certificate.                                                    *)

OneStarting == \A p, q \in Process : p \in starting /\ q \in starting => p = q

\* Once there is a key the files stay as they are.
KeyLast ==
  /\ keyFile > Torn => certFile = keyFile /\ \A p \in Process : pc[p] \notin Saving
  /\ ~(keyFile > Torn) => trusted = {} /\ \A p \in Process : pc[p] # "up"

\* What a process has in memory, against the files.
MemoryFits ==
  \A p \in Process :
    /\ pc[p] = "loadkey" => caCert[p] = certFile
    /\ pc[p] \in {"truncatecert", "writecert"} => caCert[p] = caKey[p]
    /\ pc[p] \in {"truncatekey", "writekey", "up"} => caCert[p] = certFile /\ caKey[p] = certFile
    /\ \A h \in Host : certCache[p][h] # Torn => pc[p] = "up" /\ certCache[p][h] = certFile

TrustFits == trusted \subseteq {certFile}

StoreInv == OneStarting /\ (~misread => KeyLast /\ MemoryFits /\ TrustFits)

\* With one process starting at a time, every step keeps it: loadCA fails while
\* there is no key or because of a read that makes misread true (ca.go:86-119),
\* saveCA writes the key last (ca.go:173-178).
LEMMA StoreStep == ~Overlap /\ TypeInv /\ StoreInv /\ [Next]_vars => StoreInv'
<1> SUFFICES ASSUME ~Overlap, TypeInv, StoreInv, [Next]_vars PROVE StoreInv'
  OBVIOUS
<1> USE BoundAssumption, DaemonAssumption
    DEF StoreInv, OneStarting, KeyLast, MemoryFits, TrustFits, starting, Saving, TypeInv, TypeOK,
        Content, Absent, Torn, files, memory, goto
<1>1. CASE StartSandbox
  BY <1>1 DEF StartSandbox
<1>2. ASSUME NEW p \in Process, Start(p) PROVE StoreInv'
  BY <1>2 DEF Start
<1>3. ASSUME NEW p \in Process, LoadCert(p) PROVE StoreInv'
  BY <1>3 DEF LoadCert
<1>4. ASSUME NEW p \in Process, LoadKey(p) PROVE StoreInv'
  BY <1>4 DEF LoadKey, loads
<1>5. ASSUME NEW p \in Process, ReadFails(p) PROVE StoreInv'
  BY <1>5 DEF ReadFails, loads
<1>6. ASSUME NEW p \in Process, CreateCA(p) PROVE StoreInv'
  BY <1>6 DEF CreateCA
<1>7. ASSUME NEW p \in Process, TruncateCert(p) PROVE StoreInv'
  BY <1>7 DEF TruncateCert
<1>8. ASSUME NEW p \in Process, WriteCert(p) PROVE StoreInv'
  BY <1>8 DEF WriteCert
<1>9. ASSUME NEW p \in Process, TruncateKey(p) PROVE StoreInv'
  BY <1>9 DEF TruncateKey
<1>10. ASSUME NEW p \in Process, WriteKey(p) PROVE StoreInv'
  BY <1>10 DEF WriteKey, HasCA, Holding
<1>11. ASSUME NEW p \in Process, Dies(p) PROVE StoreInv'
  BY <1>11 DEF Dies
<1>12. ASSUME NEW p \in Process, NEW h \in Host, GenerateCert(p, h) PROVE StoreInv'
  BY <1>12 DEF GenerateCert
<1>13. CASE UNCHANGED vars
  BY <1>13 DEF vars
<1> QED
  BY <1>1, <1>2, <1>3, <1>4, <1>6, <1>7, <1>8, <1>9, <1>10, <1>11, <1>12, <1>13, <1>5 DEF Next

\* Without overlapping starts it holds at every step.
LEMMA StoreInvariant == ~Overlap => (Spec => []StoreInv)
<1> SUFFICES ASSUME ~Overlap PROVE Spec => []StoreInv
  OBVIOUS
<1>1. Init => StoreInv
  BY DEF Init, Absent, Torn, StoreInv, OneStarting, KeyLast, MemoryFits, TrustFits, starting, Saving
<1>2. TypeInv /\ StoreInv /\ [Next]_vars => (TypeInv /\ StoreInv)'
  BY TypeStep, StoreStep
<1> QED BY <1>1, <1>2, TypeInit, PTL DEF Spec

\* When processes start one at a time, and until a read of a whole pair fails, a
\* certificate and a key that both decode go together, wherever in saveCA
\* (ca.go:173-178) processes have died.
THEOREM CAPairFits == ~Overlap => (Spec => []PairFits)
<1>1. StoreInv => PairFits
  BY DEF StoreInv, KeyLast, PairFits, loads
<1> QED BY <1>1, StoreInvariant, PTL

\* Under the same hypotheses every process that is up signs for the one CA that
\* sandboxes were given (ca.go:68-77, daemon.go:858-861).
THEOREM CALeafTrusted == ~Overlap => (Spec => []LeafTrusted)
<1>1. StoreInv => LeafTrusted
  BY DEF StoreInv, MemoryFits, TrustFits, LeafTrusted
<1> QED BY <1>1, StoreInvariant, PTL

\* When processes start one at a time and there is a key, neither file is changed
\* before a read of a whole pair has failed: of all the ways a start can go wrong,
\* deaths in saveCA included, only a read error of loadCA (ca.go:87-94) makes
\* NewCACertManager replace the CA (ca.go:68-77).
THEOREM CAKeyIsFinal == ~Overlap => (Spec => KeyIsFinal)
<1> SUFFICES ASSUME ~Overlap PROVE Spec => KeyIsFinal
  OBVIOUS
<1>1. StoreInv /\ [Next]_vars => [keyFile > Torn /\ ~misread => UNCHANGED files]_vars
  <2> SUFFICES ASSUME StoreInv, Next, keyFile > Torn, ~misread PROVE UNCHANGED files
    BY DEF vars, files
  <2>1. \A p \in Process : ~(TruncateCert(p) \/ WriteCert(p) \/ TruncateKey(p) \/ WriteKey(p))
    BY DEF StoreInv, KeyLast, Saving, TruncateCert, WriteCert, TruncateKey, WriteKey
  <2> QED
    BY <2>1 DEF Next, StartSandbox, Start, LoadCert, LoadKey, ReadFails, CreateCA, Dies,
             GenerateCert, files, memory
<1> QED BY <1>1, StoreInvariant, PTL DEF Spec, KeyIsFinal
=============================================================================
