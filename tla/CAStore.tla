------------------------------- MODULE CAStore -------------------------------
(***************************************************************************)
(* internal/ca: the certificate authority in a directory that the daemon   *)
(* and the sidecars use.  Certificate and key are two files, written one   *)
(* after the other; a process may die at any point.  A CA is a number, the *)
(* same for a certificate and the key that goes with it.                   *)
(***************************************************************************)
EXTENDS Integers, FiniteSets

CONSTANTS Process,   \* the daemon and the sidecars
          Daemon,
          Host,
          MaxCA,     \* bound: the CAs ever created
          Overlap    \* whether processes may start at the same time

ASSUME DaemonAssumption == Daemon \in Process
ASSUME BoundAssumption == MaxCA \in Nat
ASSUME OverlapAssumption == Overlap \in BOOLEAN

\* A file that is not there, and one that does not decode.
Absent == -1
Torn == 0
Content == Absent .. MaxCA

VARIABLES certFile, keyFile,
          pc,        \* where each process is in NewCACertManager; "up" after it
          caCert, caKey,
          certCache, \* the CA that signed each process's cached leaf; Torn if none
          created,   \* the CAs created so far
          trusted,   \* the CAs that sandboxes were given
          misread    \* history: a read has failed although both files were whole

files == <<certFile, keyFile>>
memory == <<caCert, caKey, certCache>>
vars == <<files, pc, memory, created, trusted, misread>>

Label == {"down", "loadcert", "loadkey", "create", "truncatecert", "writecert",
          "truncatekey", "writekey", "up"}

TypeOK ==
  /\ certFile \in Content /\ keyFile \in Content
  /\ pc \in [Process -> Label]
  /\ caCert \in [Process -> Content] /\ caKey \in [Process -> Content]
  /\ certCache \in [Process -> [Host -> 0 .. MaxCA]]
  /\ created \in 0 .. MaxCA
  /\ trusted \subseteq 1 .. MaxCA
  /\ misread \in BOOLEAN

Init ==
  /\ certFile = Absent /\ keyFile = Absent
  /\ pc = [p \in Process |-> "down"]
  /\ caCert = [p \in Process |-> Absent] /\ caKey = [p \in Process |-> Absent]
  /\ certCache = [p \in Process |-> [h \in Host |-> Torn]]
  /\ created = 0
  /\ trusted = {}
  /\ misread = FALSE

-----------------------------------------------------------------------------
(* NewCACertManager.                                                       *)

goto(p, l) == pc' = [pc EXCEPT ![p] = l]

starting == {p \in Process : pc[p] \notin {"down", "up"}}

Start(p) ==
  /\ pc[p] = "down"
  /\ Overlap \/ starting = {}
  /\ goto(p, "loadcert")
  /\ UNCHANGED <<files, memory, created, trusted, misread>>

\* Mutant: the error of the read is dropped, and the manager used without a CA.
LoadCert_NoError(p) ==
  /\ pc[p] = "loadcert"
  /\ caCert' = [caCert EXCEPT ![p] = certFile]
  /\ goto(p, IF certFile = Absent THEN "up" ELSE "loadkey")
  /\ UNCHANGED <<files, caKey, certCache, created, trusted, misread>>

LoadCert(p) ==
  /\ pc[p] = "loadcert"
  /\ caCert' = [caCert EXCEPT ![p] = certFile]
  /\ goto(p, IF certFile = Absent THEN "create" ELSE "loadkey")
  /\ UNCHANGED <<files, caKey, certCache, created, trusted, misread>>

\* Both files decode; that they go together is not checked.
loads(cert, key) == cert > Torn /\ key > Torn

LoadKey(p) ==
  /\ pc[p] = "loadkey"
  /\ caKey' = [caKey EXCEPT ![p] = keyFile]
  /\ goto(p, IF loads(caCert[p], keyFile) THEN "up" ELSE "create")
  /\ UNCHANGED <<files, caCert, certCache, created, trusted, misread>>

\* os.ReadFile fails, for whatever reason and whatever the file holds.
ReadFails(p) ==
  /\ pc[p] \in {"loadcert", "loadkey"}
  /\ goto(p, "create")
  /\ misread' = (misread \/ loads(certFile, keyFile))
  /\ UNCHANGED <<files, memory, created, trusted>>

\* Mutant: only the key is saved.
CreateCA_KeyOnly(p) ==
  /\ pc[p] = "create"
  /\ created < MaxCA
  /\ created' = created + 1
  /\ caCert' = [caCert EXCEPT ![p] = created + 1]
  /\ caKey' = [caKey EXCEPT ![p] = created + 1]
  /\ goto(p, "truncatekey")
  /\ UNCHANGED <<files, certCache, trusted, misread>>

\* createCA, after any error of loadCA.
CreateCA(p) ==
  /\ pc[p] = "create"
  /\ created < MaxCA
  /\ created' = created + 1
  /\ caCert' = [caCert EXCEPT ![p] = created + 1]
  /\ caKey' = [caKey EXCEPT ![p] = created + 1]
  /\ goto(p, "truncatecert")
  /\ UNCHANGED <<files, certCache, trusted, misread>>

\* Mutant: a certificate that is there already is not written again.
TruncateCert_Keeps(p) ==
  /\ pc[p] = "truncatecert"
  /\ certFile' = IF certFile > Torn THEN certFile ELSE Torn
  /\ goto(p, IF certFile > Torn THEN "truncatekey" ELSE "writecert")
  /\ UNCHANGED <<keyFile, memory, created, trusted, misread>>

\* saveCA: os.WriteFile truncates and then writes, for each file.
TruncateCert(p) ==
  /\ pc[p] = "truncatecert"
  /\ certFile' = Torn
  /\ goto(p, "writecert")
  /\ UNCHANGED <<keyFile, memory, created, trusted, misread>>

\* Mutant: the process goes on before the key is saved.
WriteCert_NoKey(p) ==
  /\ pc[p] = "writecert"
  /\ certFile' = caCert[p]
  /\ goto(p, "up")
  /\ UNCHANGED <<keyFile, memory, created, trusted, misread>>

WriteCert(p) ==
  /\ pc[p] = "writecert"
  /\ certFile' = caCert[p]
  /\ goto(p, "truncatekey")
  /\ UNCHANGED <<keyFile, memory, created, trusted, misread>>

TruncateKey(p) ==
  /\ pc[p] = "truncatekey"
  /\ keyFile' = Torn
  /\ goto(p, "writekey")
  /\ UNCHANGED <<certFile, memory, created, trusted, misread>>

WriteKey(p) ==
  /\ pc[p] = "writekey"
  /\ keyFile' = caKey[p]
  /\ goto(p, "up")
  /\ UNCHANGED <<certFile, memory, created, trusted, misread>>

\* The process dies, or a write fails and ends it.
Dies(p) ==
  /\ pc[p] # "down"
  /\ goto(p, "down")
  /\ caCert' = [caCert EXCEPT ![p] = Absent]
  /\ caKey' = [caKey EXCEPT ![p] = Absent]
  /\ certCache' = [certCache EXCEPT ![p] = [h \in Host |-> Torn]]
  /\ UNCHANGED <<files, created, trusted, misread>>

-----------------------------------------------------------------------------
(* The use of the CA.                                                      *)

\* getCert for a host that is not in the cache.  x509.CreateCertificate refuses a
\* key that is not the certificate's.
GenerateCert(p, h) ==
  /\ pc[p] = "up"
  /\ certCache[p][h] = Torn
  /\ caCert[p] = caKey[p]
  /\ certCache' = [certCache EXCEPT ![p][h] = caCert[p]]
  /\ UNCHANGED <<files, pc, caCert, caKey, created, trusted, misread>>

\* createAndStartContainer passes the daemon's certificate to the sandbox.
StartSandbox ==
  /\ pc[Daemon] = "up"
  /\ trusted' = trusted \cup {caCert[Daemon]}
  /\ UNCHANGED <<files, pc, memory, created, misread>>

Next ==
  \/ StartSandbox
  \/ \E p \in Process :
       \/ Start(p) \/ LoadCert(p) \/ LoadKey(p) \/ ReadFails(p) \/ CreateCA(p)
       \/ TruncateCert(p) \/ WriteCert(p) \/ TruncateKey(p) \/ WriteKey(p) \/ Dies(p)
       \/ \E h \in Host : GenerateCert(p, h)

Spec == Init /\ [][Next]_vars

-----------------------------------------------------------------------------
(* Properties.                                                             *)

\* A failed read of a whole pair makes NewCACertManager replace the CA, and a
\* process that dies while doing so can leave the new certificate beside the old
\* key.  Nothing else does: the properties say what holds until such a read.

\* Wherever processes have died while saving and whichever reads of absent or
\* torn files have failed, a certificate and a key that both decode go together:
\* loadCA (ca.go:86-119) does not check it.
PairFits == ~misread /\ loads(certFile, keyFile) => certFile = keyFile

\* Every process that is up, in whichever order and however often daemon and
\* sidecars have been started and have died before, can sign for the CA that the
\* sandboxes were given (ca.go:68-77, daemon.go:858-861).
LeafTrusted ==
  ~misread =>
    \A p \in Process :
      pc[p] = "up" =>
        /\ caCert[p] = caKey[p]
        /\ \A h \in Host : certCache[p][h] \in {Torn, caCert[p]}
        /\ trusted \subseteq {caCert[p]}

\* Once there is a key, only a failed read of a whole pair makes a process replace
\* the CA; no death of a process while saving it does (ca.go:68-77, 86-94).
KeyIsFinal == [][keyFile > Torn /\ ~misread => UNCHANGED files]_vars
=============================================================================
