# dandbox in TLA+

A verification project for dandbox: TLA+ modules that model the program's
control, TLC configurations that check them on small instances, and proofs that
TLAPS checks for every size. The code is in `src/`; line numbers below refer to
the commit this project was written for. `PROJECT.json` maps every definition
to the lines it stands for.

    tlc -config MCProxy.cfg MCProxy           # check one run
    tlapm ProxyProofs.tla                     # check one proof module

## The system

Two programs. The **daemon** (`cmd/dandbox`) serves an HTTP API on a Unix socket
and drives Docker; a **proxy sidecar** (`cmd/proxy-sidecar`) per sandbox
intercepts the sandbox's traffic, asks a policy and puts secrets in.

| part | state | operations | works with | what is hard | what makes it correct |
|---|---|---|---|---|---|
| policy engine (`policy.go`) | ordered rules, identifier counter, `rules.json` (written, never read) | `NewEngine`, `LoadRules`, `AddRule`, `RemoveRule`, `Evaluate`, `ListRules`; all under one lock | owned by the daemon; another copy in each sidecar, fed by the first | exact and wildcard rules mixed; identifiers after `LoadRules`; scopes | identifiers unique; the decision follows the stated priority, not the order; scopes isolate |
| proxy (`proxy.go`, `socks5.go`, `rawtcp.go`) | listener, toggles, limit, atomic counters, `blockedHosts`, one goroutine per connection | `Start`, `Stop`, setters, `dispatch` and the HTTP, CONNECT, SOCKS5 and raw TCP handlers | policy, secrets, CA, peers | add-then-compare limit; many ways out; settings changed in flight; an unlocked map | slots balanced, limit kept, nothing upstream without an allow, sockets closed |
| daemon, lifecycle (`daemon.go` 280-545, 795-892) | map of sandboxes under `d.mu`, objects outside it, `sandboxes.json` | create, delete, start, stop, list; save, load, shutdown | container manager | check-then-act across unlocks; Docker calls between lookup and write-back; unlocked save; crash | one container per sandbox, nothing left behind, answers survive a restart |
| daemon, policy and secrets (`daemon.go` 547-762, 894-990) | its engine and secret list | apply, profile, delete, set secrets; propagate to sidecars by `docker exec` | sidecars | snapshot and delivery are separate steps; failures are logged only | a sidecar that has answered has the daemon's list; one sidecar's failure does not affect another |
| sidecar process (`proxy-sidecar/main.go`) | proxy, engine, secrets | `/policy/reload`, `/secrets/reload`, SIGHUP | daemon | empty payloads; restart in the middle of a delivery | a reload is applied whole |
| container manager (`container.go`) | none (Docker's) | network, image, create, start, stop, remove, inspect, list, logs, wait | Docker Engine | partial failure, lost answers, check-then-create of the network | errors leave a state that a delete can clean up |
| secrets (`secrets.go`) | secret list | set, get, replace, redact | proxy | sentinels and values that overlap, empty ones | a sentinel becomes its value; no value is left in a redacted header |
| CA (`ca.go`) | key pair on disk, certificate cache | load, create, `getCert` | proxy, daemon | two files written one after the other, by whichever process starts first | certificate and key fit; every process signs for the CA that sandboxes trust |
| `docker`, `cmdutil`, `cmd/dandbox`, `.containifyci` | none | path probes, exec, flags, build | | | |

## Modules

| module | models | built on |
|---|---|---|
| `PolicyMatch` | pattern matching and `Evaluate`, as operators | |
| `PolicyEngine` | the engine's state and its four mutating calls; properties of identifiers and decisions | `PolicyMatch` |
| `PolicyEngineProofs` | theorems about identifiers | `PolicyEngine` |
| `PolicyDecisionProofs` | theorems about `Evaluate` | `PolicyEngineProofs` |
| `Proxy` | accept loop, dispatch and handlers, one program counter per connection | |
| `ProxyProofs` | theorems | `Proxy` |
| `Runtime` | the `/runtime` handlers, the state file, Docker as environment, crash and restart | |
| `RuntimeProofs` | theorems | `Runtime` |
| `Tunnel` | `tunnelBidirectional`, the inside of `Proxy`'s step `TunnelEnds` | |
| `TunnelProofs` | theorems | `Tunnel` |
| `Secrets` | replacement and redaction, as operators | |
| `SecretsProofs` | theorems about them, for any list and any text | `Secrets` |
| `Replica` | abstract: values that a daemon has had, and the copies that sidecars hold | |
| `Propagation` | the policy and secrets handlers, delivery, both reload endpoints, restarts; shown to implement `Replica` twice | `Secrets`, `Replica` |
| `PropagationProofs` | theorems | `Propagation`, `SecretsProofs` |
| `CAStore` | the CA's two files, the processes that load or create them, the certificate cache | |
| `CAStoreProofs` | theorems | `CAStore` |
| `MCPolicyEngine`, `MCProxy`, `MCTunnel`, `MCRuntime`, `MCPropagation`, `MCCAStore` | the instances TLC checks | |

Mutants (definitions named `X_Something`, each just before the `X` it distorts)
are plausible bugs; each property is known to fail for one of them.

### PolicyMatch and PolicyEngine

A host name is a sequence of labels, so "suffix that starts at a dot" is a strict
suffix of labels. Case is kept, because the code folds it in one comparison and
not in the other. A pattern is a record with the form in which `matchHostPort`
reads it. `rule-n` is the number n; other identifiers, as those of the two
default rules, are negative. A rule's resources are a set: the code only asks
whether one of them matches and whether one is free of `*`. `scanRules` is the
loop over the rules (a recursive function of the number of rules taken), `decide` the chain of tests after it.

Each call holds `pe.mu` throughout and is one action. `save` may fail and every
caller drops the error; nobody reads the file, so only whether it agrees is kept.

### Proxy

`pc[c]` is where the goroutine of connection `c` stands. A step reaches from one
access to shared state to the next; what clients and servers send and every I/O
error is a choice. `policy` is the set of destinations the sidecar's engine
allows at the moment; `ReloadPolicy` replaces it, as `/policy/reload` does, at any
time. `PolicyEngine` says how that set comes about. A write to `blockedHosts` is
the label `blocking`; two goroutines there at once may end the process
(`ConcurrentMapWrites`). A socket that no goroutine refers to any more is closed
when the Go runtime finalizes it (`Finalize`, external). The two copying
goroutines of a tunnel are one step here, and the module `Tunnel`. Which address
is dialled is not kept: it is the one the policy was asked about, except that
`handleRawTCP` dials 127.0.0.1 in place of an address of its own host, after the
check (`rawtcp.go:133-139`).

### Tunnel

What happens between the dial and the return of a SOCKS5 or raw TCP handler. Each
goroutine reads a chunk, writes it, and ends by a half-close of the server's
socket ("up") or a close of the client's ("down"), on which the other may be
waiting. The peers send, shut down, reset, stop reading and read again as they
like. A write to a peer that does not read waits without a deadline, as in the
code, which sets deadlines on reads only.

For raw TCP, `getOriginalDst` has called `File` and `Fd` on the client's connection
(`rawtcp.go:67-73`), which switch the socket, shared with the copy, to blocking mode.
A read of it that finds nothing stays in the kernel (`ReadBlocks`, label `kernel`);
there no deadline reaches it (`ReadExpires` is for the other sockets only), nor does
`Close`, which waits until it comes back: `CloseClient` begins the close and
`ClientClosed` ends it. A raw TCP client that is silent and stays connected therefore
holds the handler for ever, with or without an idle timeout and whether or not the
server has ended, and gets no FIN. `ServerEndsTunnel` and `TimeoutEndsTunnel` hold for
SOCKS5 as one would expect, and for raw TCP once the client has ended.

`ReturnsAsProxyExpects` is the link to
`Proxy`: the sockets are then as `TunnelEnds` has them.

### Runtime

`sandboxes[n]` points to an object (`Gen`), whose fields `ContainerID` and
`Running` are read and written outside the lock, as in the code. `list` is the
only handler that keeps `d.mu` over Docker calls, hence the variable `mutex`; all
other locked sections are one step. `start` goes through lookup, check,
network, image, create, start, two assignments, write-back and save. `saveState`
is three steps: marshal, truncate, write; the file is absent, empty, complete or
garbled, the last when a shorter text is written over a longer one. `Crash` loses
everything but the file and Docker; `Restart` is `NewDaemon` with `loadState`. `Stop`
saves (`StopSaved`) and then waits up to five seconds for the requests in progress,
which go on until they end or `Exit` cuts them off; that the listener is closed in
this time is left out, so the model also lets new requests arrive.

Docker is external, modelled from how `container.go` uses it: names are unique
among existing containers, identifiers are never reused, a removed container
cannot be started, a second network of one name is refused. A create or a start
whose answer is lost may have happened all the same. Nothing in the daemon starts
a sidecar, although it removes them; `SidecarStarts` stands for whoever does. The
secrets that start sets and pushes are in `Propagation`.

Sandbox `x` has the container `sbx-x` and the sidecar `sbx-x-proxy`, in one name space,
and names are not validated. The constant `proxyName` says which sandbox is called
like which other with `-proxy` appended. If `y` is `x-proxy`, a delete of `x` removes
`y`'s container for `x`'s sidecar (`DeleteSidecar`), a delete of `y` without a recorded
ID removes `x`'s sidecar (`DeleteInspect`), and neither can be created while the other
one's exists. `RemovedByName` says that no other confusion happens.

The history variable `answered` records which create or delete the client last
saw answered; `doubt` has the names of which a delete failed at Docker or was cut
off by the daemon's death, and those whose container the delete of another removed.

### Propagation, Replica and Secrets

`past[k]` is the sequence of lists the daemon has had, of rules and of secrets,
the last being the current one; `copy[k][n]` what the sidecar of sandbox `n` has in
memory. A handler changes the list (each call of the engine is a step, as each
takes the lock by itself), takes a snapshot, collects the running sandboxes, and
posts to their sidecars one after the other, in any order, since Go iterates over
the map. A start sets the sandbox running and only after its save looks whether there
are secrets to push (`ContainerStarted`, `PushSecrets`). Finding the sidecar's container and the `docker exec` may fail; the
failure is logged and the loop goes on. A sidecar starts with the default rules
and no secrets, the daemon too. `reached` records for each sidecar whether the
last change is pending, answered, or missed for a reason of that sidecar's own.

`Replica` says what this amounts to: a sidecar holds a whole list that the daemon
had, and with `Ordered` deliveries never an older one than before unless it
restarts. `RulesReplicated` and `SecretsReplicated` are its specification under the
mapping of `past`, `copy` and `pos`, for each kind of data.

In `Secrets` a text is a sequence of tokens; sentinels, values and the replacement
`[REDACTED]` are runs of tokens, so that they can overlap, contain one another or,
the first two, be empty. `rewrite` is the scan from the left that `ReplaceAll` does;
the loops over the secrets are recursive functions of the number of secrets done.
Two texts are `apart` if neither occurs in the other nor goes on where the other
ends. The reference definition `Substituted` replaces all sentinels at once, and is
compared with the code's one-after-the-other for `Unambiguous` lists: sentinels
apart from each other and from every value put in before they are looked for. That
leaves an empty value to the last secret only. It has to: with the sentinels `D`
for the empty value and then `AB`, the text `ADB` becomes `AB` and then the second
value, although nobody wrote that sentinel.

### CAStore

A CA is a number, shared by a certificate and its key. A file is absent, torn, or
holds one CA's half. A process loads certificate and key, or creates and saves
them: truncate and write, for each file; it may die at any point. A read may fail
whatever the file holds (`ReadFails`), and a CA is then created as if there were none;
`misread` records that this has happened to a whole pair. Afterwards the process
signs leaves, which it caches. The daemon hands its certificate to each sandbox it
starts (`trusted`).

## Runs

| run | instance | shows |
|---|---|---|
| `policy` | 3 rules, identifiers up to 3, 4 resource lists, 4 hosts, 3 ports, 2 sandboxes, 3 loadable lists | identifiers stay unique and below the counter, removal is exact; decisions follow the priority in any order, the reported rule decided, tightening never opens, scopes isolate |
| `proxy` | 2 connections, 1 destination, limits {0, 1}, fair | counter, limit, decision and sockets on every path, settings changing; dispatch always settles, slots come back |
| `tunnel` | both handlers, with and without a timeout, 2 chunks each way, fair | nothing is cut off without a reason; the handler returns after the server has ended, or after both sides are idle, with the sockets as `Proxy` has them; for raw TCP only if the client has ended as well |
| `runtime` | 1 request at a time, 2 sandboxes, one named like the other's sidecar, 3 containers; every Docker call may fail, crashes between any two steps except inside the write | answered creates and deletes survive; the file lists the sandboxes; containers are removed by their own name or as the sidecar of that name only; nothing is left behind except by names in `doubt` |
| `runtime_live` | 2 requests at a time, no container can be created, creates and saves fail, fair | every request is answered, also those that race for the lock and the network |
| `propagation` | 1 request at a time, 2 sidecars, 4 rules, 4 lists, 3 lists of secrets, 6 texts; calls fail, daemon and sidecars restart | implements `Replica`; a sidecar that has answered is current; none is forgotten for another's sake; replacement and redaction do what the daemon's list says |
| `castore` | the daemon and two sidecars started one after the other, 4 CAs; reads fail | until a read of a whole pair fails: certificate and key fit; all processes sign for the CA the sandboxes were given; files that hold a key are never replaced |

Runs that must fail, each a statement of the repository the code does not meet:

| run | statement | what happens |
|---|---|---|
| `policy_specific` | `policy.go:105` "more specific beats less specific" | a rule with one exact resource counts as exact when its wildcard matches |
| `runtime_duplicate` | `daemon_test.go:190` a duplicate create is refused | two concurrent ones succeed |
| `runtime_delete` | `daemon.go:423` "container + proxy sidecar + network cleaned up" | a start that was looked up before the delete creates the container after the delete has looked and was answered; cut off by a shutdown, it leaves the container without an entry |
| `runtime_lost_save` | `daemon_test.go:724` an answered create is in the file | an older snapshot is written last, or over the newer one |
| `propagation_order` | `daemon.go:964` "sends the daemon's current secrets" | of two concurrent changes the older snapshot is delivered last and stays |

Other disagreements need no run, since they show in a single call or connection:

- `**.example.com` does not match `example.com` (`policy.go:230` keeps the leading
  dot; the comment at 228 says it matches).
- Connections that SOCKS5 and raw TCP refuse by policy are not counted as denied
  (`socks5.go:96`, against `universal-proxy.md:1033` and `proxy-sidecar/main.go:185`).
- The gauge of active connections stays 0 while no limit is set (`proxy.go:245`,
  against `universal-proxy.md:1034`); for plain HTTP the slot is given back on
  return, before the connection is closed (`proxy.go:253`, against
  `universal-proxy.md:1010`).
- When the idle timeout fires, one direction ends and one side is half-closed
  (`rawtcp.go:174`), where `universal-proxy.md:1002` says "Both the upstream and
  downstream connections are closed when the timeout fires"; on the client's side of
  a raw TCP tunnel it does not fire at all (`rawtcp.go:73`).
- Deleting all rules sends an empty list, which the sidecar answers and ignores
  (`main.go:211`); the daemon logs that policy was reset to defaults
  (`daemon.go:673`) and has no rules. `AckedIsCurrent` makes this one exception.
- The profile `deny-all` is commented "clear rules and add deny" (`daemon.go:641`)
  and does not clear.
- Starting a sandbox replaces the global secrets by its own (`daemon.go:459`) before
  the push that the comment at 492-494 says includes those of `POST /secrets`.
- A sidecar's rules are said to be "sent by daemon at container start"
  (`main.go:68`); nothing in the daemon sends them then.
- `GetContainerLogs` takes the size of every frame from the first one's header
  (`container.go:454`, against the comment at 447); the 24 hours of
  `WaitForContainerExit` (`container.go:379`) are cut short by the client's own
  timeout of 120 seconds. Neither has a caller outside the tests.
- A cached certificate is used after the day it is valid for (`ca.go:204`).

### Bounds

Rules interact through four classes (exact or wildcard, allow or deny), of which
three rules cover every pair against a third; each form of pattern occurs in the
instance. Two connections meet every pair of handler steps and race for a limit of
one; that the limit holds for any number is proved. A race in the daemon
needs two requests, and one name suffices where they must collide; the objects
are as many as the requests, which is all the map and the requests can point to.
`CID` bounds how many containers are ever created, so that a sandbox can be
started, deleted, and started again, or two sandboxes and one of them again.
`runtime` has one request at a time; that races cannot give a sandbox two
containers (`OneContainer`) is proved for any number and not checked by a run. The
limits of `proxy` are none and one; a change from one positive limit to another is
covered by the proof of `AdmittedWithinLimit` only. Counters of the proxy are bounded by the
connections, each of which is used once.

Two chunks each way let one be in a goroutine's hands while another waits.
`MaxLists` counts the changes of rules and secrets together: four lists are both
initial ones and two changes, enough for a change that misses a sidecar and one
that reaches it, or a restart with its new lists; `MaxRule` = 4 leaves two rules to
add to the defaults. `MaxCA` = 4 allows three failed attempts to save a CA. The
texts and lists of secrets of `MCPropagation` have adjacent, repeated, cut-off and
empty sentinels, values inside one another and values that share a token with
`[REDACTED]`; what they show is proved for all lists and texts.

Deadlock is checked for PolicyEngine only: in the other modules connections,
containers, chunks, lists or CAs are used up, which is the bound and not the
program.

### Fairness

`proxy`: a goroutine's own steps are weakly fair, because the Go scheduler
runs it and the peek and the dial carry deadlines of 5 and 10 seconds. Steps that
wait for the client or a server are not fair: the code has no deadline there, and
`SlotReturned` is therefore stated only for handlers past their last wait.
`runtime_live`: a request's steps are strongly fair, because Docker calls end
within the 120 seconds of the HTTP client and `sync.Mutex` starves no waiter.
`tunnel`: the goroutines' steps and the read timeout are weakly fair; nothing is
assumed of the peers, and that they read in the end (`<>[](stalled = {})`) is a
hypothesis of the two properties, because writes have no deadline. That a raw TCP
client ends the connection is a hypothesis too (`ClientEnds`), not a fairness
assumption, because nothing in the code makes it.

### What the runs leave open on purpose

`AnswersHold` and `NoOrphans` fail when the daemon may die between the truncation
and the write of `sandboxes.json` (fault `"torn"`): the restarted daemon knows no
sandbox. They and `SavedNames` fail when the write itself may fail (fault `"save"`),
which the code only logs. `NoOrphans` leaves out names in `doubt`: a delete whose
Docker call fails, which the code only logs, or that dies before its save, leaves
a container without an entry, or a stale ID in the file that the next delete
looks for instead of the container (`daemon.go:387-394`). A sandbox whose container
the delete of its namesake removed is left with a stale ID as well: after a start
that creates a new container and fails before it records it, the next delete looks
for the old one.

`runtime_live` creates no containers, so it covers the handlers' failing ways and
their waiting, not the Docker calls on an existing container.

`AckedIsCurrent` and the `Ordered` half of `Replica` hold for one request at a time
only; `propagation_order` shows why. A `docker exec` that is cut off is taken to
have posted or not; in reality curl may go on in the container and post later.

`RedactionComplete` leaves out values that are not apart from `[REDACTED]`, and such
values do stay: one that occurs in the replacement is in every header that has been
redacted, and one that ends in its beginning or begins with its end may be
completed by it: with the values `]]` and `y`, in this order, the text `y]x` becomes
`[REDACTED]]x`.

`PairFits`, `LeafTrusted` and `KeyIsFinal` hold when processes start one after the other;
with `Overlap = TRUE` two processes that both find no CA write over each other's files.
And they hold until `misread`: `loadCA` returns any error of `os.ReadFile`
(`ca.go:87-94`), and `NewCACertManager` then creates and saves a new CA (69-76). A
single failed read of a whole pair thus replaces the CA that running processes sign
with and sandboxes trust, and a process that dies before it writes the new key leaves
the new certificate beside the old key, which later processes load and cannot sign
with. No document says what a read error should do.

## Proofs

For arbitrary constants, under the named assumptions of the modules. Three groups
of theorems carry a hypothesis (`Sequential`, `Ordered`, `~Overlap`); each says
below why the statement fails without it. Every inductive invariant was checked by
TLC on the instance of the component's run before it was proved.

- **PolicyEngineProofs.** `EngineInv` is `TypeOK`, `UniqueIDs` and `IDsBelowNext`.
  Uniqueness is not inductive alone: `AddRule` keeps it only because identifiers in
  use lie below the counter, and `LoadRules` restores that by taking one more than
  the greatest identifier. That a list has a greatest identifier is proved from the
  well-foundedness of < on the naturals (`LeastNatural`, `PrefixHasGreatest`).
  Assumed: lists given to `LoadRules` have unique identifiers (they come from
  another engine's `ListRules`). Theorems: `EngineTypeCorrect`, `EngineUniqueIDs`,
  `EngineIDsBelowNext`, `RemoveRuleExact`.
- **PolicyDecisionProofs.** What `Evaluate` returns, for lists of any length and any
  patterns. `LoopRuns` shows that the loop's recursive function exists, and
  `LoopSummary` what its flags and remembered rules say of the rules taken so far;
  both are inductions over the number of rules, taken from the least-number
  principle (`Induction`), since the provers cannot instantiate the library's.
  `DecisionIsPriority` then makes the decision a function of which rules match,
  without their order. Theorems: `EngineDecisionFollowsPriority`,
  `EngineReportedRuleDecided`, and for the steps of the engine
  `EngineTighteningNeverOpens` and `EngineScopeIsolation`. `DoubleStarIsStar`: for
  every host name and port `**.h:p` and `*.h:p` match the same, and not `h`, since a
  strict suffix has fewer labels (`SuffixShorter`).
- **ProxyProofs.** The counter: every step leaves the set of counted goroutines and
  the counter alone, adds one to both, or takes one from both (`StepCount`). The
  limit is not inductive as stated: when the connection with the greatest limit
  returns, its limit is no longer a witness. `EveryPartWithinLimit` states it for
  every non-empty part of the admitted connections; the last one admitted bounds
  the parts it belongs to, and other parts are bounded already. `ConnInv` collects
  what a label says of one connection. Theorems: `ProxyTypeCorrect`,
  `ActiveCountCorrect`, `LimitEnforced`, `PolicyEnforced`, `SocketsClosed`.
  Assumed: finitely many connections; limits are naturals.
- **TunnelProofs.** For any number of chunks, both handlers. `ChunksInHand` counts
  what each goroutine has read and not yet written, `SocketsInv` says which
  goroutine closed which half and how far the close of the client's socket is, and `ReasonToEnd` records why a goroutine ended: it
  had passed on everything, or there was a reset or a timeout, or the other
  goroutine's close cut it off. Theorems: `TunnelTypeCorrect`,
  `TunnelAnswerComplete`, `TunnelRequestCut`, `TunnelReturns`.
- **RuntimeProofs.** For any number of requests and any faults: `OneContainer`, since
  only `CreateContainer` makes a container exist, and only under a name not in use;
  `RuntimeTypeCorrect`, from `PlaceOK`, which says for each label what a request has
  in hand and who holds the lock; `ContainersNotMixedUp`, that an ID kept in an
  object, in the file or in a request's hands is of a container created for that very
  sandbox; and from it `RuntimeRemovedByName`: what goes by ID is the sandbox's own,
  and what goes by name has its name or its sidecar's. Under `Sequential` (one request at a time, the file is written whole):
  `RuntimeSavedNames` from `FileInv`, which ties the file and the text about to be
  written to the map at each label; `RuntimeAnswersHold` from `AnswersInv`, which
  adds what the request in progress will have answered; `RuntimeNoOrphans` from
  `OrphanInv`: what Docker holds for a sandbox has an entry in the map and in the
  file unless the sandbox is being deleted or in doubt, a container the daemon knows
  of is there unless the sandbox is in doubt, and each step of a delete has removed what comes before it.
  `Sequential` cannot be dropped:
  `runtime_duplicate`, `runtime_delete` and `runtime_lost_save` are its
  counterexamples for races, and the previous section has those for a torn or a
  failed write.
- **PropagationProofs.** `RulesRefineReplica` and `SecretsRefineReplica`: the
  propagation implements `Replica`, for each kind of data. What a step
  may do to lists and copies is `DataStep` (nothing, a change, a delivery, a restart
  of the daemon or of a sidecar), and each of these is a step or a stutter of each
  replica. That a sidecar never falls back when `Ordered` needs
  `SnapshotFresh`: with one request at a time its snapshot is the current list.
  `PropagationForgetsNone`, for any number of requests, from `Served`: a sidecar
  whose last change is pending has a request that will still come to it. With
  `Ordered` also `PropagationAckedIsCurrent`, from `AckedSynced`; `propagation_order`
  is the counterexample without. And `PropagationTypeCorrect`. What a sidecar does
  with the secrets it has got follows from these and the next module:
  `PropagationRedactionComplete`, and with `Ordered` `PropagationSentinels`.
- **SecretsProofs.** For lists and texts of any length, over any tokens. Positions
  are what the proofs count: `Meet` says that two texts that are `apart` disagree
  wherever they are laid over each other. A run (`IsRun`) is the function the scan
  is defined by, built from the end of the text (`RunExists`, `RewriteRuns`); what
  is said of it is shown backwards from the end (`Backwards`), of the loop over the
  secrets forwards (`Forwards`), both from the least-number principle.
  `OccurrenceKept`: where everything put in is apart from `v`, an occurrence of `v`
  in the result is made of kept tokens only, and so is one of the text; then
  replacing one value brings back none that was gone, which is
  `RedactionRemovesValues`. `OneMore`: replacing one sentinel more in what the
  others left is replacing it together with them, since it starts in what was put
  in nowhere, and where it starts in kept tokens it did so in the text;
  `ReplacementIsSimultaneous` is that for the whole list. Assumed: the tokens of
  `[REDACTED]` are tokens.
- **CAStoreProofs.** `CATypeCorrect` without hypothesis. While processes do not start
  at the same time (`~Overlap`) and until a read of a whole pair fails (`misread`),
  `StoreInv` says of each label which halves are on disk: the key is written last, so a whole key means that both halves are final,
  that all processes up have them, and that whoever starts next loads them.
  Theorems: `CAPairFits`, `CALeafTrusted`, `CAKeyIsFinal`. With `Overlap`, or after
  such a read, each fails as described above.

Only model-checked:

- Liveness (`proxy`, `runtime_live`, `tunnel`): fairness and ENABLED are out of the
  prover's reach.

## Plan

All parts of the plan's model exist, and every safety invariant and action property
the runs check is proved. What is left: `Tunnel` and `Proxy`, that the steps of
`Tunnel` between the dial and the return are a stutter, and the last one the step
`TunnelEnds`, of one connection of `Proxy`.

## Not modelled

Docker socket detection, command helpers, flag parsing and the build pipeline: no
state and no interleaving. Of the container manager, logs, wait and SSH agent
forwarding, which nothing calls. The sidecar's SIGHUP, which makes a policy engine
and drops it (`main.go:135-140`). Validity periods of certificates. Wording of errors
and logs. Metrics export beyond the counters.
