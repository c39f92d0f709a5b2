# A TLA+ model of the rendezvous and relay servers

This directory specifies and checks `hbbs`, the rendezvous server that brokers
remote-control sessions and administers the fleet, and `hbbr`, the relay that
joins the two sides of a session. Source files are under `src/`; `relay_server.rs:548`
is a line of `src/relay_server.rs`.

## 1. The system

| Part | Source | State | Operations | Module |
|---|---|---|---|---|
| Session broker | `rendezvous_server.rs` 680-1010, 1327-1730 | `tcp_punch` (write halves of waiting controllers), `pending_relay` (requests whose answer deserves a grant) | PunchHoleRequest, RequestRelay, RelayResponse, PunchHoleSent, LocalAddr, end of a connection | `SessionBroker` |
| Connections and device authentication | `rendezvous_server.rs` 1633-1665, 2000-2400 | per connection: session key, `AuthedDevice`, push queue; `tcp_peers` (id to push channel) | offer, reply, time-out, frame, register, push, sweep | `Channels` |
| Peer registry | `peer.rs`, `database.rs`, `rendezvous_server.rs` 1086-1221 | the table `peer`, `PeerMap`, one `LockPeer` object per id | RegisterPk, RegisterPeer, look-up, set status, delete | `PeerRegistry` |
| Rate limits | `rendezvous_server.rs` 1736-1764 and the punch requests | `IP_BLOCKER`, `PUNCH_REQS` | count, refuse, reset, the two commands | `Limits` |
| Relay server list | `rendezvous_server.rs`, `io_loop` and `check_relay_servers` | the configured and the offered list | command, check, probe | `RelayServers` |
| Relay pairing | `relay_server.rs` 380-684 | `PEERS` (parked streams), `USAGE`, `SESSION_LABELS`, `BLOCKLIST` | accept, refuse, pair, park, expire, relay, account | `RelayPairing` |
| Relay grants | `common.rs` 104-166 | none: the grant carries its expiry and signature | mint, verify | both of the above; `RelayedSession` puts them together |
| Relay usage | `nemo_management.rs` 4971-5110, `relay_server.rs` 345-372 | rows by label, byte counters | record a grant, poll, apply | `RelayUsage` |
| Signing key | `common.rs` 168-420, `nemo_management.rs` 1053-1189 | `id_ed25519`, `id_ed25519.pub`, archived keys | generate, adopt, rotate | `SigningKey` |
| Device keys | `nemo_integration.rs`, `nemo_management.rs` | keys and their bindings, pending claims | generate, bind, claim, approve, deny, forget, remove, prove | `DeviceKeys` |
| Accounts and sessions | `nemo_integration.rs`, `nemo_management.rs` | allowlist and its version, sessions | sign in, sign out, edit, evict | `Logins` |
| Sealed envelopes | `nemo_management.rs` | two nonce caches | accept, refuse, prune | `ReplayGuard` |
| Failed sign-ins | `nemo_integration.rs` | a window for each source, one for the fleet | pass, count, close | `SprayGuard` |
| Directory | `nemo_integration.rs` | none: `authenticate_ldap` asks LDAP | search, bind, Who-am-I, read | `Directory` |
| Policies | `nemo_management.rs`, `nemo_integration.rs` | global, inline, named and device policies, endpoints | poll, the gates of a connection, edits | `Policy` |
| Session revocation | `nemo_management.rs` | `PEER_TERMINATE` and its file, connection rows | cut, block, terminate from controllers, poll | `Revocation` |
| Configuration file | `nemo_integration.rs` | `CONFIG`, `nemo_integration.json` | load, change, save | `ConfigFile` |

How they interact. A machine opens a connection, answers the handshake and
registers its id and key (`Channels`, `PeerRegistry`, `Limits`). A controller
sends a PunchHoleRequest or a RequestRelay over its own connection; the broker
parks that connection's write half under the controller's address, asks the
policy gates (`Policy`), looks the target up, pushes the request into the
target's connection and remembers it in `pending_relay`. The target answers on
its connection, echoing the controller's address; a RelayResponse consumes the
remembered request, is given a relay grant, and is forwarded. Both sides then
connect to `hbbr` and show the grant: the second takes the stream the first
parked. `hbbs` and `hbbr` share no memory; a grant passes between them through the
clients, and `hbbs` polls `hbbr` for usage. A person signs in through the
management API: a sealed envelope (`ReplayGuard`), the proof of the machine's key
(`DeviceKeys`), the limiter (`SprayGuard`), the directory (`Directory`), the allowlist
and the session (`Logins`); the machine then polls its settings (`Policy`), and
with them the order to end its sessions (`Revocation`).

What is hard. All handlers run as tasks of a multi-threaded runtime, and each
`.await` on a lock, a socket or the database lets the others in: most
operations are sequences of small critical sections. Answers race time limits,
requests are superseded by later ones, connections end while something is
being sent to them, database calls and file operations fail after memory has
been changed, clocks step back, and a server may stop between any two steps.
`PROJECT.json` lists these hazards at their lines, with the properties that would
notice them.

### What makes each part correct

* Broker: a grant is minted only for a request that passed the gates, at most
  once, for the machine that was asked; a live request is not lost to another
  controller's; a granted answer reaches its controller, unless another answer took the write
  half first.
* Connections: a push reaches the connection an id registered on last; nothing
  is done on a revoked key.
* Registry: an id belongs to one machine; memory and table agree on key and
  status; what was acknowledged is stored; a block is enforced.
* Pairing: streams are joined two by two, on one grant shown by both while it was
  valid; none is given away twice or dropped under a running relay; nothing
  stays parked for ever; usage can be attributed.
* Limits: nobody is shut out for good; a pair is noted once a window.
* Device keys: a proof counts for the id the operator tied the key to and for no
  other; a claim grants nothing; a denial lasts.
* Sign-in: no envelope is accepted twice without a cause; a sign-in is for the
  account that was bound; a session ends with the rights it stands for; sources
  are closed for what they did and for as long as the limiter says.
* Policies: a blocked machine is told so whatever its policies are; secrets do
  not travel unsealed; a connection passes under one identity.
* Revocation: whatever is dropped from the list was told to stop, and the order
  is not undone by a clock.
* Signing key: all processes use the same pair, or a retired one; there always is one to
  start from (the exception is in section 4).
* A session across all three: `hbbr` joins only what `hbbs` has brokered, whatever is
  restarted and rotated in between; it refuses a grant of `hbbs` only after a rotation;
  a key that has left service admits nobody for long.
* Usage: nobody is charged for bytes their sessions have not carried, as either end.
* Configuration: the next start finds a complete file.

## 2. How the project is laid out

`SessionBroker` (which refines `BrokerBook`), `RelayPairing` (which refines `RelayMatch`)
and `PeerRegistry` are specifications with an `Init`, a `Next` and a `Spec` of their own, instantiated by
`MCSessionBroker`, `MCRelayPairing` and `MCPeerRegistry`.

The smaller components are specifications with names of their own (`LoginInit`,
`LoginNext`, `LoginSpec`, ...), so that an MC module can extend several:

| MC module | Components |
|---|---|
| `MCSignIn` | `Logins`, `ReplayGuard`, `SprayGuard`, `Directory` |
| `MCDevices` | `DeviceKeys`, `Policy`, `Channels`, `Limits` |
| `MCServices` | `Revocation`, `RelayUsage`, `SigningKey`, `RelayedSession`, `ConfigFile`, `RelayServers` |

Components of one MC module have no variable in common, so nothing one of them
does could change what another may do: their product has no behaviour that
their parts do not have. A variable `part` therefore chooses, initially, the one
that moves; the others stay in one initial state. A property of one component
then is checked over exactly its own behaviours, and a run over the sum of the
state spaces and not their product. What one component takes from another
is an input of it, with every outcome possible: `SessionBroker`'s gates may say
either, `Logins` takes the verdict of the directory, `Policy` whether a token has a
session.

`RelayedSession` is the exception: it extends `SigningKey` and composes it, in one
state space, with what the broker and the relay promise (`BrokerBook`, `RelayMatch`).
In `MCServices` the key therefore moves in two parts, alone with two `hbbs` and two
rotations, and with a session over it.

Proofs are in modules of their own that extend what they are about:

| Proof module | About |
|---|---|
| `SessionBrokerProofs`, `RelayPairingProofs`, `PeerRegistryProofs` | the module of that name; the first also `BrokerBook`, the second `RelayMatch` |
| `DeviceKeysProofs`, `LoginsProofs` | the module of that name |
| `SignInProofs` | `ReplayGuard`, `SprayGuard`, `Directory` |
| `DevicesProofs` | `Policy`, `Channels`, `Limits` |
| `ServicesProofs` | `Revocation`, `SigningKey`, `RelayedSession`, `ConfigFile`, `RelayServers`, `RelayUsage` |

What could come next: several ids in the registry, for `last_reg_time` and the sweeps that
go over all of them.

## 3. The modules

One action is what a handler does between two points at which another task can
get in; the comments name the code where the correspondence is not obvious.
The operators with an underscore in their name (`Record_KeepsOld`) are
variants of the action that follows them, as a plausible mistake would have it;
no specification uses them. `PROJECT.json` says which property notices which.

### SessionBroker and BrokerBook

`task[c]` is the connection task of controller `c`: `ready` between frames, then
`target_gate`, `source_gate`, `lookup`, and `record`/`push` in the order of the
path taken. RequestRelay pushes first and records afterwards
(`rendezvous_server.rs:839`, `:857`); PunchHoleRequest records while it builds
the PunchHole and pushes after it (`:1577`, `:1722`), and records nothing when
it asks for local addresses. `sink[c]` is the write half: with the task, in
`tcp_punch`, or used up, for a granted answer (`granted`) or for another one (`told`: a
refusal, PunchHoleSent, LocalAddr), or gone with the connection. `pending[c]` is the entry of `pending_relay`. `peer` is
what the two look-ups can tell of a target: not known, a row only, in memory
with an expired registration, or recently registered.

RelayResponse is one action per answering target `t` and echoed address `c`. It
is not tied to a push: a target may answer twice, late, or for an address it
was never asked about. `Provisioned` are the targets whose connection proved a
device key; only their answers are compared with the entry. `requests` and
`grants` are history: what was accepted and what was minted for which of them.

Abstracted: the reasons of refusals, what the source gates read (either verdict
is possible), addresses of targets, NAT types, statistics, encryption. The
look-up and the reading of the found object are one action, since only one
field is read.

`BrokerBook` is what `hbbs` promises: it keeps a book of the requests it has accepted, and
grants one that is open, once, closing with it every older one of the same controller; an open request may
lapse at any time. In `SessionBroker!Book` the book is `requests`, and what is open for
a controller is its entry and the request its task has yet to record. Replacing an entry,
the sweep and a refused answer, which all lose requests without a word, are lapses. It is
a property of a run and a theorem.

### RelayPairing and RelayMatch

`pc[c]` is the task of connection `c`: `new`, `secured` (key exchange done),
`admitted` (grant verified), then `paired` or `vacant` after the look-up in
`PEERS`, `parked` during the sleep, `counted`, `relaying`, `stalled` (waiting in
`send_raw`), `ended`, `unlisted`, `done`. `slot[g]` is the entry of `PEERS`. The
park is a second critical section (`relay_server.rs:572`), and the timer removes
by grant (`:574`): both races are in the model. `USAGE` and `SESSION_LABELS` have
one action for each of their critical sections; they are keyed by the joiner,
since every connection has its own address and port.

An address has two forms. Admission looks `BLOCKLIST` up by `try_into_v4(addr).ip()`
(`relay_server.rs:420`, `:435`), a running relay by `addr.ip()` (`:589`, `:653`). The
listeners are dual-stack, so an IPv4 peer is `::ffff:a.b.c.d` to its socket; the
constants `V4Ip` and `RawIp` give each connection both forms, and `blocked` holds
addresses as they were typed. Blocking `a.b.c.d` therefore keeps such a peer from being
admitted again but does not end a relay it is in. `BlockedRelayEnds` is a promise about the raw form
only, and its comment says so; in the instance the two forms differ.

Abstracted: bandwidth limits and bytes (they delay `Sample`, which is not bound to
come at any time), WebSocket connections (refused at `:454`).

`RelayMatch` is what `hbbr` promises: connections that show the same unexpired
grant are joined two by two while both are open. `RelayPairing!MatchSpec`
instantiates it with `clock <- now, admits <- grant`, `joined` and `closed` by
name; it is a property of a run and a theorem.

### PeerRegistry

One id. `row` is the row of the table, `objects` the `LockPeer` objects that tasks
or the map may still hold, `map` the one `PeerMap` has. A task registers (`gate`,
`find`, `fetch`, `install` or `default`, `compare`, `write`, `store`, `set_guid`) or only
looks up (`find` ... `install`), as PunchHoleRequest and key requests do. Each
database call is one action: the pool has one connection by default, and SQLite
executes one statement at a time in any case. An administrator's request writes
the table first and the object in memory second. `Restart` keeps only the table.

`Faults` names what the environment does: `db_error` (any database call of a task
fails), `delete` (administrators delete the row), `restart`. `stale` marks, as
history, an object installed from a row that had changed since it was read.

Abstracted: `reg_pk`, `IP_BLOCKER` and the length check (a refusal is always
possible where they are asked), addresses and times of registration, the
telemetry of address changes. Reading the status through the map is one action:
the handle and the read can be separated by a change, which then is as if it
had come before or after both.

`MCPeerRegistry` has the two ways registrations come as two parts of one run: `any` is `Spec`, `udp` is
`UdpSpec`, an instance `Udp` of the module with frames and faults of its own.

### Channels

`conn[c]` is the task of connection `c`: `none`, `offered` (the handshake's one
bounded read), `loop`, `frame` (a frame was read and is being handled), `closed`; with it
the id it has proved, whether it is encrypted, and the frame. `wire[c]` are frames
on the way, `queue[c]` the channel through which other tasks push, `peers` is
`tcp_peers`. A frame remembers, as history, whether the key of its connection was
gone when it was sent. `Enter` is the part of `handle_listener_inner` after the
handshake: `require_device_key` first, `--key-exchange=require` second. A frame that
came instead of a reply is handled as the first of the loop. A closing task leaves
its entries in `tcp_peers`; only a registration or a push sweeps them.

Abstracted: the cryptography is its outcome. A reply that does not open and one
that proves a removed key end the connection alike. What an asking frame starts is
`SessionBroker`, and how an unbound key is claimed is `DeviceKeys`.

### Limits

`blocker[a]` is an entry of `IP_BLOCKER`: a counter of attempts and a set of ids,
each with the age of its last change. Ages stop growing where nothing depends
on them any more, which keeps the state space finite without a bound on time.
`Attempt` is `check_ip_blocker` with both windows, `CommandIpBlocker` the command that
forgets. `punches` is `PUNCH_REQS` with the look back over the last entries.

### DeviceKeys

`bound[k]` is the binding of key `k`: an id, `Free` (an unbound key), not minted, or
deleted. A request reads it (`Present`), decides by what it read (`Decide`), and
files a claim or is served, in steps between which the operator acts. `Frame` and
`Finish` are the frames of a connection that has proved the key, or the handling of an
HTTP request. `seen` orders claims as `first_seen` does. `tied` and `typed` are
history: what the operator bound, and whether by typing or by approving.

Abstracted: signatures and sealing are `Holds`, the machines that have the private half.

### Logins

A sign-in is `StartSignIn`, `RecordLogin`, `LoginGate`, `CreateSession`, with the directory in
between; an edit of the allowlist is `Commit` under the lock of the configuration and
`Evict` under that of the sessions; the removal of a device key is `UnpinKey` and
`DropKeySessions`. `LoadList` and `LoadVersion` are two steps since the code takes two
locks. `missed` marks a session that was created after an edit had overtaken its
sign-in, or whose eviction a restart has swallowed: the two exceptions of
`EndsWithPermission`.

### ReplayGuard, SprayGuard

`nonces` are the two caches with the second each nonce was seen at; a cache prunes by
age and then pushes out the oldest. `Fresh` is the window on the client's clock. A restart
empties the caches and renews the key credentials are sealed to, but not the one of
requests. Entries of equal age may go in any order.

`Pass` is `login_spray_block`, before the directory is asked; `CredentialsFail` is
`note_login_spray`, after it, with the pruning, the two windows and their trips in the
order of the code. Time passes in between.

### Directory

`stage` is how far `authenticate_ldap` has come. With a service account: `Search`,
`BindEntry`, `NameUser`. Without: `BindPrincipal`, then one of `WhoAmIDn`, `WhoAmIUser`, `WhoAmINone`,
then `ReadEntry`, `Enrich` or `Identify`, then `NameUser`. Entries carry the two attributes
that search and naming look at. `Rename` changes the directory between any two
requests; `called` collects the names the bound account has had since it was chosen.

Abstracted: case and domain of names (the constants stand for names after
`canonical_username` has folded them), DN syntax, TLS.

### Policy

A poll (`client_policy`) collects, under a lock each: the row of the machine, the
user whose session it may spend, the policies, the blocked ids and endpoints, the
setting that strips secrets; then it seals. `UserPolicies` is a set because the policy of the
administrators and the default one are whichever the operator has set; the endpoints a poll
is told (`known`) are part of the handler, and no property is about them. `Extend` is the override order
of `HashMap::extend` on the four options the properties are about. A connection's gates
are `GateIdentity`, `GateRow`, `GateUser`. While nothing is under way nothing is edited:
every configuration is an initial state.

### Revocation

`rows` gives each negotiated connection the rank of its `last_seen` among the rows, and 0
where there is none: what `min_by_key` and the limit need of the times. `stamp` is `PEER_TERMINATE`,
`stampFile` its file; a stamp is set under one lock, copied, and written after it.
`TerminateFrom` holds `STATS` from the choice of targets to the removal of rows, `Cut` takes
it at the end. Sessions run on the targets, without the server; a target's poll
ends them. The clock may step back.

### RelayUsage

`relay` and `carried` are what `hbbr` counts; `FetchLabels` and `FetchRows` are the two locks of
`usage-json`; `Apply` is `apply_relay_usage` on a sample that may be old by then. Rows of
`hbbs` are evicted at `RELAY_SESSION_MEMORY`, a machine's count is forgotten when the machine
is. Either server may restart. `Gained` is what a sample adds to each session, and `Apply`
sums it over the sessions of the sample for the total, and for the charge of a machine over
those it is the source of and then over those it is the target of, as the loop at
`nemo_management.rs:5037` does. No gate keeps a machine from asking for itself, and one that
relays to itself is charged twice. The comment on the counter speaks of "bytes relayed in
sessions this peer took part in, as either end" (`:549`); `ChargedIsCarried` therefore bounds a
charge by what the sessions have carried, once for each end the machine was, and
`ChargedIsCounted` by the total, or by twice the total for a machine that has relayed to
itself. The source may be unknown (`Nobody`). Every brokered session has a label of its own.

### SigningKey

`sk`, `pub`, `tmp` and `archive` are the names, `data` is what the files hold: a file is known
by the key it was first made for, so that a request which still has it open writes to it
wherever a rename has taken it. Every action is one operation on one file
of `generate_and_publish_sk` or `rotate_server_key_at`, from the opening of the temporary file,
which empties it (`RotateOpens`), and the write (`RotateWrites`) to the two renames, the roll-back
and the removal. Only what no other process or request can reach is one step: the private temporary
file of a generated key, and the writing of a `.pub`. Any process may stop in between, several may
start and several rotations may run. A rename replaces what has the name, as it does on disk; two
rotations of one process share a temporary file, and two in one second an archive.
`Blank` is what a file holds that was opened and not written; a start refuses it as malformed.

### RelayedSession

A session from the request to the relay, with the key file under it. Of `hbbs` and `hbbr` it
takes what they promise: `AcceptRequest`, `LoseRequests` and `MintGrant` are `Enter`, `Lapse` and
`Issue` of `BrokerBook`; `Admit`, `JoinSides` and `DropSockets` are `Admit`, `Join` and `Drop` of
`RelayMatch`. `SessionBroker` and `RelayPairing` are proved to implement these two, so the details
need not be repeated. What this module adds is what neither of them can say:

* a grant (`signed`) carries the key of the process that minted it and its expiry.
  `relay_grant_mint` uses `self.inner.sk`, `relay_grant_verify` the public half of `RELAY_SK`;
  each is set when its process starts and never again (`rendezvous_server.rs:2449`,
  `relay_server.rs:65`), so both are `proc[p].key` of `SigningKey`;
* `KeyStep` is any step of `SigningKey`: starts that race, a rotation, a stop between two file
  operations. With an `hbbs` that stops goes its `pending_relay`, with an `hbbr` its
  connections. The clients keep the grants.

`Broker` and `Relay` say which process a connection leads to; there may be any number of both.
`issued` and `signer` are history: for whom a request was granted, and when an
`hbbs` that signed with a key was last stopped. A key given on the command line
(`-k <private key>`) does not come from the file and is not covered.

### ConfigFile, RelayServers

`ConfigFile`: `Change` happens under the lock of `CONFIG`, `CreateTemporary`, `WriteTemporary` and
`RenameTemporary` are `atomic_write`; each may fail (`SaveFails`) or be the last
(`ConfigCrash`). A file may be damaged while `hbbs` is down.

`RelayServers`: the main loop has `configured` and `offered`; a check copies `configured`,
probes and sends what it found through `inbox`, behind any command that came first.
Only two or more servers are checked.

## 4. The runs

| Run | Instance | Properties |
|---|---|---|
| `broker` | 2 targets, one provisioned, one on the same intranet, and 1 controller; or 2 controllers that ask for one target; 2 requests, 2 clock values, TTL 1; fair | `IInv`, `GrantIsAnswered`, `BookSpec`, `LiveEntryIsKept`, `GrantReachesController`, `WriteHalfIsReleased` |
| `broker_expiry` | as `broker` | `GrantIsUnexpired`: violated |
| `broker_race` | as `broker` | `PushedAnswerIsMatched`: violated |
| `pairing` | 3 connections, 2 grants with different expiries, park time 1, addresses whose two forms differ; fair | `IInv`, `CountedRowIsLabelled`, `ParkEndsForAReason`, `MatchSpec`, `ParkEnds`, `BlockedRelayEnds` |
| `registry` | `any`: 2 symmetric tasks, 2 machines, 1 administrator, all faults; 3 operations between restarts, 2 rows. `udp`: `UdpSpec`, of the same tasks one registers at a time, one machine has three frames (its key changes, and its key and address), restarts | `StatusReachesMemory`, `RowKeepsMachine`, and of `udp` `UdpInv`, `UdpAckedIsListed` |
| `registry_ack` | 1 task, 1 machine, `db_error` | `AckedIsListed`: violated |
| `registry_block` | 1 task, 1 machine, 1 administrator | `BlockIsSeen`: violated |
| `registry_mix` | 2 tasks, 2 machines | `RowIsOneMachine`: violated |
| `sign_in` | see below | `LoginIInv`, `ReplayInv`, `ReplayNeedsCause`, `SprayInv`, `ClosesForCause`, `DirectoryInv` |
| `devices` | see below | `KeysIInv`, `OneTokenOneMachine`, `DenialSticks`, `PolicyInv`, `ChannelInv`, `LatestIsReached`, `LimitsInv` |
| `services` | see below; fair | `RevocationInv`, `OrderStands`, `UsageInv`, `KeyInv`, `SessionInv`, `GrantVerifies`, `OldKeyRunsOut`, `ConfigInv`, `RelayServersInv`, `OfferSettles` |
| `key_lost` | as `services` | `KeyIsNeverMissing`: violated |

The invariants whose name ends in `Inv` are conjunctions of named parts, one of
them the types; the parts carry the comments. The type invariants of the
first three components are part of their `IInv`, or proved beside it. `GrantIsBrokered`, `ProvenResponder` and
`RelayOwnsBothStreams` are conjuncts of an `IInv` and theorems of their own.

Why the bounds are enough. *Broker*: two requests are what a superseded entry
needs, two targets what a wrong responder needs; with a TTL of one tick and a clock
of two values an entry is live, and at its limit, where it is swept and yet granted. Two controllers share only
the sweep in `Record` and a target's answers, so one target, registered and not blocked, is enough for
them, and one of the two only sends RequestRelay; more controllers are covered by `LiveEntriesAreKept`. `MaxRequests` counts accepted requests only, so refused ones
repeat without bound. *Pairing*: overwriting a parked stream takes two connections, and the
older timer finding the newer stream, or a joiner taking it first, a third; a second grant
lets a wrong key show, and an address that is blocked in one form need not be in the other; more connections are covered by the theorems. `MaxNow` stops
the clock only while nobody sleeps, so every timer can run out. *Registry*: the races
found need two tasks or a task and an administrator; three operations allow a
registration, a look-up and another registration before memory is lost, and
`ops` starts again at each restart. Two rows are a registration, a deletion and a
new registration. The invariants of `udp` are stated of an instance of the module and
only of behaviours of `UdpSpec`.

*Sign-in*: one account and one sign-in meet two tabs, which can hold different
versions of the list; `MaxVersion` 2 lets an edit come before, between and after the reads of
the sign-in. Replay: three credentials for a cache of two, one sealed by a clock that is
ahead, one request, one old credential without a nonce; the window is shorter than
the clock runs. Spray: three accounts for limits of one a source and two for the fleet, two
sources for a table of one, a cooldown longer than the window. Directory: two accounts with
two names and two renames, which is what swapping names takes.

*Devices*: two keys, two machines of which one lacks a key, an id that is malformed; a table
with room for one claim, so it is full at once. Policy: two policies that differ in every
option, four kinds of account, every configuration at the start and one edit at any point of a
poll or gate: each setting is read once, so one edit puts its old or its new value into any read. Channels: two connections and two ids make a reconnect, a swap and a sweep.
Limits: three ids for a limit of one, both windows pass, a look back of one in a ring of
four.

*Services*: two revocations on one target with a history of one row and a clock of two values
that goes back; two sessions for a memory of one row; three keys for two `hbbs`, one `hbbr` and
two rotations in two seconds; keys are alike, so each behaviour generates them in one order
(`KeysInOrder`), and relayed sessions and machines are named in the order they come in (`SessionsInOrder`):
every other behaviour is one of these with the names exchanged. A session: one `hbbs`, one `hbbr` and one rotation, two keys, a host
with or without a key file, one controller with two requests, two connections; with a TTL of one tick and
two ticks a grant is signed, good and run out, with a stop of either server anywhere between. Three saves of two configurations; two servers, two
checks and two changes.

Deadlock is checked in every run: connections of `SessionBroker` end but targets go
on answering, `RelayPairing`'s block list can always be edited, and the other
components can always restart, be polled or be edited; `RelayServers`' timer ticks for nothing
when there is nothing to check.

### What the runs show

The properties of the passing runs hold, in all interleavings of the instance.
Six statements of the repository's text do not:

* `GrantIsUnexpired`. `rendezvous_server.rs:175` says a grant is minted only for an
  "unexpired" entry. Nothing compares `expires` when the entry is used (`:888`);
  expired entries only go when some later request sweeps the table.
* `PushedAnswerIsMatched`. `:844` says the entry is recorded so that an answer can be
  told from an unsolicited one, but it is recorded after the push and an
  answer can come in between. The punch path has the safe order.
* `AckedIsListed` under `db_error`. `:1179` drops the result of `update_pk`, so a failed
  insert is acknowledged; the object in memory then hides it from the next
  registration, which finds nothing changed.
* `BlockIsSeen`. `PeerMap::get` installs what it read before the block
  (`peer.rs:150`, `:161`), and the gates read the object.
* `RowIsOneMachine` with two tasks. Both pass the comparison while the object is
  empty (`rendezvous_server.rs:1115`), the second overwrites the first one's key
  through the guid the first has just set, and `update_pk` leaves the uuid
  (`database.rs:179`).
* `KeyIsNeverMissing`. `nemo_management.rs:1127` says no failure of a rotation can leave the server
  without a key. A stop between the two renames (`:1148`, `:1153`) does: the old key is
  in the archive, the new one under its temporary name. `hbbs` then does not start, or,
  with `--generate-key Y`, makes a third one. Two rotations of one process can also spoil what they
  share: the second empties the temporary file that the first is about to move, so that
  an empty key file is in service if the second's write fails, and the first
  has reported a key that is not the one on disk if it succeeds.

The part `udp` of `registry` shows that `AckedIsListed` and `RowIsOneMachine` only fail for what their
runs add: with one registration at a time and no failing database call, an
acknowledged machine is stored and a row names one machine, whatever look-ups,
status changes and restarts come in between. (Which of its keys the row has is not said: a frame
that is compared with an object installed from an older read is answered OK, and the row keeps the newer key.) (That rows name one machine does
not depend on the database calls either: the theorem of section 5 is for all
`Faults`.) `UdpSpec` is how registrations over UDP run: `io_loop` awaits
`handle_udp`, and with it `register_pk_core`, before it takes the next datagram
(`rendezvous_server.rs:505`). Over TCP and WebSocket every connection has a task of
its own, which is `Spec`. `StatusReachesMemory` in `registry` shows that the installation of an
outdated read is the only way by which memory keeps another status than the row
when one administrator works at a time.

Several properties of the other runs hold with exceptions, and the exceptions are
what the code does. They are stated in the properties, because a reader should know them:

* A session created by a sign-in that an edit of the allowlist overtook keeps rights
  that are gone, until it expires (`missed` in `EndsWithPermission`); so does one whose
  eviction a restart came before.
* A sealed envelope can be accepted again when its nonce was pushed out of a full cache,
  when the client's clock was ahead of the server's (it stays fresh for longer than
  its nonce is kept), and, for requests, after a restart (`ReplayNeedsCause`).
* An order to stop is lost on a session that is being set up, whose row has been
  pushed out, or that outlives a restart of `hbbs` (`UnlistedIsRevoked`). An order given
  while the clock is behind the last stamp the target obeyed does nothing
  (`order = "lost"`).
* A process that started before a rotation goes on with the retired key until it is
  restarted (`KeyIsShared`), which the dashboard says. It says so of `hbbs` only
  (`nemo_management.rs:1170`, `:5917`), and `hbbr` has loaded the old key as well: once `hbbs` is
  restarted alone, grants of the old key run out within their TTL (`OldKeyRunsOut`), those
  of the new one do not verify, and no relay is set up until `hbbr` is restarted too.
  Without a rotation this cannot happen, however the two start (`GrantVerifies`).
* A granted answer does not reach a controller whose write half another answer took
  (`GrantIsAnswered`): a LocalAddr, a PunchHoleSent or a refusal of a later request.
* A relay whose joiner came over IPv4 outlasts the blocking of its address as an operator types it
  (`BlockedRelayEnds`, section 3).
* A machine that relays to itself is charged twice (`ChargedIsCounted`).
* A configuration file that cannot be read, rather than parsed, is replaced by defaults
  at the next save (`MangledIsKept` is about the other case).

### Fairness

`SessionBroker!Fairness`: a spawned task goes on while it can (weak fairness of its
steps and of forwarding); the read loop's 30 s limit ends a connection that
sends nothing (weak fairness of `Close`, enabled at `ready`). That is a little more than the code
gives: a frame pushed to the connection restarts the 30 s (`rendezvous_server.rs:2211`), so it
takes for granted that a connection which sends nothing is not pushed to for ever. Nothing is assumed of
targets, of new requests or of the clock. `WriteHalfIsReleased` is claimed for a
controller that stops sending, because one that keeps sending keeps its
connection open.

`RelayPairing!Fairness`: tasks go on, time passes, a sleep ends. `Sample` is strongly
fair: `relay` waits on an interval of 3 s beside its two streams, so the loop
turns whenever it is not inside `send_raw`, however often it has been there.
Clients are not assumed to do anything; `BlockedRelayEnds` has the exception of a
side that has stopped reading for good in its premise, because the loop really
does stand still then.

`RelayServersFairness`: the timer of `io_loop` ticks, every probe ends within
`CHECK_RELAY_TIMEOUT`, the main loop reads its channel. Nothing is assumed of commands or
of servers; `OfferSettles` says what comes of it once both have stopped changing, which the
bound on changes makes them do.

## 5. What is proved

The theorems hold for all values of the constants that satisfy the assumption
of their module (`BrokerAssumption`, `PairingAssumption`, `RegistryAssumption`, `KeysAssumption`,
`LoginsAssumption`, and so on, one in each): any sets of controllers, targets,
connections, grants, tasks, administrators, machines, keys, users and names, finite or
not, any TTL, expiries, park time, limits and bounds. They are about the component's own
specification; the MC modules check the same formulas on small instances. Every
safety invariant and every step property of a passing run is a theorem (`UdpInv` and `UdpAckedIsListed`
as `InvCorrect` and `AcknowledgedIsListed`, which are about `UdpSpec` itself).

*Broker.* `Invariant` (`Spec => []IInv`). That a grant is brokered cannot be shown
from the grant alone: it is minted from an entry, which was written by a task,
which got its request number when the request was accepted. `IInv` follows that
chain backwards: `TaskIsBrokered` (what a task pushes or records is the newest
accepted request of its controller), `EntryIsBrokered` (an entry names an accepted
request), `OpenIsUngranted` (what is still open has not been granted, and an
entry never is the request its task has yet to record) and `PunchIsRecorded` (the
punch path pushes what it has recorded). Single use follows from `OpenIsUngranted` and
the removal in `RelayResponse`. From it: `GrantsAreBrokered`, `GrantsAreSingleUse`,
`RespondersAreProven`, `EntriesAreNewest`, and `TypeCorrect`. `LiveEntriesAreKept` is about
steps: only `Record` and `RelayResponse` take entries away, and the sweep in `Record`
looks at the time of each. `GrantsAreAnswered` (`Spec => []GrantIsAnswered`): a write
half its task still has belongs to a connection that has asked for nothing yet, and of which there is no entry and no
grant (`SinkIsUnasked`); so an answer finds the half in `tcp_punch`, or another took it. `BookRefinement` (`Spec => BookSpec`): a successful look-up maps to `Enter`,
`Record` and a refused answer to `Lapse`, a granted one to `Issue`, the rest to a stutter. That a grant closes what
is older, and nothing else, is where `TaskIsBrokered` and `OpenIsUngranted` are used: the request a task has yet to
record is newer than the entry. `GrantsAreInOrder` then follows from the book alone
(`OpenIsLater`): a controller is granted its requests in the order of their acceptance.

*Pairing.* `Invariant`. Ownership of streams is not local to any task, since a
timer or a park may drop another task's stream. `SlotsAreParked` says what is in
`PEERS` is open, unpaired and belongs to a sleeping task of that grant;
`EarlyTasksOwnTheirs` that a task which has not parked still has its stream;
`PairsAreFormed` and `AccountingFollowsTask` tie pairs and rows to stages. With them a
timer or an overwriting park can only ever drop a stream that is in nobody's
hands. From it: `OneOwner`, `PairsShareGrants`, `RelaysOwnTheirStreams`, `RowsAreLabelled`,
`TypeCorrect`, the step property `ParksEndForAReason`, and `Refinement` (`Spec => MatchSpec`):
`RequestRelay` maps to `Admit`, `TakeParked` to `Join`, everything that closes streams to `Drop`,
`Tick` to `Pass`, and the rest to a stutter.

*Registry.* `RowsKeepTheirMachine` holds of `Spec`, with any number of registrations at
once: a row that is there is only written by `update_pk` and `set_peer_status`. The
other results need to know that a task has the object it uses, also after a
restart: `TypeCorrect` is proved together with `HandlesAreHeld`. `InvCorrect`
(`UdpSpec => []IInv`) is the invariant behind `RowsAreOneMachine`. `update_pk` finds its
row by guid and does not look at the uuid, so that the key goes to the right
machine only because whatever carries the guid of the row carries its uuid:
the objects (`ObjectsNameRow`), the rows fetched and not yet installed
(`FetchedNamesRow`) and the task about to store (`WritersNameRow`); and because a new
row has a guid no object has yet (`RowIsNumbered`). The comparison under the read
lock keeps this only while no other task writes the object before the one that
compared does, which is where `OneWriter` is used, and what `registry_mix` shows.

`StatusIsInMemory`: with one administrator at a time the status that
`set_peer_status` has reported is that of the object in memory, unless that object was
installed from an outdated read. Here any number of tasks registers, and calls fail. The
invariant `StatusInv` has to say of what a status is true before it is asked: rows and
what names them are numbered (`Numbered`), the row has the status the administrator
reported last or is about to report (`RowIsSet`), the object in the map agrees with the
row it names (`MapIsAlike`), and so does the object a task has inserted a row for and not
yet named after it (`LinkIsAlike`): an object without a guid has the default status, which
is also that of a new row, until its task sets the guid. With two administrators it does
not hold: one may write the row last and the other the object (`peer.rs:212`).

`AcknowledgedIsListed` is a theorem about `UdpSpec` where no database call fails and nothing is deleted,
as in the part `udp` of the run; with a failing call it is false, as `registry_ack` shows. It says of the row
that it has the uuid of the acknowledged machine and one of its keys. An
acknowledgement may come from memory (`Compare` finds nothing to change), so the invariant
is about memory: while there is no row, an object that has a machine is in the hands of a
task about to store it (`Unstored`), and since registrations follow one another, no
other task can find it there and answer OK; once there is one, every object, every fetched row and
every acknowledgement is of its machine (`Recorded`). That takes that before the row there is one object
at most, the one in the map (`OneObject`), so that no empty one is left for another machine to fill.

*Device keys.* `KeysInvariant` (`KeysSpec => []KeysIInv`). A proof is accepted by what a request
has read, not by what is bound now; so the invariant speaks of `tied`, all the pairs the operator has made,
of the registry, of what was read (`RegistryIsTied`) and of what was accepted
(`AcceptedIsTied`). The bounds of the claim table are statements about cardinalities, with lemmas of
their own for adding a claim, replacing one and dropping some. `OneTokenOneMachineHolds`: a
bound key passes to another id only by typing. `DenialsStick`: a denied claim goes only with the operator's
decision, since what makes room is never denied.

*Accounts.* `LoginInvariant` (`LoginSpec => []LoginIInv`), for any number of users, sign-ins,
tabs and sessions. Two edits may be between their halves at once; the argument is that
a session that does not fit the list has an edit that changed its entry and has still
to evict (`ChangeIsSeen`), and that an edit evicts by what it changed, not by what the list is
when it comes to it (`EvictionsKept`). A session created meanwhile is compared at its creation.

*Connections.* `ChannelInvariant` and `LatestIsAlwaysReached`, for any number of connections
and frames on the way. `NotYetIn` says that what has not passed the handshake has proved nothing and
is in no table, `InIsSecured` that the gate has been passed by all that are in, `RevokedIsWaiting`
that a frame sent after a revocation is on a connection whose key is still gone,
since no key comes back. A closing task must leave `tcp_peers` alone: that is
the step in which `LatestIsReached` would fail if it swept its id.

*Directory.* `DirectoryInvariant`: for any directory and any changes to it, the name a
sign-in is given is one its bound account has had, or, when the directory would not say whom it bound,
the typed one. `HistoryCovers` and `LearnedIsTrue` follow what each answer says of the account;
`AnswerGiven` which answer each request came after; `NothingKnown` that a new sign-in starts
from nothing.

*Sealed requests.* `ReplayInvariant` and, from it, `ReplaysHaveCauses`. `CacheIsComplete` needs the
order in `Accept`: what is pruned by age is pruned by the age of the nonce, and what is
pushed out is marked `evicted`. The caches are bounded although there may be infinitely many
envelopes, which takes the invariant that a cache is finite (`CachesAreFinite`).

*Failed sign-ins.* `SprayInvariant` (`CooldownHolds`): a roll leaves the deadline, and the pruning
leaves the windows that are closed; `TripsAreNoted` says that a deadline was set by the
trip which `closedAt` remembers. `SprayClosesForCause` is a step property about what a window
stands for: `WindowsAreAccounted` says that every account a window counts has failed since the window
began, so that a trip has at least as many distinct failures behind it as the window has
accounts.

*Policies.* `PolicyInvariant`, for any policies, machines and edits between the reads of a
poll. `BlockIsLaid` and `StripIsDone` say what holds of an answer from the step on that lays
the block over it, or takes the secrets out; nothing later puts them back. `GatesSoFar` does the same
for the gates of a connection, and needs that `edits` is not reset while it is at
them (`OneAtATime`).

*Limits.* `LimitsInvariant`. That a lock-out ends is a statement about time: the
ages of the two counters of an address grow with the time it has been refused
(`RefusalsAgeTheCounters`), since a refused attempt renews neither. `NotedOnce` needs that
the ring is in the order of arrival (`OldestFirst`).

*Revocation.* `RevocationInvariant` and `OrdersStand`. `RowsAreAimedAt` is what makes
`terminate_sessions_from_controllers` complete: it holds `STATS` from the choice of targets to the removal
of rows, so every row of the controllers it stops is on a target it has stamped or is
still to stamp. `HitIsOrdered` carries the orders from the stamp to the removal. An order
goes on standing because a stamp never goes back (`Stamped`), and a target obeys no stamp
that is not newer.

*Signing key.* `KeyInvariant`: whoever serves had its key from the file, or put it there, and a
key leaves the file only for the list of retired ones. `KeyInHand` excludes that a process serves the
lack of a key; `RotationsAreOwned` says of a request under way that it belongs to an `hbbs` and has a file to
write to, which is what the writes to a file that was moved meanwhile need. `RotationRetires` is the step that
matters: whatever a rotation changes, the name or the contents of the file, the key that was on disk is retired.

*A session over the key.* `SessionsAreBrokered` (`SessionSpec => []SessionInv`), for any number of
`hbbs` and `hbbr` processes, controllers, connections, rotations and keys. `SessionIsBrokered` runs
through all three components: what is joined was admitted on one grant (`SidesAreAdmitted`), a grant was signed once
for its request (`GrantsAreIssued`), because a request that was granted is closed and what is open is newer
(`RequestsAreOpen`, which also says that the process of an open request runs: a stop must take
`pending_relay` with it). `GrantsVerify` and `OldKeysRunOut` rest on `GrantsAreFresh`: the key of a grant is the
one of the file or retired, which needs `KeyInv` at the minting and, later, that the file loses a key
only to the list of retired ones (`FileIsRetired`); and a grant outlives the `hbbs` that signed it by its TTL
at most, since a process keeps its key until it stops (`ServesWithOneKey`). `SessionKeepsPromises`: the
composition, with its stops and starts, implements `BrokerBook`, `RelayMatch` and `SigningKey`'s
`KeySpec`; a stop of `hbbs` maps to `Lapse` and one of `hbbr` to `Drop`. That the two servers as modelled in detail
implement these abstract specifications is `BookRefinement` and `Refinement` above; those modules have no stops, because
a server that starts again has nothing of its former state, which is what `Lapse` and `Drop`
leave of it.

*Configuration file, relay servers.* `ConfigInvariant`: a rename comes after the temporary file
was written whole (`SaveIsOfConfig`), and a configuration is in memory only once a file that
does not parse was moved aside (`MovedBeforeUse`). `RelayServersInvariant`: no check sends an empty list
(`CheckedIsNotEmpty`).

*Relay usage.* `UsageInvariant`. A charge cannot be bounded by what was carried alone,
because a sample adds the difference to the row: the invariant bounds it by what is settled of each
session, its row's bytes, or all it carried once the row is gone (`ChargedIsSettled`). A
sample brings the row up to itself, never down (`SampleIsRecent`), so what a session gained and what was settled of
it make what is settled now; eviction only raises that. The charges are sums over sets; the laws of
`SumFunctionOnSet` which this takes (`SumOf`, `SumsAdd`, `SumsGrow`) are proved first, for any finite set,
from its definition: that the recursion has a solution (`SumsExist`) and that the choice of
elements does not matter (`SumsFacts`, `SumsAgree`), with a smallest counterexample in place
of induction. Sessions may be infinitely many; only finitely many have been granted or are up
(`FinitelyMany`).

### Only model-checked

* Liveness: `GrantReachesController`, `WriteHalfIsReleased`, `ParkEnds`, `BlockedRelayEnds`, `OfferSettles`; their
  fairness is outside what the proof system handles (ENABLED).
* That the runs which expect a violation have one: a counterexample is TLC's.
* That a rotation leaves a key (`KeyIsNeverMissing`): it is one of the statements that fail.

No module uses a recursive operator of its own.

## 6. What is not modelled

* Session broker: OnlineRequest, TestNatRequest, the web console frames, which read and
  answer and change nothing a property here is about.
* Management API: the address book, the files it provisions clients with, statistics and the
  pages of the dashboard; `search_ldap_users` and the certificate helpers of the directory
  integration; commands that print or set one value.
* `reg_pk` (a refusal is possible wherever it is asked), `IP_CHANGES` (it feeds a printout),
  bandwidth limits (they delay), permission bits of files.
* Start-up, arguments and utilities, the desktop front end and the probe example:
  no shared state worth a model.

Things met while reading that no run is about:

* `rendezvous_server.rs:808`: a RequestRelay for a target that is not in memory is dropped
  without an answer; `:722`: the gates run before the push, so a block that comes in between does not
  stop the request; `:1148`: `reg_pk` is read and written under two lock
  acquisitions, so concurrent frames count as one.
* `peer.rs:233`: a look-up that fetched a row before `delete_registered` installs its object after it.
* `nemo_management.rs:983`: stamps are written with `fs::write`, which truncates first; a crash
  in between leaves none. `Revocation` has it (`RevocationRestart` from a file being written),
  as one of the ways an order is lost.
* `nemo_management.rs:1146`: archives carry the second of the rotation, and two rotations in
  one second keep one of the two old keys. `SigningKey` has it; no property says that old keys are kept.
* A session that a sign-out or an edit has evicted is dropped from the file by a write whose failure is
  only logged, so a restart may bring it back; `Logins` lets every write succeed. `ReplayGuard` lets the
  client's clock be wrong and the server's only advance; a server clock that is set back is a
  further way to a replay.
* `relay_server.rs:653`: the relay of a peer that came over IPv4 is not ended by blocking its IPv4
  address (section 3); no text of the repository promises that a block ends a relay.
* `nemo_management.rs:2820`: the list and its version are read under two locks; an editor
  may hold an older list with a newer version, and overwrite an edit it has not shown.
  `Logins` has it; no property says otherwise.
* `nemo_management.rs:5013`: a session whose row was evicted counts in the fleet total again
  with all its bytes at every poll; the charge of its machines is right (`UsageInv`).
* `docs/nemo-management-api.md:234` describes the outbound policy as effective; the gate at
  `nemo_management.rs:4704` reads the row of the machine only, and leaves the merged policy to
  the client.
* `rendezvous_server.rs:2499`: what a check found of an older list arrives after the command that
  replaced it; `OfferSettles` shows that the next check puts it right where there are two servers or more.
