# Feilian Lite: TLA+ models, checks and proofs

Feilian Lite is a VPN client: a Rust protocol core with a command-line front
end, a Tauri desktop application, and a small privileged *tunnel helper* that
the desktop drives over a local socket. This directory holds TLA+ models of it,
TLC configurations that check them on small instances, and TLAPS proofs.

Status: the helper process, the launcher that starts it, the desktop controller
(with its helper client and the server sessions it owns), what the desktop keeps
on disk and in the keyring, its window, the command-line client with its DNS
manager, and the way from the server's list of nodes to a tunnel's configuration
(the probes, the choice, the routes) are modelled, checked and, in their main
invariants, proved. What is left of the inventory below is under Plan.

## Inventory

| part | source | state it keeps | operations | what makes it correct |
|---|---|---|---|---|
| Helper supervisor | `apps/helper/src/lib.rs` | state, active fingerprint | hello, start, stop, status, stats, cleanup | at most one tunnel; a start never replaces a tunnel; answers are true; failures leave nothing up |
| libwg backend | `apps/helper/src/libwg_backend.rs` | running flag, interface | start (open, configure), stop, stats, cleanup, drop | the device exists exactly while running; a configuration that fails closes it |
| Helper main loop and socket | `apps/helper/src/main.rs`, `unix.rs`, `windows.rs` | listener, socket path, parent pid | accept, time out, parent poll, signal | no client holds the loop; the helper follows its parent; a signal stops it |
| Helper client | `crates/feilian-helper-client` | request counter, exchange lock | one exchange at a time, ten-second timeout, identity and id checks | an answer is the answer to this request; a late stop takes no newer tunnel down |
| Helper launcher | `src-tauri/src/launcher.rs` | one child slot per mode | hello, spawn, wait with a deadline | never two helpers for one socket; a dead child is replaced |
| Desktop controller | `src-tauri/src/controller.rs` | auth state under a mutex: session, challenge, nodes, active connection | auth_*, connect, stop, cleanup, status | server sessions are released exactly once; the record agrees with the tunnel; commands end |
| Desktop window | `apps/desktop/src` | snapshot, auth, mode, busy flags, timers | the invocations above | one operation at a time; what it shows is not stale |
| VPN server client | `src/client.rs`, `api.rs`, `resp.rs`, `state.rs` | login state, cookies, csrf token, time offset | logins, list, probe, connect, report, disconnect, logout | an expired session is retried once; the node is the one asked for; sessions are disconnected |
| Command-line client | `src/main.rs` | session, device, DNS, timers | run: login, connect, keep alive, clean up | everything taken is given back in reverse order |
| DNS manager | `src/dns.rs` | saved servers | set, restore | the user's servers come back, also after a crash |
| Configuration and secrets | `src/config.rs`, `secret_store.rs` | profile.json, keyring entries | create, load, migrate, save, delete | no secret in the profile; a lost key is an error, never a new identity |
| Session state machine | `src/session.rs` | one enumerated state | transition | invalid events are rejected |
| Route arithmetic | `src/utils.rs` | none | intersect, subtract, carve | the result is the set of addresses asked for |
| WireGuard wrapper, TOTP | `src/wg.rs`, `totp.rs` | none or external | device calls, statistics, codes | parsing and slot boundaries |
| IPC messages | `crates/feilian-ipc` | none | encode, decode | limits, versions, ids |

How they interact: the window invokes commands of the controller; any number of
them run at once as tokio tasks. `connect` holds the auth mutex over all it
awaits: the launch of the helper, the server's answer and the helper's start.
`stop` and `cleanup` call the helper without the mutex and take it only to
release the server session. All calls of one helper go through one exchange
lock; a call that times out gives the lock up while its request may still sit
in the helper's socket. The helper serves one connection at a time and knows
nothing of server sessions; the server knows nothing of tunnels. The controller
alone has to keep the two in agreement.

Hard behaviours: overlapping commands over two locks and awaits; requests that
are served after their caller gave up; helpers that die; operations of several
steps of which one fails (start, stop, connect, reset, configure); crashes
between writes of files and keyring entries; a signal during a request. Every
one of them is a hazard in `PROJECT.json`, at its line, with the properties
that watch it, and a note where they see only a part of it or none.

## Modules

### TunnelHelper: what a helper promises

An abstract specification in two variables, the tunnel the helper owns and the
last thing it told a client. At most one tunnel; a start raises the asked tunnel
only when nothing, or the same tunnel, is up; a refused or failed start changes
nothing; a successful stop or cleanup leaves nothing; a status tells the truth.

### Supervisor: the helper process

`Supervisor.tla` models `main`, `accept_once`, `Supervisor::handle` and
`LibwgBackend` together. `phase` is where the process is: waiting (`accept`,
`reading`, `answering`) or in one of the phases of a request. `state`, `active`
and `running` are the fields of the same names; `device` is the tunnel device,
external. Each action is one stretch of code between two points at which the
process can be killed or an outcome becomes known:

| actions | code |
|---|---|
| Accept, RejectPeer, DropConnection, Answer | `UnixServer::accept_once`, `handle_connection` |
| Turn | the end of a turn of main's `select!` loop, which drops the signal listener |
| Inspect | hello, status, stats, undecodable frames, other versions |
| AlreadyActive, StartTunnel, OpenDevice, ConfigureOk, ConfigureFailed, FallibleStart, Rollback | `Supervisor::start`, `LibwgBackend::start` |
| StopIdle, StopTunnel, StopBackend, ClearAfterStop | `Supervisor::stop` |
| Cleanup, CleanupBackend | `Supervisor::cleanup` |
| Shutdown, ParentGone, Kill, ParentExits, Terminate | the ends of the process |

Serving a request never yields to the runtime (the backend's calls are
synchronous), so `Shutdown` and `ParentGone` are possible only while the process
waits, and a signal that arrives meanwhile is `dropped` with the turn's
listener. `backend` selects the shipped backend or `fallible`, any other that
the `TunnelBackend` trait allows: the supervisor's error paths (a cleanup that
fails) are reached only with the latter. A specification is its fingerprint.

### SessionLedger: what the desktop owes the server

An abstract specification of the sessions the VPN server grants, with nothing
said of mutexes, helpers or commands. Another session is asked for only while
none is held; one that is held is never dropped nor exchanged, other than by
asking the server to end it (`GivenBack`, or `Lost` if the server would not);
what came with a session may be of no use (`Wasted`). Controller implements it:
`granted` are the numbers below `nextConf`, `kept` is `live`, `held` what is on
record or in hand, `lost` is `stray`.

### Controller: the desktop's controller, its helpers and its server

`Controller.tla` models every command of `AppController`. `session`,
`challenge`, `nodes` and `active` are the parts of `AuthState`; `lock` is the
mutex; `task` says for each invocation in progress where it is, its helper mode
and the server session (`WgConf`) it has in hand. `exchange` is each helper
client's lock and `queue` the requests in each helper's socket. `up` and
`tunnel` are the helpers, as `TunnelHelper` promises them; `live` is what the
server keeps. Commands that hold the mutex from start to end and call no helper
are one step: nobody can observe the middle. `connect`, `stop`, `cleanup`,
`status` and `auth_configure` are split at every await that matters.

| task's place | code |
|---|---|
| connect, hello, launch, prepare, start, record, undo | `connect` 258-313 in order: checks, `ensure_running`, `connect_vpn_node`, `helper.start`, the record, or the disconnect after a failed start |
| end, release, disconnect | `stop` / `cleanup`: the helper's answer, the mutex, `disconnect_vpn` |
| configure | `auth_configure` between its first write and the mutex |
| status, stats | `status` |

`stop` and `cleanup` differ in the helper's command and nothing else, so both
are the request `end`. `stray` and `timedOut` are history variables: sessions
whose release failed, and starts and ends whose caller gave up. `Gated` is the
window's discipline (App.vue's `busy`): one connect, stop or cleanup at a time;
module Window shows that the window keeps it.

### Window: what the user can press, and what the window shows

`Window.tla` models App.vue with AuthFlow.vue and its mount over one-step versions
of the controller's commands. `mode`, `snapshot`, `busy` and `authBusy` are the
variables of the same names, `auth` the screen that the last `AuthSnapshot` gives.
`calls` are the invocations on their way or answered and not yet shown; any of
them may be answered next, and any answer shown next. `tunnels`, `active`,
`session` and `challenge` are what module Controller has behind the commands: each
`Serve...` action keeps a command's outcomes and leaves out its awaits.

| actions | code |
|---|---|
| Refresh, ChangeMode, Connect, End | the five-second timer, `changeMode`, `connect`, `disconnect` and `cleanup` with the buttons' conditions |
| ConfigureAuth, BeginQr, RefreshNodes, ResetAuth | the functions of the same names, with their buttons' conditions |
| PollQr | the two-second timer, its `authPolling` and the status it falls back to |
| ServeStatus, StatusTimesOut, ServeConnect, ServeEnd | `status`, `connect`, `stop`, `cleanup` |
| ServeAuthStatus, ServeConfigure, ServeBegin, ServePoll, ServeRefresh, ServeReset | the `auth_*` commands |
| ShowStatus, ShowCommand, ShowRequest, ShowPoll | what follows each `await`: the snapshot, `applyAuth`, the busy flags |
| TunnelDies | a helper that ends |

Two invocations with the same command, mode and answer are one member of `calls`;
only statuses (one of a mode at a time, a bound), refreshes and resets can meet
themselves, and neither is told apart from its twin. Which node is selected, the
traffic figures and all texts are left out.

### Profile: what outlives the desktop

`Profile.tla` models what the controller's commands do to profile.json and to
the four keyring entries, split at every write: any of them may fail
(`GiveUp`: the command returns the error as it is) and the desktop may be gone
after any of them (`Exit`). `profile` is absent, torn (truncated and not yet
written) or whole, with the secrets it holds in plain text; `keyring` tells whose
each entry is; `session`, `loaded` are the fields of `AuthState`; `cmd`, `pc`,
`at`, `conf` are the command in progress, its place, the keyring entry it is at
and its local `Config`. A secret is abstracted to the enterprise it belongs to,
an enterprise to the key pair generated for it.

| actions | code |
|---|---|
| LoadBegin, Migrate, Restore | `load_auth_if_needed`, `restore_or_migrate_secrets` entry by entry |
| Truncate, Write | `Config::save`, for a load, a configure, a login and a logout |
| ConfigureBegin, Store, Delete | `auth_configure`: `create_desktop_profile`, `store_secret`, `delete_optional_profile_secrets` |
| Open | `Client::new` and the session that gets it |
| LoginBegin, LogoutBegin | `complete_login` with the TOTP secret it may bring; `handle_logout_err` |
| ResetBegin, Delete, Remove | `auth_reset`: `delete_all_profile_secrets`, the session, `remove_if_exists` |

One command runs at a time, which the auth mutex gives to all of them but the
start of `auth_configure`; that one is reached from the enterprise form, which is
shown only without a session. `owed`, `forgotten` and `interrupted` are history
variables, read by properties only. A new key pair is one nobody has; an
enterprise that was left and has no trace may stand for a new one, so a finite
set of enterprises makes behaviours of any length. The cookie file is left out.

### Launcher: who starts a helper and who answers at its socket

`Launcher.tla` models `ensure_running` of any number of desktop processes and
the start and end of the helpers they launch, for one mode (the modes share no
state). `slot` is the mode's entry of `HelperChildren`, `child` what `try_wait`
says of a spawned process, `helper` where the helper's `main` is, `path` whose
socket is at the socket path; `terminal` says whether launches go through a
terminal emulator, which may detach.

| actions | code |
|---|---|
| EnsureRunning, FirstHello, SpawnIfNeeded, Poll, Deadline | `ensure_running`, `spawn_if_needed`, `child_exit_status`, its deadline |
| Refuse, Detach | a refused authorisation; a terminal that returns before its command |
| Unlink, Bind, Configure | `UnixServer::bind`: `remove_stale_socket`, `bind_owner_only`, `configure_socket` |
| Leave, Remove | a signal or the parent's end; `UnixServer::drop` after the supervisor's |
| Open, Close, Kill | desktops come and go, helpers are killed |

`Hello` gives the outcomes a hello may have where the path leads: the answers of
`helper_is_unavailable` are one outcome, any other error another (a socket that
still belongs to root is one). What a serving helper does is module Supervisor's
subject. Windows' pipes have a random name per desktop and are not in this model.

### Cli: the command-line client

`Cli.tla` models run after run of `run()` in main.rs on Linux, with its
`Client` and `DNSManager`. `pc` is where the run is; `state` and `saved` are the
login state in memory and in the configuration file; `retry` is `logout_retry`;
`device` and `handshake` are libwg's; `accepted` and `lease` are what the server
thinks of the client; `resolv` and `backup` are the two files of the DNS manager.

| actions | code |
|---|---|
| Start, Kill | the process starts, or is gone at any step |
| LoginBegin, MethodAccepted, MethodFails, NoMethodLeft | `Client::login` with the methods the server lists, `complete_login` |
| LoginV1, OtpV1 | the feilian_v1 login and the TOTP secret after it |
| Connect, Peer | `list_vpn`, the choice of a node, `fetch_peer_info`; their errors and the loop's retry |
| Open, Configure | `start_wg_go`, `config_wg`, or their netstack forms |
| Backup, Override, Restore | `set_dns` and `restore_dns` |
| Signal, Tick | the branches of the `select!`: a signal, `check_wg_connection` |
| Disconnect, Logout, Stop | the clean-up, in its order |
| Expire, DropLease, Handshake, Age, Rewrite | the server, the peer, time, and whoever else writes resolv.conf |

`retry = "text"` is the case in which an error that is no refusal has "logout" in
its text: the loop takes it for one. The choice of a node is nondeterministic, as
is every answer. What fails before the loop (reading the configuration, building
the client) changes nothing and is the same as a first request that fails. The
configuration file is whole or as it was; a torn one is module Profile's subject.
macOS' DNS manager keeps the servers in memory and is not modelled.

### NodeSelect: which node is used

`NodeSelect.tla` models `get_first_available_vpn`, `get_first_vpn_by_latency` and
`probe_vpn_nodes`: each sends a probe to every node at once and takes the answers
as they come. `outcome` fixes what each probe will measure (or that it fails),
`pending` which have not answered, so that every order of answers is a behaviour;
`results`, `next` and `fastest` are the functions' locals, `found` their result.

| actions | code |
|---|---|
| SelectBegin | the probes are sent |
| Compare | the loop of `get_first_vpn_by_latency`: the pair (latency, index) that is less |
| Record, Drain, DrainGap, TakeFirst | the loop of `get_first_available_vpn`: an answer is stored, then those from `next_index` on are taken until a gap or a success |
| ListNode | the loop of `probe_vpn_nodes` |
| SelectEnd, SelectReturn | no answer is outstanding; the function returns |

### ConnectVpn: from the list of nodes to the tunnel's configuration

`ConnectVpn.tla` composes `NodeSelect` and `Routes` as `connect_vpn_selected` and
`list_vpn_nodes` do. `step` is where the client is, `candidates` the nodes that
are probed, `chosen` and `endpoint` the node and `api_url.vpn_param`, `jar` whose
cookies were kept, `conf` the `WgConf`, `wish` the name and the id that the
filters ask for.

| actions | code |
|---|---|
| ListVpn, ListNodes | the request and the filters by name, id and protocol; the listing probes all |
| Probe | a step of NodeSelect |
| Listed, NoVpnAvailable, Choose | the result: a listing, an error, or the endpoint, its cookies and `save_cookie` |
| PeerInfo, ConnectFails, LoggedOut | `fetch_peer_info` and every request's failure and expiry |
| RouteStep, CarveEndpoint, RoutesRefused | a stage of Routes; the hole is the chosen node's address |
| Configured | the protocol, forced or the node's, and the `WgConf` |

### Routes: which addresses enter the tunnel

`Routes.tla` models the part of `connect_vpn_selected` that computes the
AllowedIPs, stage by stage: `Server` (either route mode), `Merge` (the user's
routes and domains), `Allow` and `Deny` (`apply_route_filters`), `CarvePeer`.
The operators are those of utils.rs. An address is its bits, so that a mask is a
number of bits to compare, and `carve_recursive` is unrolled: at each level it
keeps the half that does not hold the excluded block (`Sibling`). Lists are sets,
because order and duplicates decide no route; unparseable entries stay in the
lists and travel through the filters as the code lets them. `offered`, `allowed`,
`denied` and `peer` are history: the sets of addresses that were asked for, and
against which the routes are judged. The server's lists are taken as they are, whatever
the families in them. A peer given by name is not carved. Whether
the routes are then installed (`auto_setup_routes`), DNS and MTU are left out.

## Runs

| run | question | instance | result |
|---|---|---|---|
| supervisor | helper safety, its promise, its liveness | 2 specifications, both backends | passes, 1 026 states |
| supervisor_signal | does a termination signal that is pending while a request is served stop the helper? | same, shipped backend | violated (finding 1) |
| controller | do tunnels and record agree under faults? is the ledger of sessions kept? | 2 tasks, 2 modes, 2 sessions, 2 faults, gated | passes, about 490 000 states |
| controller_finish | does every command end, with its session accounted for? | 2 tasks, 1 mode, 1 session, 1 fault, not gated | passes, about 38 000 states |
| controller_absence | is an absent helper retryable? | 1 task, 1 mode | violated (finding 2) |
| profile | do secrets and identities survive failures and crashes? | 3 enterprises | passes, about 9 000 states |
| profile_key | is a key that was never stored an error? | 2 enterprises | violated (finding 3) |
| cli | are DNS, login and device given back, run after run? | 2 login methods | passes, about 129 000 states |
| cli_peer | does losing the server end the run? | 1 login method | violated (finding 4) |
| connect | is the node the strategy's, and are the routes the addresses asked for? | 3 lists of up to 3 nodes, 2 latencies, 8 lists of routes, addresses of 3 bits and of 1 | passes, about 486 000 states |
| window | one command at a time; does the window come to show the truth? | 2 modes, 2 invocations in progress | passes, about 300 000 states |
| launcher | one helper, reachable, and every call and orphan ends? | 2 desktops, 2 launches | passes, about 123 000 states |

Bounds. Two specifications tell a repeated start from a refused one; the helper
serves one client at a time, so more clients add nothing. Two tasks make every
pair of commands overlap; two modes make a stop of the wrong mode, a connection
on one helper while the other is up, and two independent sockets. `MaxConf`
bounds the sessions the server grants in a behaviour: two are one connection
after another, or one while another is being released. `MaxFaults` bounds
timeouts and helper deaths together: two give a late stop followed by a late
start. Symmetry (tasks, modes) is used in the safety runs only.

Properties worth a word. `SessionAccounted` says the server keeps a session
exactly while the desktop has it on record or in hand, apart from those whose
release failed: it is violated by any forgotten error path and by any
replacement of the record. `LedgerPromise` says the same of the steps: a session
leaves record and hand only through `disconnect_vpn`, and another is asked for only
then. Both hold for any overlap, from the mutex alone: the theorems say so without a
gate, whichever run checks them.
Neither notices a release that ends a newer connection than the one that was
stopped: for the ledger that is a session given back. What keeps it from happening
is the window's busy flag (`CommandsDoNotOverlap`, run `window`), and under it
`TunnelAccounted` says that no session is released while its tunnel is up.
A record of the other mode that is put back needs two modes, so it is `controller`
and not `controller_finish` that sees one dropped.
`TunnelAccounted` and `ActiveHasTunnel` need the window's discipline:
with a stop and a connect in flight together the first is violated, which is
why they are stated under `Gated`. `TunnelAccounted` exempts starts whose caller
gave up: the code lets them raise a tunnel later, for which there is no record.
`ActiveHasTunnel` covers the late stop: its
request is ahead of any later start in the same socket.

Three enterprises let one be replaced by the next and that one by a third, or by
the first again, each cut off anywhere; there are no other bounds in `Profile`.
`OwnSecrets` holds because a configure clears the optional entries before it
opens a session; it exempts a configure that was cut off, until a later one or a
reset has put the keyring in step: until then the code does read another
enterprise's optional secrets. `IdentityIsDurable` needs the order of reset's
deletions (the private key last, and the session gone in the same step) and of
configure's stores. `ForgottenStaysForgotten` needs the missing private key to be
an error; it also says that none of a forgotten enterprise's secrets is left in the
keyring, whatever the reset found there.

`Cli` bounds only the number of login methods: two make one fail before another
succeeds. `DnsIsKept` ranges over any sequence of runs killed at any step: a
backup that exists is the older one and must not be replaced; `DnsIsRestored` is
its other half, also for a run that found the backup of a killed one. Of what a run
gives back only DNS is checked: session, login and device are straight-line steps of
`ShutDown` whose requests may be lost, and no doc says what the server knows then.
`ExpiredSessionIsRenewed` exempts `retry = "text"`: there the run keeps the login
that the server refuses, and gives up at the next refusal.

In `connect` three bits allow every relation of two blocks (nested at both ends,
equal, siblings, disjoint, the whole family, one host) and one bit the smallest
family; the lists hold a non-canonical block and an entry that cannot be parsed.
Three nodes and two latencies give every order of answers, ties, a node that
answers before one that is listed earlier and one that fails in between; the nodes
are one of each family, one with a name, one of each protocol and one of a protocol
that is not known. `NoNeedlessWait` is the default strategy's other half: that the
best node is chosen would also hold of a client that waits for all of them.
`PeerBypassesTunnel` relates the two parts: whatever lists and filters are in
force, the address that is carved out is the one the tunnel goes to, and that node is
one that the user and the configuration wanted, although the choice is made on
indices into the filtered list.
`RoutesAreExact` would break with any filter out of order, an off-by-one in
`Carve`, or a configured IPv6 route on an IPv4-only session. Nothing is assumed of the
families in the server's lists: the code leaves the second list out as a whole where
there is no IPv6 address, and looks at no entry of the first, so an IPv6 entry in it
is asked for and routed either way. What holds of a server that keeps the families
apart is `ServersFamilies` (RoutesProofs): no IPv6 route is then taken from it
without an IPv6 address.

In `Launcher` two launches are two helpers of one desktop, or one of each of two
desktops, at the same path; each launch may be refused, killed or late. With
both spent a launch fails, as it may in the code. `ServingIsReached` says what
the launcher can promise: it does not hold with a second desktop, whose helper
removes what it finds at the path, nor with the late exit of a helper whose
desktop has closed; nor with a terminal, which lets a desktop forget a launch
that is still being authorised. A helper that was cut off is not replaced while
it runs (`SpawnIfNeeded`).

`Window` bounds the invocations in progress (`MaxCalls`): two are a poll and a
command, the polls of two modes, a reset that overtakes a refresh, a poll's
fallback next to a login. `CommandsDoNotOverlap` is what `Gated` takes for granted.
`SnapshotSettles` is the promise left to a window that shows whatever comes back
last: a stale answer may be on the screen, but not for good. `QrGoesAway` needs
`pollQr`'s fallback to `authApi.status`: a login that succeeded while its poll
reported an error clears the challenge, and every later poll is an error.

Observations from writing the window, of which no doc or test says otherwise.
`changeMode` is guarded by `isRunning` and not by `busy`: the mode can be changed
while a connect is on its way, and the window then shows a connection in a mode
that is no longer selected until the next poll, and disconnect asks the wrong
helper until the mode is changed back. A window that shows the home page when the
server has forgotten the session offers no login but through a reset. An error of a
refresh that is shown after a reset clears `authBusy` while a configure is in
progress, so a second configure can be sent; Profile and Controller assume it is
not.

### Findings

1. `SignalStopsHelper`: docs/architecture.md lists a termination signal among
   the events that clean the tunnel up. The property asks it of a signal that is
   pending while a request is being served (`phase \in Working`). The request runs
   to its answer without yielding; if `select!` then finds `accept_once` ready
   before the signal, the turn ends, its listener is dropped with the signal, and
   the next turn's listener never hears of it. The trace has the signal pending
   through a served request, dropped by `Answer`, and the helper, with the tunnel
   it raised or without, never exits.
2. `AbsenceIsRetryable`: docs/architecture.md calls a helper's absence a
   retryable state. When a helper ends under a recorded connection, stop and
   cleanup fail before they release the record, connect refuses because of the
   record before it would launch a helper, and reset asks to disconnect first.
3. `MissingKeyIsAnError`: docs/architecture.md makes a missing credential a hard
   error. A configure that is cut off between the profile and its private key
   leaves an earlier enterprise's key in the keyring, and the next load only asks
   whether there is one: it opens a session whose private key is not its own.
4. `ServerLossEndsRun`: src/README.md:396 has the client exit after the server
   disconnects. `check_wg_connection` takes a handshake time of zero for invalid
   and does nothing, so a session that is lost before the first handshake keeps
   the run, its routes and its DNS for ever. After a handshake the promise holds
   (`LostPeerEndsRun`, in the run `cli`).

## Fairness

Helper: a request being served runs to its answer (it is straight-line code);
an answer is written or the peer is gone; a silent connection is cut after ten
seconds. These are weak fairness. `Shutdown` and `ParentGone` have strong
fairness: they are enabled again in every turn while the loop waits, and
`select!` polls its branches in random order, so a branch that is ready turn
after turn is taken; the parent is looked for at the first poll of each turn.
Nothing is assumed of clients, parents or signals.

Controller: a ready task is polled and every await ends by itself (HTTP and
helper calls have timeouts), hence weak fairness of `Proceed` and of a helper's
`Serve`; tokio's mutexes are first come, first served, hence strong fairness of
taking either lock. Users owe nothing, except in `RetrySpec`, which asks what a
user who keeps trying can achieve.

Launcher: a call of `ensure_running` is polled and its sleeps and timeouts end; a
helper's start and end are straight-line code; a serving helper looks for its
parent every second (its loop's fairness is Supervisor's). Nobody has to
authorise a launch, close a desktop or call again.

Connect: a probe ends with its answer or with the HTTP client's timeout, and the
functions await nothing else (`Probe`).

Window: the timer that refreshes fires while its bound leaves room (`Refresh`); the
QR timer fires every two seconds, but in the model the bound may take its turn away
and give it back, hence strong fairness of `PollQr`. An invocation is answered and
its answer shown: the controller's commands end (`CommandsFinish`). Nobody has to
press a button, and no helper dies or stays silent for ever in `Quiet`, which is
the premise of `SnapshotSettles` and not a fairness.

Cli: the clean-up is straight-line code over requests with timeouts (`ShutDown`);
the five-minute watch has its turn (`Tick`); time passes, so a handshake that is
not renewed becomes stale (`Age`). Nothing is assumed of user, server or peer.

## Proofs

`SupervisorProofs`, `ControllerProofs`, `ProfileProofs`, `CliProofs`,
`RoutesProofs`, `ConnectProofs`, `LauncherProofs` and `WindowProofs` prove, for
every value of the constants:

| theorem | statement |
|---|---|
| SupervisorTypeOK, DeviceIsAlwaysActive, RunningIsAlwaysReal | the run's three invariants |
| SupervisorKeepsPromise | `Spec => Promise!Spec`, the refinement of TunnelHelper |
| ControllerTypeOK, SessionsAlwaysAccounted, AlwaysOneSession | type correctness and the session invariants, gated or not |
| ControllerKeepsLedger | `Spec => Ledger!Spec`, the refinement of SessionLedger, gated or not |
| NobodyWaitsInACircle, CommandsOnlyAdvance | the safety that `CommandsFinish` rests on: no circle of waiting over the mutex and the exchange locks, and a rank that only falls |
| AbsenceIsForGood | finding 2 for every instance: a stranded connection stays stranded |
| TunnelsAlwaysAccounted, ActiveAlwaysHasTunnel | the two invariants on tunnels, gated |
| CliTypeOK, DnsIsAlwaysKept, DnsIsAlwaysRestored, ExpiredSessionsAreRenewed | the run's four invariants |
| RunsAdvance | whatever the server answers, a run has at most 2 * MaxMethods + 31 steps of its own: the retry loop ends |
| RoutesTypeOK, RoutesAreAlwaysExact, HolesNeverAddOverlap | Routes by itself: type correctness, the exactness and its action property |
| ConnectComputesRoutes, ConnectChooses | `ConnectSpec => Spec` of Routes and `ConnectSpec => SelectSpec`: the composition implements both parts |
| ChoiceBest, ListComplete, NoWait, PeerStaysOutside, ConnectTypes | the run's other invariants, types included |
| SuitableExact | what the two filters leave: exactly the nodes that suit, in the server's order |
| ChoiceShrinks | every step of a choice leaves less to do: the safety that `ChoiceEnds` rests on |
| WindowTypeOK, CommandsNeverOverlap | type correctness and the run's invariant |
| PollingSettles | what polling makes of outdated answers: the safety that `SnapshotSettles` rests on |
| LauncherTypeOK, AlwaysOneHelperEach, ServingIsAlwaysReached, StaleAlwaysWasKilled | the run's four invariants |
| ProfileTypeOK, SecretsSurviveMigration, ProfileIsAlwaysRedacted, IdentityIsAlwaysDurable, ForgottenForGood, SecretsAreAlwaysOwn | the run's six invariants |
| ResetLeavesNothing | a reset that ends leaves no profile, no session and no keyring entry |

Helper. `DeviceIsActive` speaks of waiting phases only. The inductive invariant
adds what holds inside each phase of a request: in `starting` nothing is active,
with the shipped backend the device is down until it is opened and `running` is
false until it is configured, in `stopping` and `cleaning` the device is still
the record. The refinement then needs the phases' facts to see that the step
that answers is the abstract step.

Controller. `SessionAccounted` is not inductive: that a recorded session is
never overwritten or dropped depends on who holds the mutex. `IInv` adds: the
mutex's holder is the one task in a place that holds it (`LockInv`); while it is
held nothing is on record (`HeldInv`); an owner has a session in hand (`OwnInv`);
the server never grants a session twice (`FreshInv`); without a login, and while
an enterprise is being configured, nothing is on record, nobody holds the mutex
and there are no nodes to connect to nor a challenge to poll for (`QuietInv`).
Then what the server keeps and nobody has given up is what the holder has in
hand, or else what is on record (`LiveInv`), and both properties follow. Each
action has a lemma, and the theorem's step is a case split over Next. The ledger's
steps are read off the same invariant: with `LiveInv` in both states, what a step
does to `live`, `stray` and `nextConf` tells which step of the ledger it is, and
only the grant, the release and the failed start are any.

A command that waits for an exchange lock waits for a command that awaits that
helper's answer, and while one is awaited there is a request in the socket of a
helper that is up (`AwaitedInv`); a command that waits for the mutex waits for its holder, who
can wait for an exchange lock but never for the mutex. So a chain of waiting has at
most three links and ends at somebody who can go on (`NoCircularWait`), and every
step of a command lowers its `Rank`: what is left of `CommandsFinish` for TLC is
fairness. `Stranded` is closed under every step for the same reasons: with a record
and its helper gone, connect and reset are refused for the record, and a stop or
cleanup needs the helper that only connect launches.

The invariants on tunnels need a second one on top of it, `TInv`, for the gated
controller: what is in a socket was given up, but for the last request when its
answer is awaited (`QueueInv`). An answer therefore comes after everything that was
lost before it, so a start that was answered has its tunnel and leaves no late
request behind it (`RecordInv`), a stop that was answered has left none but that of
a late start (`ReleaseInv`), and from the record on the only requests that can
still change the tunnel are stops of this connection (`ActiveInv`, `EndInv`). A step
that raises no tunnel keeps all of it (`NothingRaised`), which leaves the answers to
a start and a stop, and the late requests, to be looked at one by one.

Profile. None of the five properties is inductive: each depends on how far the
command in progress has come. `IInv` adds which command is at which place
(`PlaceInv`), who has a session then (`WorkInv`), whose the file on disk is
(`FileInv`), which entries a load has found and where (`LoadInv`), that a secret
owed is the profile's or the session's own (`OwedInv`), that the key in use or
about to be is in the keyring (`KeyInv`), that a forgotten enterprise's key is
gone before it is forgotten (`LeftInv`), that nothing in memory is a forgotten
enterprise's secret and that a reset reaches the profile with the keyring empty
(`TraceInv`), and that as long as no
configure was cut off the keyring holds this profile's secrets alone (`StepInv`).
One lemma per action again, with one step per part.

Cli. Three independent strengthenings: `LoginsInv` counts the logins a run can
have made by its place and its retry (a second refusal comes after a login, and
there is no third login); `RefusalInv` keeps the end of the run in step with that
count; `DnsInv` says where the user's resolv.conf is at each step of taking and
giving back, so that our own file can be in the backup only when the user's was
lost before. `RunsAdvance` gives every place a rank; going back to the login costs
the one retry, which weighs more than the whole way through.

Routes. The lemmas reduce blocks to sets of addresses: two blocks of a family are
nested or disjoint (`Nested`); an intersection covers the intersection
(`IntersectExact`); a carving covers the difference, in blocks that do not
overlap (`CarveExact`), because an address of the outer block outside the inner
one differs from it at a lowest bit, and lies in exactly the sibling of that
level; then subtraction (`SubtractExact`), and both over whole lists. The stage
invariant says that what has not been asked yet excludes nothing, and each action
is one application of these lemmas. Widths are parameters: 32 and 128 are
instances; so are lists that mix the families, and `ServersFamilies` says what follows
from lists that do not.

Connect. Each step of the client is a step of Routes, of NodeSelect, or of neither,
so what was proved of the routes holds of the composition without another proof.
`SelectInv` says what the three loops know half-way: a node that has answered and is
worse than `fastest`, a prefix of the list that has failed, a result that is its own
node's outcome. `PeerStaysOutside` needs that the chosen node, the endpoint and the
cookies are one node from the choice on, that the hole which Routes records is
that node's address, and that the candidates are the nodes that suit (`SuitableExact`).
The filter is a recursive function over the list; the library's induction theorem
takes an operator and is of no use to the provers, but the least element of a set of
naturals is not, so induction is done on the set of lengths at which a claim fails
(`LeastNatural`, `InductionUpTo`).

Window. `CommandsDoNotOverlap` is inductive once the answers that a command may have
are known: a command leaves `calls` only by being shown, and that is where `busy`
is cleared. `PollingSettles` speaks of `Behind`, the modes of which an answer is on its
way or there that would show something untrue: polling adds none, an answer that is
shown either is true or takes its mode out, and with none left the truth stays. It
uses that one status of a mode is in progress at a time (`OneStatus`, the bound that
`Status` states).

Launcher. `OneHelperEach` needs the slot to name the one helper of its desktop
that has not ended, and `try_wait` to say so (`SlotInv`); `ServingIsReached` needs
the path's owner from the bind on (`ReachInv`): who takes the path away is another
live helper, hence another desktop's. `StaleWasKilled` needs that every end but a
kill leaves the path behind it empty, whoever's socket that was (`StaleInv`). The
ends of a process share one lemma, its moves another.

The assumptions are the modules' own `ASSUME`s only: `SupervisorAssumption`,
`ControllerAssumption`, `ProfileAssumption`, `CliAssumption`,
`RoutesAssumption`, `SelectAssumption`, `ConnectAssumption`, `LauncherAssumption`,
`WindowAssumption`.

Model-checked only: liveness (`ParentExitStopsHelper`, `ConnectionsEnd`,
`CommandsFinish`, `LostPeerEndsRun`, `OrphansEnd`, `EnsureRunningEnds`, `ChoiceEnds`,
`SnapshotSettles`, `QrGoesAway`), since temporal fairness is out of the prover's
reach. Of `CommandsFinish`, `ChoiceEnds` and `SnapshotSettles` the theorems above
prove what is safety; what they leave to TLC is that those who can step do. The
violated properties are TLC's too, but for `AbsenceIsForGood`.

## Not modelled, and why

Windows' pipe server, elevation prompts and packaging are operating-system
calls around the same state. Payloads (TunnelSpec fields, JSON) are abstracted
to identities. The server is an environment that grants, refuses or fails.
A crash of the desktop ends the controller's state and, by
`ParentExitStopsHelper`, the helpers; what it leaves on disk is module
Profile's subject, and what becomes of its helpers' sockets Launcher's. Profile
leaves out the cookie file (a torn one makes every `Client::new` fail) and the
command line's own profile, which keeps its secrets in plain text by design. Two
desktops meet in Launcher only, not on one profile or one VPN key. Cli leaves out
macOS' networksetup, argument parsing and the escalation of privileges; the
keep-alive report is not called by either front end. WireGuard itself, the UAPI
text and TOTP's arithmetic are external or plain computation.

## Plan

What is left, in this order:

1. A composition of Launcher with TunnelHelper, so that Controller's launch step is
   shown, not assumed, and of Window with Controller, so that `Gated` is a theorem
   of the composition.
2. The cookie file in Profile: a store that is torn by a crash makes `Client::new`
   fail until a reset.
3. Windows' accept loop and process ids as a second transport of Launcher and
   Supervisor; macOS' DNS manager as a second one of Cli.
4. `SessionState`, if the desktop comes to use it; TOTP's slots; the codec's size
   limit and versions as an implementation of the call Controller assumes.
