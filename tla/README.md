# Proxy Rule Manager: specifications, model checking and proofs

Proxy Rule Manager is a Windows desktop program (Go, with a Wails window). It splits
traffic in two ways. *WEB*: browsers are led by a PAC file to a local HTTP/CONNECT
proxy. *APP*: TCP connections of chosen applications are captured with WinDivert and
served inside the program. Both ask one ordered list of rules whether a connection goes
`PROXY`, `DIRECT` or `REJECT`. This directory holds TLA+ modules that follow the Go
code, TLC configurations that check them on small instances, and proofs about them
checked by TLAPS.

Paths below are relative to the repository; `service_windows.go` alone is
`internal/tun/service_windows.go`. PROJECT.json maps each definition to the lines it
models.

## 1. Inventory

The App object (`app.go`) owns every service. The window calls its methods, each in a
goroutine; `startup` and `shutdown` bracket them; a guard goroutine ticks every three
seconds (`app.go:158`). The services know nothing of each other: they get the rules, the
log and the settings from App.

| Part | State it keeps | Operations | Hard because | Module |
|---|---|---|---|---|
| Redirect table of the capture (`service_windows.go`) | maps from local and redirect ports to connections, listeners, the installed packet filter, `running`, `stopCh`, `wg` | Start, Stop, socket loop (register, unregister), network loop, reaper, serving goroutines, 15 s timers, `refreshNetworkFilter` | six kinds of goroutine, two locks taken one after the other, port reuse, Stop at any moment | `CaptureTable`, `CaptureService` |
| Packet rewriting (same file) | none | two lookups, swaps of addresses and ports | reuse of ports; entries without their reverse entry | `PacketReflect` |
| A captured connection (same file, `app_routing.go`) | bytes read, decision, two pipes | read the first bytes under a deadline, find the host, decide, dial, copy | the network cuts anywhere, deadlines, half-closes, resets | `AppRoute` |
| System PAC ownership (`app.go`, `internal/winproxy`) | three registry values, the user's settings in memory and in the file, AutoEnableSystemPac | enable, disable, pause, settings, guard, startup, exit, crash | registry and file are written piece by piece; guard and window are not locked against each other | `SystemPac` |
| Rule list (`app.go`, `internal/config`, `internal/rules`) | ordered rules with ids | upsert, batch, delete, move, import, save and load | every change is rewritten: families, duplicates, built-ins, the fallback | `RuleList` |
| Life of the PAC server and the proxy (`app.go`, `internal/pac`, `internal/proxy`) | Server objects, listeners, `pacRunning`/`proxyRunning` | start, stop, reset, change of address, import | objects replaced while goroutines of the old ones run; shutdown that times out | `LocalServer` |
| Forward proxy requests (`internal/proxy`) and traffic log (`internal/logs`) | handlers, copies, log entries | CONNECT, plain request, add, update, cut, clear | half-closes and resets in any order; entries finished after the log was cleared | `WebProxy` |
| Application monitor (`internal/appmonitor`) | tracked connections, published snapshot, log entries | Start, Stop, settings, poll loop | system tables read without the lock, incomplete listings, Stop beside a refresh | `AppMonitor` |
| Configuration store (`internal/config`) | configuration, file | Get, Save, Update | Save is three steps; a crash between them tears the file | in `SystemPac`, `RuleList` |
| Outbound firewall rules (`internal/proxyguard`) | rules in Windows' firewall, the status shown | prepare, apply, remove | one script removes all rules before it resolves the programs of the new ones, and may stop anywhere | `Outbound` |
| Routes to the upstream proxy (`internal/netroute`) | the targets and gateway of the last status, the system's route table | reconcile, clear | what is to be removed is known from memory only; scripts cut short, crashes | `Outbound` |
| The App's calls on servers and outside (`app.go`) | the call under way, its steps and its error | save, import, start, stop, pause, refresh, adapters, exit | each call reaches the parts in its own order; some stop at the first error, some go on | `AppCalls` |
| Adapter address cache (`internal/netadapter`) | answers with expiry, queries under way | lookup, fallback, clear | callers that join a query, a query that answers after the cache was emptied | `AddressCache`, `FreshAddress` |
| Capture's life in the App (`app.go:458-500`, `810`) | `tunRunning`, options | start, stop, reload on a change | a reload beside a running Stop | not modelled |
| Process matching, profile defaults, external components, diagnostics, main, window | none that changes | pure functions, file and shell I/O | | not modelled |

What has to be right, part by part:

* *Redirect table*: no listener stays open without its entry, the reverse map never leads
  to a dropped connection, packets of two connections never mix, nothing is left when
  Stop has returned, abandoned connections leave, Stop gets on.
* *Captured connection*: nothing of the first bytes is lost, the whole name decides, every
  connection is decided in bounded time, ends are passed on only when real.
* *System PAC*: the user's own settings are in the file before they are replaced, and are
  never PRM's own; the guard repairs what others change; a pause holds.
* *Rules*: the fallback is last and only once; loading a saved list changes nothing; an
  edit takes effect, makes no twins, and leaves other hosts alone.
* *Local servers*: shown as running means serving the configured address; shown as
  stopped means nothing listens.
* *Requests and log*: the window shows the end of the log, active entries are those of
  requests under way, a direct tunnel loses nothing to a half-close, tunnels end.
* *Firewall and routes*: PRM knows every route it made, the guard shown is the guard in
  force, a call that returned no error has done its work, after whatever failed before.
* *Address cache*: no answer is older than an entry's life and a query's; every caller
  gets one, or an error.
* *Monitor*: active entries are the connections followed, the count shown agrees, entries
  are finished when and only when they should be, Stop leaves none active.

PROJECT.json lists the places where this can go wrong, with the properties that watch them.

## 2. Modules

A module models a component; `MC<module>` gives its constants values for TLC;
`<module>_proofs` holds the theorems. Steps are cut where another goroutine can get in
between: a critical section, a blocking call, one registry call, one step of a file write
is one action. Comments before the actions name the functions. Operators that stand just
before a definition and are used nowhere (`UnlinkForgotten` before `Unlink`) are plausible
mistakes in it; PROJECT.json pairs each with the property it breaks.

**CaptureTable.** `connections`, `byRedirect` are the two maps; `localPort`,
`redirectPort`, `listening` the fields of each `redirectConnection`; `phase` where Start
and Stop stand; `pc` the socket loop, the reaper and the timers; `serve` the serving
goroutines counted in `wg`; `snapshot` a filter built under `mu` and not yet installed
under `networkMu`. Objects are never reused, ports are: a new listener gets any port no
open listener has. Time is abstract: a deadline may pass whenever it is armed. The 45 s
cutoff of the reaper (`service_windows.go:691`) comes after the 30 s accept deadline, so
only lapsed connections are stale. WinDivertOpen may fail in a refresh. Start and Stop are
called one after the other.

**CaptureService** is what CaptureTable promises of each connection, without tables, ports
and goroutines: offered, accepted, tunnelled and gone, each at most once and in this order,
and none left when the service is off. `ServedInOrder` in CaptureTable is its specification
under a refinement mapping, `on` from `phase` and `life` from the table and `serve`.

**PacketReflect** extends CaptureTable with the rewriting as an operator on the table in
one state; the network loop's two lookups are two critical sections in the code, and a
table that changes between them is not distinguished from one that changed before.

**AppRoute** takes one connection on from CaptureTable's `accepted`; its stages `refused`,
`tunnel` and `finished` are CaptureTable's. Bytes are units as the network delivers them;
some carry the host or a part of it, and a host is known by the units it came in. A TLS record is read when it is complete, an HTTP
header line even when it is cut. What the rules say of a host, and of the address, are
constants, which RuleList stands for. A connection through a SOCKS5 upstream is not a
`*net.TCPConn`, so it is closed where others are half-closed (`wrapped`).

**SystemPac.** `reg` is the three registry values, written one at a time
(`internal/winproxy/windows.go`); `saved`, `auto` the configuration in memory, `file` on
disk; `held`, `snap` what a thread has read and goes on to use. A save reads the
configuration, truncates the file and writes it, in three actions, and `Crash` may come
between any two. Two threads: the window's calls one after another, and the guard.
ImportConfig replaces `saved` and `auto` by whatever the chosen file has (`Imports`), and
saves. `dropped` is a history variable: an import took the user's own settings away while
PRM's PAC was applied, or brought PRM's PAC as the user's settings.

**RuleList.** A call changes the list under the store's lock in one action: the expansion
to a domain family, the change, `mergeDuplicateRules`, and always `EnsureInvariants`. Type
and value of a rule are one pattern; which patterns match a host is a constant. Ids are
numbers, 0 the empty one. ImportConfig takes whatever list a file has: rules without an id,
and rules that share one, which nothing in the code looks for; `Numbered` says of a list
that it has none of these. The loops of the code are recursive functions on the positions
of the list (`Keep`, `WithIds`, `Apply`).

**LocalServer** models the PAC server and the forward proxy as one, with every Server and
`http.Server` object made and every socket opened, the goroutine that asks its object for
the `http.Server` when it first runs, a probe that may fail, and a shutdown that may give
up after three seconds. Listening may fail at any time, since another program may have the
port. Its actions are those of a caller; AppCalls is where they are run.

**Outbound** has firewall and routes as sets that outlive the program, and what the program
remembers of them (`shown`, `known`) as variables a restart empties. A PowerShell script is
a sequence of actions (one rule, one route each) that may stop after any. A removal leaves
any of what it was to remove, with an error or, where the script drops the error
(`-ErrorAction SilentlyContinue`), without. `call`, `todo`, `failed` are the App method under
way, its steps, and whether one has failed; `Strict` names the methods that return at the
first error. Four variables are history: `returned`, the call that returned last without an
error; `lost`, the routes no status names any more; `stuckRules` and `stuckRoutes`, what the
last script that set up rules, or routes, was to remove and passed over. The properties
except these three sets and nothing else. Gateways and the nodes the upstream proxy is seen
to talk to are any. PrepareConfig may find programs; the save of what it found may fail.

**AppCalls** composes LocalServer and Outbound: an App method starts in both at once, goes
through the server's part, and then through its steps outside. A start that fails ends
SaveSettings before the firewall is touched; a stop that gives up is noted by the pause
and ignored by SaveSettings. A crash or an exit restarts both, with the settings in memory
unless a save has failed (`FileHas`).

**FreshAddress** is what the cache promises to those who dial: an answer is an address the
adapter has, or had at most `MaxAge` ago. **AddressCache** is the code: entries with their
expiry, `inflight` with the caller whose query runs, and each caller from
`buildDirectDialer` to its answer, by way of the second lookup when the first one fails.
The clock ticks only when no goroutine can go on without it, and a query ends at its
deadline. `AnswersAreFresh` is FreshAddress under the mapping `asking <- callers not idle`.

**WebProxy** models handlers from request to `finishLog`: a CONNECT with its two copies,
their errors, half-closes and closes, or a plain request, and the two lists of the log. A
reset by a peer is an error of the tunnel or not, as `isConnClosedErr` reads the text of the
system's message.

**AppMonitor** models the poll loop step by step beside connections that come and go, a
listing that fails or is incomplete, changed settings, a cleared log, Start and Stop.

Composition: PacketReflect is built on CaptureTable and checked in its run. AppRoute and
CaptureTable meet in the stages above. LocalServer and Outbound meet in AppCalls. SystemPac
has the servers as one boolean, `chainUp`, which LocalServer details. WebProxy and AppRoute
both take the verdict RuleList defines. FreshAddress stands for AddressCache, and
CaptureService for CaptureTable.

## 3. Runs

All runs except the two marked end without an error. Deadlock is not checked: the program
may stop, and a bounded model does when its bounds are used up. `TypeOK` is the type
invariant; the other modules have the types they need in the inductive invariants that are
checked or proved.

| Run | Question | Bounds |
|---|---|---|
| `capture_safety` | `IInv` (the inductive invariant), `ListenerRegistered`, `ReverseSound`, `NotCrossed`, `StopQuiescent`, and `ServedInOrder`: does the table implement CaptureService? | two connections, 2 + 2 ports, two Starts, opens that fail; ports and connections symmetric |
| `capture_liveness` | `StopProgress`, `LapsedLeaves` | two connections in turn on one port of each kind, one Start |
| `capture_stale_filter` | *violated*: `FilterComplete` | as safety, one Start, no failing opens |
| `app_route` | `SentInOrder`, `HelloDecides`, `EndsAreReal`, `Settles`, `Finishes` | six kinds of first bytes of at most three units, two read for the host, five modes, with and without an IP-CIDR rule, one unit back |
| `pac_manual` | `WriteAhead`, `SavedIsUsers` | window only, two kinds of user settings, two outside changes, two crashes, registry writes fail; imports without saved settings, with a user's, and with PRM's PAC |
| `pac_guard` | `GuardHeals` | window and guard, one outside change, reads and saves fail, one configuration to import |
| `pac_pause` | *violated*: `PauseSticks` | window and guard, nothing fails |
| `rules` | `TypeOK`, `FallbackLast`, `RestartKeeps`, `EditIsLocal`, `ChangeApplied`, `NoNewTwins` | three patterns, a family of two, two targets, four imports, five rules, four calls |
| `server_calls` | `ServesConfigured`, `StoppedIsClosed`, `RoutesKnown`, `GuardShownIsReal`, `ReturnedIsDone` | AppCalls: three calls of the window beside startup, one import or failing save, one crash, one program, two listen addresses, adapters, nodes and gateways, three policies, one rule or route at a time whose removal fails without an error; gateways symmetric (3 million states) |
| `web_proxy` | `TypeOK`, `WindowIsTail`, `ActiveIsHeld`, `DirectDelivers`, `TunnelEnds` | a CONNECT and a plain request, one byte each way, log windows of one and two |
| `monitor` | `ActiveIsTracked`, `ShownAgrees`, `StopSettles`, `OnlyGoneFinish`, `GoneIsFinished` | two applications with a connection each, four events |
| `address_cache` | `IInv` (the inductive invariant), `AnswersAreFresh`: does the cache implement FreshAddress?, `Answered` | two callers, two addresses, entries of two ticks, queries of one, five ticks, one change of an address |

Why the bounds are enough. The hazards of the table are between two connections that
share a local or a redirect port, or between one and Stop; two Starts let what the first
run left meet the second. All connections of the run have the same remote, so nothing but
the ports tells them apart. A name in two pieces before, at and beyond the limit covers
the cases of the sniffing loop. Two crashes allow one while the effect of the first is
repaired. Two domains of a family beside one rule of the user's are what the merging
distinguishes; four calls are more than any rewriting rule looks back. A second address
and an old object are what a restart can confuse; of three calls one fails, one has to
repair what it left, and one comes after. Of the three policies one wants nothing, one
wants routes it cannot make, one wants a guard whose programs it has to find, and any two
differ in adapter, programs or nodes. One program suffices, since a script treats each the
same and the policies already differ in which they have; one removal passed over meets every
step that comes after it, and the proofs have any number. An entry of the cache can be emptied, stored by the
query that ran meanwhile, and expire within five ticks. One byte before and one after an
end is what a half-close can lose. A second connection is what a refresh may mistake for
the first.

### Fairness

* `CaptureTable!FairSpec`: goroutines that can run do, deadlines and timers pass, the
  reaper's ticker goes on (strongly, for a connection it keeps finding stale). Nothing
  makes applications connect, send or close.
* `AppRoute!FairSpec`: goroutines run, deadlines pass, a dial returns. Nothing is asked
  of either end.
* `SystemPac!FairSpec`: the guard ticks; probes and registry calls that can succeed do
  when repeated. Nothing is asked of the window.
* `WebProxy!FairSpec`: handlers and copies run; a peer told the end of the other stream
  ends its own. Without that `TunnelEnds` cannot hold: the proxy sets no idle timeout.
* `AppMonitor!FairSpec`: the goroutine and its ticker run, a listing repeated again and
  again succeeds, a Stop that was called goes on.
* `AddressCache!FairSpec`: a goroutine that can go on does; a script ends, by its deadline
  at the latest. Adapters need not change and nobody has to ask.

### What the violated properties show

* `FilterComplete` (`service_windows.go:560`): a filter is built under one lock and
  installed under another. Of two refreshes that overlap the older may be installed last,
  and a registered connection is not intercepted until the table changes again.
* `PauseSticks` (`app.go:179`): pausing does not clear AutoEnableSystemPac, and the guard
  applies the PAC again at its next tick.

### Known deviations that no run shows

These were met while modelling. Those with a name are defined in their module and fail
when put in place of the run's properties.

* `CaptureTable!StopReturns` (under `QuietSpec`): the reaper reads `stopCh` anew for each
  select; after Stop has emptied the field it waits on nil and Stop waits for it.
  `AppMonitor!StopReturns`: the same in the monitor.
* `CaptureTable!HandleClosed`: a refresh that checked `running` before Stop opens a handle
  after it. `CaptureTable!TunnelKeepsEntry`: the 15 s timer removes by local port what may
  by then be another connection. `CaptureTable!ListenerReachable` and
  `PacketReflect!RoundTrip`: removing an entry whose redirect port was reused removes the
  newer connection's reverse entry, and its answers are no longer rewritten.
* `AppRoute!HostIsWhole`: a Host header cut by the network decides on its first half.
* `SystemPac!ExitDisables`, `SystemPac!RestoreExact`: an exit while the guard enables
  leaves the PAC on; SavedWindowsProxy is set once, so later settings of the user's are
  not what disabling restores. Also `SavedIsUsers` with the guard: both threads may save
  what the other has just written. A failing *save* in `EnableSystemPac` is not looked at
  (`app.go:550`), so `WriteAhead` is checked for failing registry writes only.
* A configuration exported before the PAC was ever enabled has no settings to restore.
  Imported while the PAC is applied (`app.go:1008`), it leaves nothing to put back, in memory
  and in the file, and the next EnableSystemPac saves PRM's own PAC as the user's. A file
  that has PRM's PAC as the saved settings is taken as it is. `WriteAhead` and `SavedIsUsers`
  say nothing after such an import (`dropped`); without that exception both fail.
* `RuleList!EditReplaces` (`internal/rules/catalog.go:157`): a rule of a built-in family
  loses its id when its form is saved; with another target the old rules stay, in front.
* LocalServer with the guard among the callers: `StoppedIsClosed` fails, since Start may
  run on an object the window replaces. After an import, or a save of settings that fails,
  memory and services disagree; the variable `drifted` excludes these from the invariants.
* Through an upstream proxy a tunnel cannot be half-closed (`internal/proxy/server.go:385`,
  `service_windows.go:781`): `DirectDelivers` names DIRECT, `EndsAreReal` excepts SOCKS5.
* Outbound excepts from `RoutesKnown`, by `lost`, the routes the code forgets: a removal cut
  short empties the status (`internal/netroute/routes.go:29`), a removal whose error the
  script drops is taken for done (`internal/netroute/upstream_proxy_windows.go:159`), and a
  crash or an exit whose removal fails loses the status. A later call replaces only those to
  a target it wants again, and there too an old route that cannot be removed stays beside the
  new one without an error (line 137).
* The scripts for the firewall drop errors in the same way
  (`internal/proxyguard/service_windows.go:137` and `172`): old rules may stay beside those of
  a guard shown as applied, or after a guard was switched off or paused, and the call returns
  no error. `GuardShownIsReal` and `ReturnedIsDone` except just these (`stuckRules`).
* After a pause RefreshStatus makes the routes again (`app.go:647`) and
  SetNetworkAdapterEnabled the firewall rules (`app.go:1118`), for the settings still ask
  for them; `frontend/src/App.tsx:748` says that a pause takes the restriction back.
  `ReturnedIsDone` speaks of the call that returned last, so it holds.
* SaveSettings whose firewall step fails does not reach the routes (`app.go:911`); an error
  of PrepareConfig leaves the status of the guard before it; RouteAdds removes host routes
  to a node that the user made; an adapter plugged in later is not blocked until the next
  call. `foreach ($pid in $pids)` in `internal/proxyguard/defaults_windows.go` assigns a
  read-only variable of PowerShell's. Two calls of the window at once are not modelled:
  App takes no lock around them, and two route scripts that overlap forget routes.
* AddressCache: emptying the cache leaves queries alone, so an answer from before is stored
  afterwards. `AnswersAreFresh` bounds its age all the same, by `TTL + QueryTimeout`.
* The capture's life in App (`app.go:458`, `810`): two rule changes at once reload it twice;
  the second finds `running` false while the first Stop waits, starts anew, and the first
  Stop then empties the new run's maps (`service_windows.go:309`). Importing a
  configuration leaves a running capture on its old rules (`app.go:1006`).
* Not in any model: the reader that `Hijack` returns is dropped
  (`internal/proxy/server.go:203`); upload and download counts are exchanged
  (`internal/proxy/server.go:223`); hijacked tunnels outlive Stop; `Store.all` is
  unbounded; importing a configuration does not tell the monitor its applications.

## 4. Proofs

Theorems hold for every value of the constants that satisfies the modules' named
assumptions.

* **CaptureTable_proofs**: `Invariance`, `NoOrphanListener`, `ReverseLookupSound`,
  `StopLeavesNothing`. Assumed: identifiers are distinct from "absent". The invariant is
  `IInv`. That every open listener has its entry is not inductive alone. An entry's object
  must sit under its own port (`EntryFields`), an object not created yet must be nowhere
  (`ServedCreated`), and for Stop an open listener must have a goroutine that `wg` counts
  or that the socket loop is about to start (`ListenerOwned`, `Registering`). The lemma
  `UnregisterKeeps` serves the CLOSE event and the timer.
  `TableServes` is the refinement: CaptureTable's Spec implies CaptureService's under the
  mapping. Each action is shown to be a step of the abstract Next or a stutter; that Stop
  can return only with no connection left needs `IInv`.
  `ReflectionNotCrossed` needs `IInv` and `ReverseOwned`: the reverse entry of an open
  listener's port is its own or missing. Registration keeps it because the system gives no
  port twice while open; everything else only removes.
* **AppRoute_proofs**: `NothingLost`, `OnlyRealEnds`, from `PassedIsTaken`: while the pipe
  copies, what was passed on is just what was read; the read deadline is set only while
  the host is looked for. `WholeNameDecides` (`HelloDecides`): what the loop has read is
  the first `n` units, so a name in one piece is found whole or not at all; it rests on the
  same invariant and on what each stage has already found.
* **SystemPac_proofs**: `TypeCorrect`; `SavesBeforeApplying` and `SavesOnlyTheUsers` under
  `ManualUse` (the user never sets AutoEnableSystemPac, only registry writes fail). The
  invariant `ManualInv` says that the window is alone (`Alone`), works with what is saved
  (`InHand`), and that nothing of PRM's reaches the registry before the user's settings are
  in memory and then in the file (`SavedFirst`); the last two until an import takes these
  settings away (`dropped`). `AloneStep` and `SavedStep` show the parts one by one.
* **AppMonitor_proofs**: `MonitorTypes`, `EntriesFollowConnections`, `CountAgrees`,
  `StopLeavesNoneActive`, from `MonitorInv`, which adds where the loop and Stop can be
  together (`Phases`). `SteadyKeepEntries` (`OnlyGoneFinish`) needs `SteadyFound` besides:
  a connection that lived and was watched since the refresh began is in its listing, if
  that is complete, and in what the later steps of the refresh keep.
* **RuleList_proofs**: `RulesWellFormed` is the invariant `RuleInv`: every rule has an id,
  the fallback is there once and last, every built-in domain has a rule. It holds for every
  list imported. From it `TypeCorrect`, `FallbackStaysLast`, `RestartsKeep` (the rewriting
  of a well-formed list is the list itself), `TwinsAreImported` (`NoNewTwins`),
  `EditsAreApplied` (`ChangeApplied`) and `EditsAreLocal` (`EditIsLocal`). What a loop
  returns is shown by induction on the positions: `Induction` and `Recursion` are proved
  from the well-foundedness of `<`, for sets in the place of predicates. `KeepPicks` says
  that a loop keeps an ordered selection, `EnsureRebuilds` what the rewritten list consists
  of, `NewIdIsNew` that an id is left to give out (a list of n rules cannot use n + 1).
  `ChangeCases` describes one application of a rule as a replacement, a switch or an
  addition; `NoWorse`, `Has` and `Alike` are what these three and the rewriting keep, so
  that they hold at the end of a call whatever the size of the family.
* **AddressCache_proofs**: `FlightsInvariance` (`IInv`) and `CacheKeepsPromise`
  (`AnswersAreFresh`, the refinement). `OneQueryPerKey` says that `inflight` has exactly the
  queries that run; `AgesBounded` how old what is kept, found and handed over can be at each
  place. The bound of an entry is its `expiresAt`, not its age, since a query may store
  after the cache was emptied.
* **AppCalls_proofs**, on Outbound alone: `OutboundInvariance`, the invariant
  `OutboundInv`. `RoutesKnown` is not inductive: in the middle of a script the status names
  neither the old nor the new routes. `RoutesSoFar` and `GuardSoFar` say what each stage of a
  script has made, beside what its removal has passed over (`InForce`), `InPlan` which steps
  a call has still to do, `CallSoFar` what the earlier step of a call has left for the later
  one. Assumed: `OutboundConstants`.
  On the composition: `AppStaysOutbound` shows that the composition does outside only what
  Outbound's Next allows, so that Outbound's invariant holds of AppCalls; from it
  `RoutesStayKnown`, `GuardStaysReal` and, with `PauseSoFar` (where a pause finds the
  server), `ReturnedStaysDone`. `RunningServesConfigured` and `StoppedLeavesNothing` need
  `ServersSoFar`: an open socket belongs to an object whose `http.Server` is the one that
  serves it (`ServedByTheirOwn`), one that is live is the current object's listener
  (`OnlyTheCurrent`), and while the service runs the current object has its listener at the
  configured address (`CurrentIsUsed`, `ConfiguredIsCurrent`). Assumed:
  `AppCallsAssumption`, which has the window as the only caller; with the guard as a second
  one the theorem is false (see above).
* **WebProxy_proofs**: `TypeCorrect`, `LogWindowIsTail`, `ActiveConnectionsHeld`,
  `DirectTunnelDelivers`. `TailOf` says by positions what `IsSuffix` says by reversal;
  lemmas show that appending, cutting and updating keep it. `HandlerSoFar` and
  `DirectSoFar` say what a handler has at each place: a direct tunnel that nobody resets
  has both sides open until both copies have returned, so that none of them can fail.

Every invariant and every action property that a run checks has its theorem, with
`SavesBeforeApplying` and `SavesOnlyTheUsers` under `ManualUse`. The named assumptions say
of the constants what the code fixes (no two built-in domains are one, a family consists
of built-in domains, identifiers differ from "absent"). Two of them also say who acts:
`AppCallsAssumption` has the window as the only caller, and `UserSettingsAssumption` has a
user set Windows' proxy to anything but PRM's own PAC address. An imported rule list is
any list, and an imported configuration has any saved settings; `ManualUse` leaves out only
those that switch AutoEnableSystemPac on.

Only model-checked: liveness, since fairness and ENABLED are beyond the prover, that is
`StopProgress`, `LapsedLeaves`, `Settles`, `Finishes`, `GuardHeals`, `TunnelEnds`,
`GoneIsFinished` and `Answered`. The two violated properties are counterexamples and have
no proof.

## 5. Not modelled, and why

Byte formats (TLS, HTTP, IPv4, checksums), text matching of hosts and processes, wording
of logs: no control of their own. Installing components, diagnostics, adapter listings,
status files: I/O without state. The cache of process names and the firewall rules against
QUIC that the capture adds (`ensureUDPBlock`, recorded by file name and kept after a crash)
change no connection of the table. The capture's life in App is not modelled: its steps are
the Start and Stop that CaptureTable has, one after the other, and the overlap of two
reloads is described above. The React window only calls the actions above;
`frontend/wailsjs` is generated, `third_party` is not the program's.

## 6. Plan

Done, in this order: CaptureTable, PacketReflect, AppRoute, SystemPac, RuleList,
LocalServer, WebProxy, AppMonitor; then CaptureService, FreshAddress and AddressCache,
Outbound and AppCalls, with the two refinements and the proofs of section 4.

Left:

1. RuleReaders: the in-place swap of `MoveRule` (`app.go:793`) and insertions beside a
   request that walks the same array, two entries of one list read apart.
2. TunLifecycle: `StartTunService`, `StopTunService` and `reloadTunIfRunning` of two
   callers over the capture's Start and Stop, with the rules a running capture uses.
3. Two calls of the window at once in AppCalls, which today has one caller.
4. An abstract owner of the system PAC ("ours, or the user's") that SystemPac implements.
