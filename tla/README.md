# Verification of ethui

ethui is a desktop wallet for Ethereum developers: a Tauri application in Rust
(`crates/`, `bin/`) with a React interface (`gui/`). A dozen components run as
tokio tasks or kameo actors in one process. They share one broadcast bus, a few
global locks, a SQLite database and a handful of JSON files, and they depend on
things that fail: RPC endpoints, an anvil node that is reverted or restarted
while it is followed, a user who closes a window at any moment.

This directory holds TLA+ modules that model the components in which that
concurrency lives, TLC configurations that check them on small instances, and
TLAPS proofs of the invariants that matter most. Paths below are relative to the
repository.

## 1. Inventory

`PROJECT.json` lists all components, also those that are not modelled, and the
places where the code is hard to test ("hazards").

| component | state | operations | talks to | what is hard |
|---|---|---|---|---|
| bus, `crates/broadcast` | one ring of 16 messages of all kinds | one `send` function per message, `subscribe` | everyone | each receiver has its own lag, and messages it does not handle can push out the only one it does; a lost message is silent |
| networks, `crates/networks` | map of networks, current name, `networks.json` | set_current, add, update, remove, update_statuses; bus receiver; status poller every 10 s | bus, endpoints, UI | the poller and the edit form write back copies they read earlier; the actor hears its own announcements |
| connections, `crates/connections` | affinity of each site, `connections.json` | switch_chain, set_affinity, on_chain_removed | networks actor, bus | a call asks the networks actor first and takes the lock later |
| dialogs, `crates/dialogs` | global map of dialogs, a RwLock and two channels per dialog | open, recv, Drop; commands get_payload and send; window events | windows, request handlers | two locks taken in two orders, across awaits |
| wallets, `crates/wallets` | list of wallets, index of the current one, `wallets.json` | create, update, remove, set_current_wallet, set_current_path | bus | the index against the list; panics between a change and its save; a spawned task announces later |
| secret cache, `wallets/src/secret_cache.rs` | an optional secret, the handle of its expirer | is_unlocked, store, read; a dialog | dialogs, signers | a timer that races a store; `abort` of a task that is already running |
| sync worker, `crates/sync` | tracked addresses and chains, one task per pair | track, untrack, poll, for addresses and networks | bus, alchemy | dropping a handle is not ending a task |
| alchemy, `crates/sync/alchemy` | transfers and tips in the database | fetch_transfers | HTTP, database | several tasks on one address; failures between two writes; pages |
| devnet tracker, `crates/sync/devnet` | one watcher per network, one consume task per run | watch, unwatch, run_once, process | anvil, database | reverts and restarts while blocks are streamed |
| stacks, `crates/stacks` | runtime state of a container that outlives the process | initializing, set_enabled, shutdown, create and remove a stack; bus receiver | docker or podman, settings, networks | commands that fail halfway; the setting, the actor and the container are three states |
| walletconnect, `crates/walletconnect` | pairings, proposals in flight, sessions and their handlers | pair, dispatch, settle, requests, switch_account, disconnect | relay, dialogs, wallets | messages delivered twice; four maps, each locked for a statement only; a relay that fails between two of them |
| settings, `crates/settings` | settings, `settings.json` | set (a form or one value), aliases, onboarding, migrations; bus receiver | bus, UI, stacks, artifacts | a form that fails halfway; a handler that tells its own actor |
| artifacts, `crates/sol-artifacts` | roots, index of compiled contracts, trigger counter | update_roots, poll, new_contract, update_contracts; bus receiver | file system, database, nodes | a debounce counter beside a mailbox that may be full |
| rpc, ws, `crates/rpc`, `crates/ws` | one task and one peer per connection | JSON-RPC methods, accept, the loop of a connection | dialogs, wallets, networks, database | values read before a dialog and used after it; answers that overtake one another; pages that vanish |
| shell, `bin/src/app.rs` | which components run | init in a fixed order, exit | all | receivers subscribe after others have begun to send |

What makes each modelled component correct: what is in memory is on disk, or the
code says why not (networks, connections, wallets); every subscriber knows what
it must know (networks); a request in front of the user ends, and its window
with it (dialogs); a secret does not stay (secret cache); exactly the tracked
pairs are followed (sync worker); nothing up to the tip is missing (alchemy);
blocks arrive once, in order and from one chain (devnet); a proposal is asked
once, and a session and what its dApp knows of it agree (walletconnect); the
container follows the setting, and the setting is what is saved (settings,
stacks); a contract that is found gets its ABI (artifacts); nothing is done in
the user's name but what was asked for or shown, and accepted (rpc).

## 2. Modules

    Broadcast <- Networks <- Connections      (bus; actor; sites and the actor)
    Broadcast <- Wallets
    Broadcast <- Settings <- Stacks, Artifacts <- App
                                              (actor; its followers; the process)
    Consent <- Requests                       (a promise; what implements it)
    Dialogs, SecretCache, SyncWorker, AlchemySync, Devnet, WalletConnect
    MCx EXTENDS x: the instance TLC checks (MCConnections for Networks, too)
    xProofs EXTENDS x: theorems
        NetworksProofs (with Connections), WalletsProofs (with SecretCache),
        SyncProofs (SyncWorker and Devnet), DialogsProofs, AlchemySyncProofs,
        WalletConnectProofs, RequestsProofs, AppProofs

Some definitions stand in front of another with the same parameters and are not
used by any specification (`SavedOnlyMap` before `Saved`, `DropNoClose` before
`DropRemove`, ...). Each is the definition below it with a plausible error;
`PROJECT.json` names the property that must fail when it takes its place.

**Broadcast.** The channel is one ring of 16 messages of every kind. The model
has one queue per receiver task, holding only the kinds it has a match arm for;
the other kinds are represented by what they do to a receiver that is behind:
`Lagged` takes its oldest message away, at any time, also when it is the only or
the last one. `Push` drops the oldest of a full queue for the same reason.
Either is what tokio's `Lagged` and the receivers' `if let Ok(..)` amount to.
`Networks` and `Settings` each have a step that lags (`Lag`), bounded by a
budget.

**Networks.** A handler of the kameo actor is one action (`SetCurrent`,
`AddNetwork`, `UpdateNetwork`, `RemoveNetwork`, with every early return); saving
and the announcements are part of it (`SaveAndAnnounce`, `SaveAndRemove`). A
write may fail (`SaveFails`): the map is changed, the file is not, and `?` skips
the announcement. What is outside the actor has state of its own: `poller` (the
copy `status_poller` polls), `form` (the copy the edit page holds), `spawned`
(the tasks of `notify_peers`), `inbox` (the bus). `order` is the iteration order
of the hash map, which decides who is "first"; it may change with every
insertion and removal. `announced`, `untold` (networks whose announcement a
failed write kept back) and `lastWrite` are history. A network's name is its
key, URLs are endpoints that are up, down or silent.

**Connections** extends Networks and adds the store and the calls. `calls[k]`
says how far a call is: each question of `switch_chain` to the actor (current
network, chain id, lowest dedup id, which is 0 when the chain has gone by then),
the locked store and the broadcast are steps of their own, because nothing is
held between them. `connections_set_affinity` is given an id from a list that a
window has got and that may be stale; the code looks for its chain only. Saving
may fail here, too.

**Dialogs.** `readers`, `writing` and `mapHolder` are the two kinds of locks;
the RwLock is fair, so a reader queues behind a waiting writer. Every
`.lock().await` whose guard lives across another await is a step. The handler's
loop is reduced to the answers that end it and those that do not.

**Wallets.** A command holds the write lock from beginning to end and is one
action, also when it panics in `on_wallet_changed` (`Finish`): what it changed
stays, what it had not yet saved is not saved. A save may fail after the change
(`SaveFails`). A wallet is the list of addresses it can derive, how many are
enabled and the current one; `Key` stands for the keystore and private key
kinds, which differ only in how they decrypt.

**SecretCache.** A secret is the number of the store that put it there, so it is
visible which expirer clears which secret. `cancelled` is an expirer that was
aborted between the end of its sleep and its next await.

**SyncWorker.** `tasks[p]` keeps every task ever spawned for a pair, since
dropping a `JoinHandle` detaches; the map's entry (`entry`) is the last of them.

**AlchemySync.** One address; every request and every write of `fetch_transfers`
is a step, and `Abort` ends the task at any of them. `cut` records that an
answer was shortened to `PageSize`.

**Devnet.** The node, the worker with its merged stream, and a sequence of
consume tasks, of which only the last belongs to the current run. A block is its
hash. The traces of a block are asked for by number and its logs by hash, so
they may come from different chains.

**WalletConnect.** A session has the number of the task that settles it, as its
topic comes from a fresh key. `dispatcher` is what the message loop or a backlog
fetch has read of the pairings when it goes on to `start_proposal`; `task` is
`handle_proposal` with `settle_session`, one step per lock, request to the relay
and wait; `closing` holds both ways a session ends, `switch` the calls of
`switch_account`. `told` and `deleted` are what was published to the dApp. A
request to the relay that fails was not delivered; what is encrypted can be
decrypted. `unsettled` and `mixed` record the failures and overlaps after which
the two sides may disagree.

**Settings.** A message of the mailbox is one step, except a form
(`SetValue::All`), which awaits the tests of the two API keys: `BeginForm`,
`TestKey`, `FinishForm`, each with its ways to return early and with what is
assigned by then. `Tell` waits for room, `Save` writes and announces or fails.
`Load` is reading a file of any version: `hidden` is recomputed from version 2
on, and `RunMigrations` brings old files up to version 3. `unheard` is history:
receivers that missed the last message for them, because they had not subscribed
or because the ring was full (`Lag`).

**Stacks.** `manager` is the actor's `RuntimeState`, `container` what the docker
daemon has: the container has a fixed name and stays when the process dies, `ps`
is asked for name and port. Docker commands run synchronously inside a handler
and are part of its action; each may fail (`Fails("docker")`), also with its
first half done: a container that was stopped and could not be removed.
`Initializing` is run by `init` only, as in the code. The two commands that also
change networks (`stacks_create`, `stacks_remove`) are chains of steps, as they
hold nothing in between. `engine = "none"` is a build without the feature
`stacks`.

**Artifacts.** `artBusy` is the message being handled, so that others arrive
meanwhile; `Trigger` is the counter with its `try_send`, once for every project
that a scan goes through (`Scanned`). `MatchContracts` may pass over contracts,
because their code or a row of the database could not be had. The file watcher
never sends (`sol-artifacts/src/actor/mod.rs:85` builds a request and drops it),
so `process_debounced_events` is no action.

**App** composes the three with the order of `init`, the receivers that
subscribe some time after they are spawned, exit (which stops the container) and
crash (which does not).

**Consent** is the abstract specification of all requests: content is asked for
in a slot, a window shows parts of deeds, the user agrees, and what is done has
its terms (sender, network, message: what its kind of window always shows) among
what was shown in that slot, and each part of its content either shown there or
asked for; it uses the consent up; or it needs none. The parts count one by one,
because that is all the code guarantees: an update carries data, value or both,
`SendTransaction::update` sets those that are there, while the window goes on
showing a value of 0 for one that is not, and two updates may arrive in either
order. A transaction with the data of one form and the value of another, never
shown side by side, can be sent. **Requests** is the detailed one. `pc` follows
a request from the capture of wallet and network (`Build`) over the checks to
the window and the act. `seen` are the parts the window has shown (`Terms` when
it opens; data and value of a transaction only in the form, which needs the ABI
of the contract, `ShowForm`; gas and nonce never), `clicked` that the user
accepted in it, `sent` the answers under way: each is a command of its own that
waits for the lock of the dialogs, so they arrive in any order. `Act` uses what
the handler holds, and reads again what the code reads again (the wallet of a
token, the network of a switch). Of an ERC-721 the code checks that the current
wallet owns something of the contract (`OwnsOfContract`); of an ERC-1155 this
and then, with the wallet read once more, that it owns the token
(`CheckBalance`). Connections (`socket`, `task`, `peers`) have a page that
closes or just vanishes, a loop that serves one request at a time, and a task
that panics when the chain of a site has no network any more.

## 3. Runs

Passing runs check invariants and liveness under one specification with
fairness; each finishes in about two minutes or less.

| run | instance | shows |
|---|---|---|
| `networks` | `MCConnections`: 2 names, anvil and a public chain, 1 site, 2 calls at once, 2 operations (3 while no site has called), 1 fault (a failing write, a lagging receiver or a change of an endpoint), 1 restart; 495 380 states | `Persisted`, `Announced`, `AffinitySaved`, `EchoBounded`, `EchoDies`, `StatusConverges` |
| `connections_removed` | the same, 2 operations, no fault, no restart | violation of `StuckNetworkExists` |
| `dialogs` | 2 dialogs, 2 commands at once, 1 answer besides closing | `WindowFindsDialog`, `CloseEndsRequest`, `DropClosesUnlessDeadlocked` |
| `wallets` | 5 kinds, 4 address lists, up to 2 wallets, 4 commands, each of which may fail to save, 1 restart; 4 776 924 states | `CurrentExists`, `RestartSucceeds`, `SavedOrBroken` |
| `secret_cache` | 2 signers, 3 stores, 3 tries | `SecretHasExpirer`, `GuardHasSecret`, `Expires` |
| `sync_worker` | 2 addresses, 2 chains, 4 messages, 1 failure | `WorkersMatch`, `SyncsUnlessFailed` |
| `alchemy_sync` | 2 tasks, 3 blocks, pages of 2, 1 failure | `NothingMissing`, `EventuallyStored` |
| `devnet` | 2 blocks, 1 revert, 1 restart of the node, watched again once | `InOrder`, `RevertDetected`, `LosesOnlyTheGap` |
| `walletconnect` | 1 pairing, the message loop and a backlog fetch, 2 deliveries, 2 switches at once, 1 request, 4 operations, 1 failure of the relay | `OneDialog`, `UnansweredIsGone`, `AccountExposed`, `ProposalReleased`, `DeletedIsForgotten` |
| `app` | 1 stack, 2 ports, 1 alias, 2 projects with an artifact each, 1 contract, channel and mailboxes of 2; one of 11 budgets of inputs and faults per behaviour; 391 692 states | `SavedFields`, `EnabledFollows`, `NetworkHasStack`, `TriggersCounted`, `ContainerSettles`, `FoundGetsAbi`, `StepsFinish` |
| `requests` | 1 connection and the program's window, 3 addresses, 2 chains, 2 contents, 2 values; one of 7 budgets of calls, moves and answers | `HoldsShown`, `Consents` (refinement), `TokenAsChecked`, `GonePeerLeaves` |

Why the bounds are enough to be interesting: the stale copies of Networks need
one operation to open the form, one to change the network under it and one to
save it; a dedup id above 0 needs a removal and an addition, which two names
allow. The race of Connections needs one removal and one call; its echo, a
failing write or a restart after it needs no third operation. The deadlock of
Dialogs needs one command and one drop, the second dialog and command show that
they do not disturb each other. Three stores give an expirer that is neither the
current nor the previous one. Three blocks and two tasks give a task that is two
blocks behind the other when it sets the tip back. One revert and one restart of
the node give two chains with the same block number. Four operations of
WalletConnect are the pairing and three calls on its session, enough for a
request or a switch that meets both ends of the session, or two switches and an
end.

`app` and `requests` have many kinds of inputs that hardly meet. Instead of one
small number for all of them, a behaviour starts with one of several budgets,
each for inputs that do meet: in `app` the way from the setting to the container
with a failing command and a restart; the same with a bus that loses a message,
the last one too; a stack that is created and removed, with a crash; shutting
down; forms, a failing disk and a restart from an old file; the small commands;
onboarding steps that fill a mailbox of two while a form is handled; paths,
builds and a found contract; two projects with a failing lookup and a lost
announcement; and a settings actor that comes to wait for itself while the
container is to be switched, or while a contract is to be matched. A channel and
mailboxes of two are what makes lag, refused triggers and the actor that waits
for itself happen. In `requests`: two transactions at once with edits and
acceptances that overtake one another; one transaction with up to four answers,
among them updates with one of the two parts; a transaction, or a message and a
stranger's address, while wallet, fast mode and network are switched and the
page leaves; two ways to a new network while one is removed; tokens while wallet
and network are switched; a site stuck to a chain that is removed. The proofs
lift four of the seven properties of `app` and three of the four of `requests`
to all budgets.

Deadlock checking is off where the bounded system really stops: when the
commands are used up, or when the two locks of Dialogs have met.

Two runs show what the code does against what it says. `dialogs_drop`:
`dialogs/src/handle.rs:16` promises that a dialog will automatically close on
Drop; the task of Drop and a command can each hold the lock the other waits for.
`connections_removed`: `connections/src/store.rs:59` says that all affinities to
a removed chain have to be cleared, "otherwise, new connections from the same
website will fail"; a call that asked whether the chain exists before it was
removed, and stores its affinity after the removal was handled, leaves its site
stuck to a network that is gone (`commands.rs:12-28`, `ctx.rs:55-62`). With a
restart there is a second way: the affinities are cleared in memory only
(`store.rs:61`), so that `connections.json` brings them back.

Behaviours met while modelling that no run is spent on (the modules allow them,
some only with bounds above those of the runs):

- Networks: a poll that was overtaken writes back a network that was removed or
  edited (`networks/src/actor/mod.rs:300`; `Announced` shows it is at least one
  the subscribers know); two development networks may share a chain id and even
  a dedup id (`:226`); removing the only network while `current` names another
  one saves an empty file, with which the next start panics (`:274`, hence the
  exception in `Persisted`); with two switches in flight their echoes may
  alternate for ever (hence the premise of `EchoDies`).
- Wallets and secret cache: `update` does not check names
  (`wallets/src/lib.rs:142`); removing a wallet that comes before the current
  one makes another one current, as `current` is an index (`:209`); an expirer
  that is aborted when its sleep is over still clears the secret stored after it
  (`wallets/src/secret_cache.rs:35`).
- Sync: a failed fetch ends the task of a pair for good
  (`sync/src/worker.rs:193`, hence "unless failed"); the tip is taken from both
  directions although one may have been cut (`sync/alchemy/src/lib.rs:62`, hence
  `cut`); a block mined between `sync_info` and the subscription is not stored
  (hence `gap`); the consume task of a run that is over may save after the next
  run's reset; untracking drops the handles of a pair, which detaches its tasks
  instead of ending them (`sync/src/worker.rs:66`).
- WalletConnect: a second delivery that read the pairing key before it was
  removed opens a second dialog after the first is done, so `OneDialog` only
  speaks of the same time (`walletconnect/src/session.rs:91`); a request or a
  delete that arrives between the settlement and the storing of the session is
  dropped (`:490`, `:519`); switches that overlap or fail halfway leave the dApp
  with another account than the session (`:731`, hence `mixed`); when the relay
  cannot be asked to unsubscribe, a session that is over for the dApp stays
  (`:646`, hence `unsettled`).
- Stacks, settings and artifacts: enabling stacks after an error, or disabling
  them again after a stop that failed, does nothing until the next start
  (`stacks/src/actor/mod.rs:101`, `:96`, hence `DockerTrouble`, the states in
  which the actor then is); a setting whose last announcement was lost to other
  messages, or sent before the receiver had subscribed, is not followed until
  the next one (hence `unheard`); a container of another port makes every start
  fail under docker; a form that fails leaves its first fields in memory, and
  the next save of anything writes them (`settings/src/actor/mod.rs:136`, hence
  the fields `SavedFields` names); a form with API keys and a full mailbox stop
  the settings actor for good (`:126`, hence `WaitsForItself`), and with it
  everyone who asks for the settings or tells them something: the stacks
  receiver, and every scan for artifacts; a user who had finished onboarding in
  version 1 is hidden with no step finished, which the next start recomputes to
  not hidden (`settings/src/onboarding.rs`); one trigger that did not fit keeps
  the counter above zero, and no later trigger does any work
  (`sol-artifacts/src/actor/mod.rs:323`, hence `dropped`).
- Requests: an acceptance that overtakes the last edit sends the transaction as
  it was before that edit, and two updates with a part each can be sent as a
  mix, which is why `Consent` promises parts the window showed, not the last
  thing it showed; without an ABI the content is accepted unseen (why it may
  also be what the page asked for); an ERC-721 is stored for an owner of another
  token of the contract (`rpc/src/methods/token_add.rs:283`); the windows for
  messages and tokens show neither wallet nor chain, and a token is stored for
  the wallet that is current after the dialog
  (`rpc/src/methods/token_add.rs:429`); a task that panics leaves its peer in
  the map (`ws/src/server.rs:57`).

### Fairness

Weak fairness stands for the tokio runtime, which polls every task that can run,
and for timers, which fire. `Dialogs` needs strong fairness for tasks that want
a lock that others take and release in between: tokio's mutex and RwLock are
first come, first served. Nothing is assumed of the user, of endpoints, of the
anvil node (which may stay down), of new blocks, or of the replacement of a task
that ended. In `SecretCache` a signer that holds the guard is assumed to finish,
since it only builds a signer under it. In `WalletConnect` requests to the relay
are assumed to end, with or without success, while the user need not answer the
dialog and a handler need not return. In `App` the actors, receivers and
commands are weakly fair and an application that ended is started again; nothing
is assumed of the user, of builds and contracts, or of docker commands beyond
that they return. In `Requests` only the tasks of the program are fair (`Serve`
of every slot, `EndLoop` of every connection): users and pages owe nothing.

## 4. Proofs

All theorems are proved by `tlapm` (SMT, Zenon, LS4) for every value of the
constants that satisfies the named assumptions of the component's module. These
ask only that bounds are natural numbers, that sentinels are none of the values
they stand beside, and that defaults and first contents of files are well
formed; the sets of names, signers, tasks, addresses and chains are arbitrary
(names finite).

Every invariant and every action property that a run checks is stated by a
theorem; some theorems go beyond the runs.

- `NetworksProofs`: `TypeCorrect`, `AlwaysPersisted`, `AlwaysAnnounced`,
  `EchoAlwaysBounded`; `Persisted` excuses a last write that failed, `Announced`
  a network whose announcement such a write kept back. `Announced` is not
  inductive, because the poller and the form put copies back: `CopiesAnnounced`
  says that every copy was announced when it was taken, and `announced` only
  grows within a process. Each handler is shown once to keep the actor's part of
  the invariant (`...Kept` lemmas), and the user commands and the receiver cite
  them. For the echoes, a handler that is given the queues leaves one echo more
  at most (`OneMore`): a user operation is counted, the receiver has taken one
  before, and a full queue, or one that lags, loses its oldest.
  `AffinityAlwaysSaved` is about the sites. `PersistedAmongSites`,
  `AnnouncedAmongSites` and `EchoBoundedAmongSites` are the actor's promises
  proved again for `Connections`, where calls of sites make it switch: `Calling`
  types what they carry (for which a lowest dedup id must exist, or 0 stand in),
  and a call under way counts as an echo to come (`EchoToCome`).
- `WalletsProofs`: `CurrentAlwaysExists`, `RestartAlwaysSucceeds`,
  `AlwaysSavedOrBroken`. The invariant types the list, and says of the file that
  only a list with a current address was ever written (`GoodFile`), since
  `on_wallet_changed` panics before `save`; `SavedOrBroken` excuses only a last
  save that failed and a current wallet without an address. For the cache:
  `CacheTypeCorrect`, `SecretAlwaysHasExpirer`, `GuardAlwaysHasSecret`, from:
  the secret is that of the last store, whose expirer nobody has aborted.
- `DialogsProofs`: `WindowAlwaysFindsDialog`. A dialog is in the map from before
  its window is asked for until its Drop task is done, and a handler that waits
  has not dropped it (`Shown`, `InMap`, `DropAfterReturn`). A Drop task that
  waits for the map holds the dialog's lock, and a command that reads a dialog
  holds the map (`WriterLocks`, `HoldsMap`). `DeadlockIsForGood` says of the
  state that `dialogs_drop` reaches that no step of anybody leads out of it: the
  finding is not about a delay.
- `SyncProofs`: `TypeCorrect`, `WorkersAlwaysMatch`: entries are exactly the
  product of tracked addresses and tracked chains, and those are supported. For
  Devnet `BlocksAlwaysInOrder`: while the node was neither reverted nor
  restarted, blocks are numbered as they were mined (`Numbered`), the headers of
  the subscription are sorted (`LiveSorted`), and whatever the run still has to
  send, from the backfill and then from the subscription, comes after all it has
  sent (`Ahead`).
- `AlchemySyncProofs`: `TypeCorrect`, `NothingIsMissing`. The invariant follows
  each task through its steps: unless an answer was cut, nothing up to the block
  it started from is missing, and what it has fetched so far plus the database
  covers everything up to the block it stopped at. A task that sets the tip back
  is then harmless. `OthersKept` is the lemma for the tasks that do not move.
- `WalletConnectProofs`: `AlwaysOneDialog`, `UnansweredAlwaysGone`,
  `AlwaysAccountExposed`, `DeletedAlwaysEnding`, `ForgottenForGood`. For the
  first, a running task holds the mark of its pairing (`Owned`) and a new task
  takes a number that was not used (`Fresh`). For the second, the handler is
  there whenever the session is (`HandlerFirst`), the session goes before the
  handler (`HandlerLast`), and a session cannot be stored after it was removed,
  because whatever requests or ends it came after its task had stored it
  (`AfterSettled`). For the third, `Exposure` follows what the dApp was told
  from the settlement (`SettledAs`) over each switch (`SwitchedTo`), which is
  alone unless the session is in `mixed` (`Alone`). The last two are what of
  `DeletedIsForgotten` is safety: a deleted session is gone or about to go
  (`Ending`), and is not stored again, although a switch that read it may still
  be under way. `Types` is the typing all of this needs.
- `AppProofs`: four invariants of the composition, each with the strengthening
  it needs. `NetworksHaveStacks`: a creation that knows its chain id has its
  stack, or its removal was recorded. `TriggersAlwaysCounted`: the mailbox is a
  sequence and the number of updates in it is finite, changes by one with
  `Append` and `Tail` and by the number of projects with a scan (`CountConcat`,
  `TriggerGood`); steps elsewhere do not touch it. `FieldsAlwaysSaved`: the
  settings, the file and the mailbox have their shapes, so that every handler
  that assigns one of these fields is one that goes on to save or to record a
  failed write. `EnabledAlwaysFollows`: while nothing is on its way, the actor
  has the setting; otherwise the last message under way is the setting, or an
  update that makes the receiver read it is still in the channel. A message that
  is lost with another one behind it does no harm, as every message in that
  channel means the same (`LagElsewhere`); the loss of the last one is the
  excuse `unheard`. The mailboxes hold messages of many shapes, so the proofs
  say of them only that they are sequences (`IsSeq`), not of what.
- `RequestsProofs`: `TypeCorrect`, `AlwaysHoldsShown`, `TokensAsChecked` and
  `ImplementsConsent`, the refinement: under `TypeOK /\ HoldsShown` every step
  of Requests is a step of Consent or leaves its variables alone. `HoldsShown`
  speaks of the answers under way, since the next one received may be any of
  them, and of each part they carry, since `update` takes them one by one: a
  part that is set was shown in the form, one that is not was there before.
  `TokensAsChecked` carries what the checks of a token have found over the
  window to the act: the owner of the token for an ERC-1155, of something of its
  contract for an ERC-721, both of the wallet that was current then. For all
  connections, budgets, wallets and networks.

Only model-checked: the liveness properties, as the prover has no ENABLED
(`EchoDies`, `StatusConverges`, `CloseEndsRequest`,
`DropClosesUnlessDeadlocked`, `Expires`, `SyncsUnlessFailed`,
`EventuallyStored`, `RevertDetected`, `LosesOnlyTheGap`, `ProposalReleased`,
`DeletedIsForgotten`, `ContainerSettles`, `FoundGetsAbi`, `StepsFinish`,
`GonePeerLeaves`).

## 5. Not modelled

Pure conversions (migrations of networks and connections, trace expansion, ABI
and token data, encodings), cryptography, SQL, read-only calls (proxy detection,
exchange rates, the simulator), telemetry, window layout and the React
components: none of them keeps state that another task can change under it.

In the modelled components:

- a file that is torn during `save` (`File::create` truncates it first): a save
  succeeds or leaves the file as it was; a start that fails (autostart, logging
  or the actor's own save refused in `on_start`);
- which messages of other kinds fill the ring of the bus: that they do is a step
  with a budget (`Lag`);
- the permissions of a connection, balances and token metadata of the sync
  worker, the UI channel of the bus, pings and the end of all sessions at exit;
- in `Devnet`, the subscription's channel has no limit, and the metadata of
  tokens that a consumer looks up after it has saved a block is left out;
- JSON-RPC batches, and the events for changed chains and accounts that peers
  are sent; requests that only read;
- values of a wrong type in a form, which panic the handler;
- a compiled project with an empty output directory is one without artifacts; a
  scan reads the settings and tells the Foundry step in one step;
- what `StackAdd` and `StackRemove` do in the networks actor happens with the
  announcement (`Networks` models the actor's side), and questions to the stacks
  actor are answered at once;
- in `Requests` the sender and the network are captured in one step, and two
  answers of the same kind under way are one.

## 6. Plan

1. Proofs: the safety halves of other liveness properties (no step undoes a
   detected revert, a removed affinity or a released proposal), and a secret
   cache, a devnet run and a wallet list as refinements of item 3.
2. Compositions: Wallets with SyncWorker over the bus (do the tracked addresses
   become those of the wallets), Networks with Devnet (is every development
   network watched).
3. Abstract specifications: a store whose every change is durable (networks,
   connections, wallets), a cell that forgets (secret cache), a growing history
   (alchemy, devnet), with the modules shown to implement them.
4. `Peers`: which peer hears of which change of chain and accounts; batches.
