# Verification of the OmniPaxos key-value store and its Jepsen harness

TLA+ models of `ID2203_Final_Project`: a key-value store replicated with
OmniPaxos (servers and clients over TCP), its Maelstrom node, and the harness
that kills and partitions those nodes and checks the recorded history for
linearizability. Paths below are
relative to the repository; `node` is `src/bin/maelstrom_node.rs`, `harness` is
`src/bin/jepsen_harness.rs`.

## 1. Inventory

| Component | State | Operations | Talks to | What makes it correct |
|---|---|---|---|---|
| Maelstrom node (`node`) | `kv_store`, `decided_idx`, `pending_forwards`, the OmniPaxos instance | `handle_client_request`, `handle_forwarded_request`, `handle_omnipaxos_message`, `tick`, `process_decided_entries`, `apply_and_respond`, start | stdin and stdout lines, other nodes by "forward" and "omnipaxos" messages, OmniPaxos by calls | stores agree with the log; nothing is executed twice; answers are results; requests are not forgotten |
| State machine (`node`, `KVOp`) | a map from keys to JSON values | read, write, CAS at apply time | called per decided entry | one atomic store |
| OmniPaxos (library) on `MemoryStorage` | promise, accepted log, decided index | `append`, `get_current_leader`, `read_decided_suffix`, `tick`, `handle_incoming` | messages carried by the node | one decided log, forever |
| Network simulator and nemesis (`harness`) | `partitions`, `killed_nodes`, child processes, `nemesis_active` | isolate, split, heal, kill, respawn | starts and kills processes, filters deliveries | the table of killed nodes is right; a majority stays connected |
| Harness loop (`harness`) | `history`, `next_op_id` | drain, deliver, record, send, final routing, check | stdin and stdout of the nodes | it survives its own faults; it records what happened; right nodes pass |
| Checker (`harness`) | none (a search) | `check_linearizability`, `try_linearize` | reads `history` | PASS and FAIL mean what they say |
| KV server (`src/server/server.rs`, `database.rs`) | `current_decided_idx`, database | `establish_initial_leader`, batches of client and cluster messages, decided entries | server network, OmniPaxos | as the node, and every client gets the start signal |
| Server network (`src/server/network.rs`) | connections, `max_client_id`, bounded and unbounded channels | listener, registration, connectors, send, reader and writer tasks | TCP | ids are unique, the start waits for everyone, no task blocks the loop |
| KV client (`src/client/`) | `request_data`, `final_request_count`, `next_request_id` | start signal, request intervals, responses, `run_finished` | one server | every response has its request; the run ends |
| Snapshots (`src/common.rs`) | `snapshotted`, `deleted_keys` | `create`, `merge` | nothing calls them | dead code, not modelled |
| Configuration, benchmarks, scripts | files | I/O | | not modelled |

What is hard to test here: stale views of the leader that make a command bounce
between nodes; forwards lost in a partition; a kill between two entries of a
decided batch; answers repeated by a restarted node that replays its log; the
loss of `MemoryStorage`; answers recorded late and out of order by the harness;
operations that were never answered; writes to a process that is dead by now;
servers and clients that register in any order while connections break; one
start signal that nobody repeats; client ids and request ids that are the same at
every server; a client that waits in a send and reads nothing meanwhile.
`PROJECT.json` lists each with its line.

## 2. Modules

```
KVStore ── LinearizableKV (abstract atomic store)
   │              ▲ refines (AtomicStore)
   ├── MaelstromNode ── MaelstromNodeProofs
   └── LinearizabilityChecker ── CheckedHistories ─┬─ CheckedHistoriesProofs
                │           └─── CheckerProofs ────┤
                └──────────┐                       └─ JepsenHarnessProofs
NetworkSimulator ── JepsenHarness ─────────────────┘
OmniPaxosLog ── OmniPaxosLogProofs

KVDatabase ── KVNetwork ── KVServer ──┐
                  └─────── KVClient ── KVCluster ── KVClusterProofs ── KVResponseProofs
                                          └ refines LinearizableKV (AtomicStore)
```

**KVStore** is the state machine: `apply_op` and `reply_to` are the two halves of
`apply_and_respond`'s match (the new store, and the body of the answer: error 20
for a missing key, 22 for a CAS whose expectation fails). `parse_op` reads a
client's body; a key that is not a string becomes `""` (`key_as_str`).
`Absent` is a key that is not in the map.

**LinearizableKV** is the promise to the clients: a call takes effect at most
once, at one instant after the call, and every answer is the result of that
instant. Answers may be missing or repeated.

**MaelstromNode** is the cluster. One action per event of the loop in `main`.
The end of every event, `process_decided_entries`, is part of the action; it
moves `decided_idx` at once, as the code does, and leaves the entries in
`decided_entries`, from which `apply_and_respond` takes one at a time, so that a
kill can fall between two entries. `Ready` says that the loop takes no event
before the batch is done. `try_append` takes a set of commands since the tick
retries all the pending ones in one event; their order in the vector is
abstracted. An identity stands for the pair (`client_src`, `msg_id`).

OmniPaxos is outside the repository and is modelled from the calls:
`append` accepts or rejects freely, `get_current_leader` answers anything,
what was accepted can be decided once or never, by a leader that holds the whole
log and gets it and the new entry into the storage of a running majority, and each
node sees any prefix of the log as far as it holds it. This is weaker than the
library (its followers forward appended entries themselves), so the safety results
hold for it.

`stored[n]` is how much of the log node `n` has in its `MemoryStorage`. `Restart`
sets it to 0, since `MaelstromNode::new` builds a new one. `Forget` is what can
follow: a leader that does not hold the end of the decided log goes on without it,
with a majority of nodes that do not hold it either, or that were restarted and
have lost the promise that bound them. The decided log is then cut, and `forgotten`
says so. Every property of the store that the loss of decided entries breaks is
stated for behaviours up to that moment; `AtMostOnce` holds beyond it. The elections
and rounds behind `Forget` are in `OmniPaxosLog`. `log`, `states`, `invoked`,
`forgotten`, `dropped` and `restarts` are history; the code has no such variables.

The abstract store (`AtomicStore`) has the keys of the clients as they were sent, string
or not, and its calls are the clients' bodies before `parse_op` reads them. With
string keys the cluster implements it; with others it does not (`node_keys`).

**OmniPaxosLog** is a coarse model of the library over `MemoryStorage`: a leader
takes over the most recent log of a majority, appends, replicates and decides.
A partition is a step that does not happen. `KillAndRestart` is what the nemesis
and `MaelstromNode::new` do to it: the storage is empty again.

**LinearizabilityChecker** translates the search: `Completions` and `LinearOps`
pair the entries as the loop over the history does (a response without an open
invocation is skipped, an invocation without response is left out),
`try_linearize` is the backtracking search with its depth limit, a recursive
function of the arguments of a call (`Calls`; `After` is the inner call), `matches` and
`new_model` are `KVModel::apply`. The time of an entry is its position: the
harness appends entries in the order of its one monotonic clock. `Linearizable`
is the reference: some order of the answered operations and some of the
unanswered ones that respects real time and explains the answers.
**CheckedHistories** generates every history, with right and wrong answers, for
it. The three-operation instances exhaust the histories the search can get;
only answers of a type the node sends to that operation are generated.

**NetworkSimulator** is the fault injector, `NetSpec` its alternation of
`Inject` and `Undo`. **JepsenHarness** is the loop around it: `pc` is the place
in the loop, the node processes are one atomic store that answers late, in any
order and once per life of the coordinator, which is what `MaelstromNode`'s
theorems allow as long as no decided entry is forgotten. `stdin` and `stdout` are the pipes with the reader threads; a
killed process loses its unread input, its unread output can still be drained
until the process is replaced. The output order of different nodes is free, as
the iteration order of a `HashMap` is. The two calls of `route_messages` before
the test (nothing has been sent by then) and the process exit are left out.

### The KV store

**KVDatabase** is `database.rs` with the commands of `common.rs`; `response_to`
is the response the coordinator makes of what `handle_command` returns.

**KVNetwork** is how servers and clients find each other, and what a connection
does afterwards. A listener is bound, connectors of servers with higher ids and
clients connect (trying again until it is), a task per accepted connection reads
the handshake and gives a client the next id, and `initialize_connections` stores
one `NewConnection` a step until all are there and aborts the listener. A link
`<<who, s>>` stands for channel, writer task, TCP, reader task and channel in
each direction: a queue without loss until the connection breaks, and then any
prefix of it (what had reached the receiver) is left. `client_connections` keeps
the id behind which a client is; `conn_id` is the id in the reader task, with
which requests arrive. A broken link stays in `peer_connections` until a send
fails, and is never replaced. That a client's slot is set to `None` after a
failed send, and that the link is closed, are the same to the client.

**KVServer** is `server.rs`. `stage` tells `establish_initial_leader` from the main
loop. A batch handler does per batch only `send_outgoing_msgs`, so that a step
handles one message. `handle_decided_entries` moves `current_decided_idx` and
leaves the batch in `decided_commands`, from which `update_database_and_respond`
takes one command a step; `Ready` says that no event is taken before the batch is
done. Of OmniPaxos the model has the calls: `append` succeeds (the code panics
otherwise), `TakeLeadership` once a majority is connected to the initial leader,
`Decide` at most once per appended command and in any order, and a server learns
any longer prefix of the decided log when a message of a connected peer arrives.
This allows more than the library does. A cluster of one server never gets a
cluster message and never reads decided entries, in the code and in the model.

**KVClient** is `client.rs` with `data_collection.rs`: the start signal, requests
whose send is awaited (`sending`; `BatchSize` is the room on the link), responses,
the end. Times are abstracted: a request or the end of the last interval may come
whenever the loop takes an event; the end of another interval only changes the
pace. An empty list of intervals is the case in which the end comes first. The
`biased` select is not modelled: the queue also holds messages that have not yet
arrived, so that any event may come first. Clients only put and get; `Delete`
is in the database.

**KVCluster** composes them and states the properties. Connections break; servers
do not crash (a restarted server would find no listener to register with, the
code does not provide for it). It implements the same `LinearizableKV` as the
Maelstrom cluster, with `Decide` as the instant of effect.

### Correspondence

| Model | Code |
|---|---|
| `Restart(n)` | a new process: `main` up to `MaelstromNode::new`, with `MemoryStorage::default()` |
| `Kill(n)`, `LoseRequest`, `LoseForward` | `NodeProcess::kill`, the pipes, `deliver_messages` |
| `proposed`, `log`, `stored` | inside OmniPaxos |
| `replies[id]` | lines on stdout with that `in_reply_to` |
| `history`, `next_op_id` | `TestHarness` |
| `taken`, `said`, `messages`, `accepted`, `done` | ghosts and the cluster |
| `connected`, `handshakes`, `connection_source` | TCP connections, `handle_incoming_connection` tasks, the channel of that name |
| `to_server[c]`, `to_client[c]`, `start_signals` | channels and connections; the only cluster message with content |
| `client_stage`, `sending` | the place in `Client::run` and in `send_request` |
| `breaks`, `results`, `states` (KVCluster) | ghosts |

## 3. What the runs check

| Run | Instance | Shows |
|---|---|---|
| `node_kill` | 2 nodes, 2 operations, 1 string key, 2 values, partitions, 1 kill per node (510,923 states) | `AtMostOnce`; as long as no decided entry is forgotten, `ReplicaAgreement`, `RepliesAreResults`, `OneReplyPerLife` and refinement of the atomic store |
| `node_live` | 2 nodes, 2 operations, 1 value, partitions, 1 kill per node, fairness (188,993 states) | in behaviours without faults every request is answered; with faults, what is decided is answered unless it is forgotten or everyone who holds it is killed |
| `node_keys` (violation) | 2 nodes, 2 operations, 2 keys that are not strings, no faults | a read of one key returns what was written to the other |
| `checker_verdict` | 3 operations, 2 keys, 2 values, up to 6 entries | PASS is right; FAIL is right when all were answered |
| `checker_unanswered` (violation) | 3 operations, 1 key | FAIL is not right in general |
| `checker_depth` (violation) | depth limit 1 | PASS is not right beyond the depth limit |
| `harness_kill` | 2 nodes, 2 operations, kills | no write to a dead process; answered runs of right nodes pass |
| `harness_partition` | 5 nodes, isolation and split brain | a connected majority remains |
| `harness_pending` (violation) | 2 nodes, no faults | late answers are dropped |
| `log_partition` | 3 nodes, 3 rounds, 2 commands | one log, and prefixes of it, while nobody is killed |
| `log_kill` (violation) | one kill | two decisions at one index |
| `kv_cluster` | 2 servers, a client each, 2 requests, links of 1 request, 1 broken connection, fairness | registration leaves nobody behind; nothing starts before the election; databases agree; no client panics or counts a response twice; refinement of the atomic store; everyone starts, ends and is answered |

Bounds. `Ids` and `OpIds` bound the operations: a violation of the order of
operations needs two, one that the real-time order hides needs three, which the
checker's runs have. `MaxRestarts` bounds the kills of a node (one is enough to
replay and to lose what is stored: with two nodes both orders of losing and
taking over happen, and both nodes can be killed; a third node adds places a command can
bounce to and smaller quorums, which the theorems cover), `MaxHistory` the answers a harness run can still receive, `MaxMessages`
the messages between nodes in a harness run (they carry nothing; one shows
whether a delivery can panic), `MaxRound` the leaders (three: one decides, one
competes, one replaces), `MaxKills` the kills below the log. In `kv_cluster`,
`MaxRequests` bounds the requests of all clients together (two: of two clients,
with the same ids, or of one, the second of which finds its link full),
`BatchSize` the room on a link (100 in the code, 1 here, so that a send has to
wait), `MaxBreaks` the broken connections. One break at any moment, of any
connection, shows what is lost with it; several, and larger clusters, are covered by
the theorems. `MaxDepth` is the code's 100, scaled to 1 in `checker_depth` so that three operations exceed it as
102 exceed 100. Symmetry is used for interchangeable identities, nodes and
commands, values of the histories, and only in runs of safety properties. Deadlock is checked for the
Maelstrom cluster, whose ticks never stop; the histories
and the harness end, `OmniPaxosLog` stops at its bounds, and the KV store is
silent when its clients have ended.

Fairness (`FairSpec`). Weak fairness of the handlers is the event loop and its
stdin; weak fairness of `Restart` is the nemesis's next turn. The rest is
the liveness of OmniPaxos: each node is told what is decided and stored somewhere
(weak fairness of learning), and, in behaviours without faults only (`NoFaults`), an
entry that is retried is not rejected forever (strong fairness of `Accept`) and
what was accepted is decided (weak fairness of `Decide`). Without it,
`EveryRequestAnswered` is false and should be: a cluster without a leader answers
nobody. The code's own part is what the
property then tests, that no command is lost between `append`, the forwards and
`pending_forwards`. Lost forwards and killed coordinators may leave a request
unanswered, but not one that was decided and that a running process still holds
(`DecidedIsAnswered`, `Held`).

For the KV store, weak fairness of the registration, of each server's and of each
client's steps is that tokio runs its tasks; weak fairness of `TakeLeadership` and
`Decide` is the liveness of OmniPaxos. A client need not make requests, and its
intervals need not end: `StartedClientsFinish` assumes the latter itself
(`IntervalsEnd`). `EveryClientStarts` and `RequestsAnswered` speak of behaviours in
which no connection breaks: a lost start signal is never repeated, and a request
on a broken connection is never answered.

### Findings

1. `checker_unanswered`: an operation without an answer is left out of the
   search, so a linearizable history can be reported as FAIL: a write is sent,
   takes effect, its answer is lost with the node, a read returns its value.
2. `checker_depth`: beyond depth 100 the search says "assume it's ok".
3. `harness_pending`: the wait "for remaining responses" ends in
   `route_messages`, which drops them. Together with 1 this makes FAIL possible
   for a correct cluster without any fault.
4. `log_kill`: a node restarted on `MemoryStorage::default()` has forgotten its
   promises; a decided entry held by it and one other node can be overwritten.
   The README's hypothesis includes node failures.
5. `node_keys`: `as_str().unwrap_or("")` turns every key that is not a string into
   `""`, so that the integer keys of Maelstrom's `lin-kv`, which
   `scripts/run_tests.sh` runs, are one register. One client writes `i1`, a read of
   `i2` returns that value.

## 4. What is proved

TLAPS proves, for every value of the constants:

- `MaelstromNodeProofs`:
  - `TypeCorrect` and `ReplicasAgree`. The invariant is
    `LogInv` (`states` is the replay of `log`) and `ReplicaInv`: as long as nothing
    is forgotten, what a node has still to apply is exactly the stretch of the log
    that ends at its `decided_idx`. `ReplicaAgreement` alone does not say which
    entries wait.
  - `NoDuplicates`, that is `Spec => []AtMostOnce`, forgotten entries or not.
    `HomeInv` says that a command has one home: it is in a request, in one
    forward, in one node's `pending_forwards`, proposed, or in the log at one
    index, and that identities determine commands. Each handler moves a command
    from one home to another; `Forget` takes homes away.
  - `AnswersAreResults` and `OneAnswerPerLife`, as long as nothing is forgotten. The
    second counts: the answers to an operation are at most the restarts of its
    coordinator, plus one when its entry is in the applied prefix (`CountInv`).
  - `ClusterIsLinearizable`: for string keys (`NonStringKeys = {}`), `Spec =>
    Linearizable`, under partitions and kills and as long as nothing is forgotten.
    `Decide` is the instant of effect, `ClientSend` the call,
    `apply_and_respond` on the coordinator the answer, all other steps stutter.
  - `PartitionsKeepLinearizability`: for string keys and a nemesis that kills nobody,
    `Spec => AtomicStore!Spec`, without a condition on `forgotten`. `KeptInv`: nobody
    was restarted and a majority stores the whole log; it meets the majority of every
    `Forget` (`MajoritiesMeet`), whose leader would then hold the whole log too, so
    that `Forget` never happens.
- `OmniPaxosLogProofs`: `OneLog`, `DecidedPrefix`. Without a kill, rounds
  only go up and a majority has promised each (`RoundInv`), a round has one leader
  whose log is the longest of it (`LeaderInv`), and what a leader may still decide is
  in every log of a later round (`SuccessorInv`): this is the fact that makes a
  decision safe before it is made. `DecisionInv` and `KnownInv` carry it over to what is
  decided and to what nodes know of it. The invariant speaks of behaviours without a
  kill only, as run `log_kill` shows it must.
- `CheckerProofs` and `CheckedHistoriesProofs`: `HistoryTypes`, `AnsweredFailIsRight`,
  `PassIsRight` (and `ShortPassIsRight`), for any keys, values and number of operations.
  Histories are well formed: an id is invoked once and a response follows its
  invocation and is an answer to it (`WellFormed`, inductive as `HistoryInv`). The
  search is well defined and says TRUE exactly for the calls that have a run
  (`SearchExists`, `SolutionsAreRuns`): a choice of operations one after
  the other that ends with none left or beyond the depth limit.
  - FAIL: the operations of one key, in the order of a linearization, are such a run,
    since the first remaining one was invoked before any remaining one completed
    (`OrderIsFound`, `LinearizablePasses`).
  - PASS: within the depth limit a run is an order of all the operations of its
    key (`KeyOrders`). An operation is given an instant, the latest invocation up to it
    in that order, which lies within its interval; operations of all keys sorted by
    their instants, and within a key by its order, are one order that respects real
    time (`Sooner`, `SoonerIsOrder`), and replaying it gives each key the stores of its
    own order (`MergedStep`, `PassingIsLinearizable`). The hypothesis `WithinDepth`, at
    most `MaxDepth + 1` answered operations a key (101 in the code), cannot be dropped:
    run `checker_depth`.
- `JepsenHarnessProofs`:
  - `KilledAreDead` and, for an odd number of at least
    three nodes, `MajorityStaysConnected`, of the fault injector. `OneFault` says that at
    any time there is nothing to undo, or one isolated node, one cut in the middle, or one
    killed node.
  - Both hold of the harness too (`HarnessKilledAreDead`, `HarnessKeepsMajority`), since
    its loop changes partitions and processes only by the turns of the nemesis.
  - `HarnessNeverPanics`: what `deliver_messages` and `send_operation` let through is
    addressed to a node that is not on the list of killed nodes, and the list is exact.
  - `HarnessTypes`, `RecordedIsLinearizable` (the recorded history is linearizable at every
    moment) and `AnsweredRunsPass`. `RunInv`: a request is in one pipe, read, or
    done (`RequestInv`); answers in the pipes and responses in the history are results
    (`PipeInv`, `Recorded`); and there is an order of the results in which each
    is the store's answer and which the history's real-time order allows (`EffectInv`).
    An operation that takes effect comes last in it: it has not been answered, so
    nothing invoked so far has to follow it. `AnsweredRunsPass` then uses
    `LinearizablePasses` of the checker.
- `KVClusterProofs`:
  - `NobodyIsLeftBehind` and `StartSignalsNameAll`, for any
    servers and clients and whatever breaks. `RegInv` follows a connection through
    its places: who is in a handshake is connected, has no id and is not stored
    (`HandshakeInv`); the ids of a server's registered clients are `1..max_client_id`,
    one each (`IdInv`); what waits to be stored is registered and its slot empty
    (`SourceInv`); what is stored belongs to that registration (`StoredInv`). When the
    number of stored clients reaches `num_clients`, counting shows that all of them
    are registered and none is left on the way (`ResolvedInv`).
  - `ClusterTypes`, `NoStartBeforeElection`, `DatabasesAreReplays`,
    `NoClientPanics`. `ClusterInv` stands on `RegInv`. `StartInv`: a message to or from
    a client presupposes its id and the election. `RequestInv` and `MessageInv`: the
    request id of whatever is on a link, proposed or in the log is one its client
    has recorded, where "its client" is the one client with that id at the
    coordinator (`KnownCommand`; it also says that the id will not be given out
    again). `ReplicaInv`: what waits to be executed is the stretch of the log that
    follows the executed prefix.
- `KVResponseProofs`: `CountedOnce` and `StoreIsLinearizable`. `AnswerInv` stands on
  `ClusterInv`: requests travel in the order of their ids (`OrderInv`), so that one is
  appended once or decided once (`OnceInv`), as its client recorded it (`MadeInv`); a
  response on the way is for an executed entry whose request has no response yet, nor
  another one on the way (`ResponseInv`); what was recorded is the result
  (`ResultInv`). The refinement maps `send_request` to the call, `Decide` to the effect,
  the recorded response to the answer; all other steps stutter.

Induction. The library's induction theorems take an operator and cannot be used
with the provers at hand; `LeastNatural` and `SetInduction` in `CheckerProofs` state
induction for a set instead. A recursive function is then shown to exist by induction on
its domain (`ReplayStores`, `ClientMessagesOf`, `FlattenedOf`) or, for the search, as the
set of calls that have a run.

The assumptions are those of the modules (`StoreAssumption`,
`ClusterAssumption`, `LogAssumption`, `CheckerAssumption`, `HistoryAssumption`,
`HarnessAssumption`, `NetworkAssumption`, `DatabaseAssumption`, `LeaderAssumption`,
`ClientAssumption`): node numbers (finitely many) and operation ids are naturals, bounds are naturals,
`Absent` and `None` are no values, the nemesis is one of the four names the code knows,
servers and clients of
the KV store are finitely many and distinct, request ids are keys and values.
Nothing is assumed about the size of the clusters, the number of operations, of
restarts or of broken connections.
`ClusterIsLinearizable` ends where a decided entry is forgotten: run `log_kill` shows that
`MemoryStorage` allows it as soon as a node is killed. `PartitionsKeepLinearizability` has
no such end. The theorems about the harness rest on
nodes that are an atomic store, which these two show of the cluster within their conditions.

Only model-checked: liveness (`EveryRequestAnswered`, `DecidedIsAnswered`,
`EveryClientStarts`, `StartedClientsFinish`, `RequestsAnswered`; fairness is out of the
prover's reach).

## 5. Not modelled, and what is left

Not modelled: log output and wording, JSON encoding beyond the reading of keys,
the command line, files, the snapshot branch of `process_decided_entries`
(`use_snapshots` is false) and the Maelstrom snapshot type, `KVSnapshot` of
`common.rs` (dead code: nothing calls it and `Command` has no snapshot type), unknown message types,
an unknown `--nemesis` name (the code accepts it and injects nothing), a respawned
process that fails to start, real time beyond the order of events. Of the KV
store: TOML configuration, framing and messages that cannot be decoded, a
connection that breaks while the handshake itself is sent (a client panics, a
connector gives up; the registration waits forever), `Network::shutdown` of the
server (dead code), the content and ordering of OmniPaxos messages, the pace of
requests, CSV and summary files. Benchmarks and deployment scripts are I/O around
the program.

What is left: a `kv_cluster` instance with two clients at one server (the theorems
cover it), and the composition of `MaelstromNode` with `JepsenHarness` in one
specification, in place of the atomic store that stands for the nodes in the harness.
