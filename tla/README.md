# TLA+ models of the Scalyr agent's PostgreSQL and Windows process monitors

This directory holds TLA+ models of the two monitors under
`src/scalyr_agent/builtin_monitors/`. It also holds the TLC configurations
that check them on small instances, and TLAPS proofs of both monitors'
safety invariants.

## The system

- **PostgresMonitor** (`postgres_monitor.py`) is run by a host thread.
  - The host calls `_initialize` once.
  - It then calls `gather_sample` once per sample interval until it stops the monitor.
- **A cycle of `gather_sample`** goes through the `PostgreSQLDb` wrapper:
  1. `reconnect` (a `close` followed by `connect`);
  2. the size query;
  3. the `pg_stat_database` query, whose first read in a transaction fixes the statistics snapshot for the rest of that transaction;
  4. one `emit_value` per column of `_database_stats`, in dict order, where `stats_reset` is converted by `timestamp_ms`;
  5. a final `close`.
- **Error paths in a cycle:**
  - An `OperationalError` with code 2006 makes a helper reconnect and return `None`.
  - Any other code raises out of the cycle.
  - A `close()` on a connection the server dropped may raise.
- **ProcessMonitor** (`windows_process_metrics.py`) can run as several instances, one host thread each.
  - Each cycle selects the target process. It uses either the first process of `psutil.process_iter()` whose name or command line matches, or a pid.
  - It then walks the module-level `METRICS` table. For each metric it calls `dispatch`, writes `extra_fields["app"] = id` into that metric's dict, and calls `emit_value`.
  - `NoSuchProcess` ends the cycle and clears the target. `AccessDenied` escapes.
  - The `extra_fields` dicts are shared by every instance.

## Modules

| Module | Models |
|---|---|
| `PostgresMonitor` | one PostgresMonitor with its PostgreSQLDb, against a server that crashes, restarts and updates its statistics |
| `MCPostgresMonitor` | TLC instance: 2 backend slots, a server without the I/O timing columns, one dict order with `stats_reset` in the middle |
| `PostgresMonitorProofs` | TLAPS proofs of the PostgresMonitor invariants |
| `ProcessMonitor` | N ProcessMonitor instances sharing METRICS, against a changing process table |
| `MCProcessMonitor` | TLC instances: 2 instances, 3 processes (one protected, and the pid target of the second instance), the first 3 METRICS entries |
| `ProcessMonitorProofs` | TLAPS proofs of the ProcessMonitor invariants |

### PostgresMonitor: state and actions

- **State:**
  - `db` is `self._db._db` together with `_cursor`. They are set and cleared together.
  - `snapshot` is the transaction's statistics snapshot, or None before the first statistics read.
  - `dbstats` and `pos` are the dict `retrieve_database_stats` returned and the position of the emission loop.
  - `emitted` holds the lines of the current cycle as `[metric, extra, value]` records, using the real metric names and extra fields of `_database_stats`.
  - `outcome` is how the last call ended: ok, warned (the two `_logger.warn` returns of `gather_sample`) or raised.
  - `logged` says whether the current call has logged an error or a warning: the "Database connect failed" error of `connect()` (line 169), reached from any reconnect, and the warnings of `gather_sample` (lines 393 and 397). The message text is left out.
  - The server is `serverUp`, `serverConns`, `broken` (connections whose pg8000 object lost its socket in a failed close), `stat` (statistics version) and `resetNull` (`stats_reset` IS NULL).
- **Actions:**
  - `Initialize` models `_initialize`.
  - `GatherSample` covers the reconnect and the `is_connected` check.
  - `RetrieveSize` and `RetrieveStats` are the two queries, with their 2006/other-error paths (`QueryFailed`).
  - `EmitStat` is one turn of the emission loop.
  - `CloseAtEnd` is the final close.
  - `Stop` is the host stopping the monitor between cycles.
  - The server has `ServerCrash`, `ServerStart` and `ServerActivity`.
  - `close()` is modelled by `CanClose` and `CloseRaises`: close raises on a connection the server no longer holds, and it raises for ever once it has.
- **Data abstraction.** Statistic values are the server's statistics version at the time of the snapshot, and the stats_reset timestamp is a model value. This is what the freshness property tells apart.
- **Dict iteration order.** Python 2 gives `_database_stats` a fixed order that no code states, so the order is the constant `EmitOrder`.

### ProcessMonitor: state and actions

- **State:**
  - per instance: `lifecycle` (created, initialized, config_error, stopped), `pc`, `idx` (the loop index), `process` (`self.__process`) and `emitted` (the lines of the current cycle: metric, process, app field);
  - `extraApp`: the shared `"app"` entry of each metric's dict;
  - `alive`: the process table.
- **Actions:**
  - `Initialize(i)` is `_initialize`: a missing `id` option is a configuration error. `Stop(i)` is the host stopping the instance between calls.
  - `GatherSample(i)` is the host's call on an initialized instance, and `SelectTarget(i)` its first statement, `_select_target_process`, including the `NoSuchProcess` raised when a process exits during the iteration.
  - `Extract(i)` is one turn of the loop up to `emit_value`, with four outcomes: `LoopEnd` (past the last metric), `ProcessGone` (`NoSuchProcess`, caught), `DeniedRaises` (`AccessDenied`, not caught) and `SetApp` (the write to the shared dict).
  - `Emit(i)` is `emit_value`.
  - `ProcessExit` and `ProcessStart` change the process table.

## Runs

| Run | Expect | Shows |
|---|---|---|
| `pg_safety` (`MCPostgresMonitor.cfg`) | pass | `TypeOK`, `NoLeakedConnection` (the server never holds a connection other than `self._db`) `FreshStats` (every size or statistic line carries a value read after the cycle began) and `ReleasedUnlessRaised` (after a call that returned or warned the server holds no connection of the monitor) |
| `pg_closed_between_cycles` (`PGClosed.cfg`) | violation | the connection can stay open between cycles (finding 1) |
| `pg_recovers` (`PGRecovers.cfg`) | violation | after a close raises on a dropped connection, no cycle ever succeeds again (finding 2) |
| `pg_complete_unless_warned` (`PGComplete.cfg`) | violation | a call can return normally, without a warning, with metrics missing (finding 4) |
| `proc_safety` (`MCProcessMonitor.cfg`) | pass | `TypeOK`, and `EmissionsFormPrefix`: a cycle emits a gap-free prefix of METRICS whenever the process exits |
| `proc_app_race` (`PMAppRace.cfg`) | violation | two instances tag lines with each other's id through the shared dicts (finding 3) |
| `proc_match_lost` (`PMMatchLost.cfg`) | violation | `MatchSurvivesExits`: a process visited before the match exits during `process_iter`, and the call selects nothing although the match is alive (finding 5) |
| `pg_liveness` (`PGLiveness.cfg`) | pass | `RecoversUnlessWedged`: under the host's fairness, once the server stays up, `stats_reset` is set and `self._db` is not a dead connection, cycles succeed infinitely often |

### Bounds

- **PostgresMonitor instance:**
  - Two backend slots allow a leaked second connection to show.
  - Three statistics versions (`MaxStat = 2`) allow a stale snapshot to be told from a fresh one.
  - The missing columns exercise the skip in the loop.
  - `stats_reset` in the middle of `EmitOrder` makes a NULL value cut the loop after some lines.
- **ProcessMonitor instance:**
  - Three processes give the agent itself, a matching process and a protected (AccessDenied) one. The second instance targets the protected pid, so `DeniedRaises` happens; `PMAppRace.cfg` gives it the matching pid instead, so the two instances emit at the same time. `PMMatchLost.cfg` makes pid 3 the only match and lets no process deny access, so pid 2 is visited before the match and can exit.
  - `METRICS` is the real 18-entry table. `NMetrics` bounds how much of it a run walks. The two-instance run walks 3 entries: a first, a middle and a last metric, which is what "prefix" and "interleaved write" need.
- Every passing-run property has a mutant, listed in `PROJECT.json`: a changed copy of a mapped definition (a reconnect without the close, a close that does not release, a missing `timestamp_ms`, a loop that goes on after `NoSuchProcess`) that TLC finds violating the property. The mutants show the properties can fail; they are not claims about bugs anyone has written.

### Fairness

`FairSpec` assumes weak fairness only of the monitor's own steps: `Initialize`, `GatherSample` and the steps of a running call. The host calls `gather_sample` every interval, and a call runs to its end. `Stop` and the server get no fairness.

- `RecoversAfterOutage` asks for success under the hypothesis that the server eventually stays up with a non-NULL `stats_reset`. It fails (finding 2).
- `RecoversUnlessWedged` adds the hypothesis that `self._db` does not hold a dead connection, the state finding 2 can never leave. It holds: the reconnect at the start of the next cycle then opens a working connection. Its mutant, a reconnect that skips the close, breaks it. In TLC's trace two cycles raise on a NULL `stats_reset` and each leaves its backend open; once the model's two slots are held, `connect()` fails and every later call warns.

## Findings

1. **The connection is not always closed between cycles.** `gather_sample` reaches `self._db.close()` (line 423) only when nothing raised. A NULL `stats_reset`, a non-2006 error, or a close that raises leaves the connection open.
2. **One failed close wedges the monitor.** `PostgreSQLDb.close` clears `_db` only after `self._db.close()` returns (lines 183-185). Once that raises on a dropped connection, every `reconnect` raises in `close` before `connect`, so every cycle only warns.
3. **Instances overwrite each other's `app` field.** `extra_fields["app"] = self.__id` (line 563) writes into dicts shared by all ProcessMonitor instances. A line can carry another instance's id.
4. **Missing metrics without a warning.** On `OperationalError` 2006, `_retrieve_database_table_stats` (line 240) and `retrieve_database_size` (line 267) reconnect and return `None`. When the reconnect succeeds nothing is logged, and `gather_sample` skips those metrics, closes, and returns normally. The spec (section 6) says a gap in a cycle's metrics comes with a warning line. TLC's trace: the size line is emitted, the server crashes and restarts, the statistics query fails with 2006, the reconnect opens a new connection, and the call ends `ok` with `logged` false and no statistic emitted. The model takes the code's own assumption that a lost connection shows as error 2006.
5. **A process exiting during the search loses the match.** `_match_generator` (line 494) catches only `psutil.AccessDenied` around `name()` and `cmdline()`. A process that `process_iter` lists before the matching one and that exits before it is read raises `NoSuchProcess` out of `gather_sample`, so the cycle selects nothing although a live process matches. The spec (section 4.3) skips only processes that deny access.

## Proofs

Both proof modules prove their results for every value of the constants that
satisfies the module's assumption (`ConstAssumption`, `ProcAssumption`).

`PostgresMonitorProofs` proves:

- `Spec => []IInv`;
- `TypeOK`, `NoLeakedConnection`, `FreshStats` and `ReleasedUnlessRaised` as theorems `TypeCorrect`, `NoLeak`, `Freshness` and `ReleasedUnlessRaisedHolds`.

Its `IInv` adds to the four invariants:

- `cycleStart <= stat`;
- before the statistics query of a cycle there is no snapshot yet;
- while the loop has keys to emit, the snapshot was taken at a version no older than the cycle's start.

`FreshStats` alone is not inductive: a step of `EmitStat` reads `snapshot`, and only the last conjunct says what that snapshot holds. `ReleasedUnlessRaised` needs `NoLeakedConnection`. The final close removes `db` from the server's connections, and only `NoLeakedConnection` says these were at most `{db}`. The same holds for the reconnect of a call that warns. The lemmas `LineType` and `SizeLineType` give the type and the metric of every emitted line. The proof has one lemma per action. `EmitStat` is split by the outcomes of the loop body.

`ProcessMonitorProofs` proves:

- `SpecIInv`: `Spec => []IInv`;
- `TypeCorrect` and `Prefix` (`EmissionsFormPrefix`).

Its `IInv` strengthens the prefix property to an exact one:

- an instance's lines are those of metrics `1..idx-1`;
- a running loop holds a process;
- an instance about to emit has `idx` within METRICS.

The prefix property alone is not inductive, since `Emit` needs to know that the next line is metric `idx`. Several lemmas support the proofs:

- `MetricLineType` gives the type, metric and app field of the line `Emit` writes.
- `FirstMatchCandidate` shows the first matching pid is a candidate, using `WFMin` on the well-founded `<` of `Nat`.

Out of TLAPS's reach, and checked by TLC only:

- the liveness properties `RecoversAfterOutage` and `RecoversUnlessWedged` (they need fairness and `ENABLED`);
- the violated properties of the violation runs.

## Not modelled

- Metric values and the psutil calls computing them (`_gather_metric`, the transforms).
- `_get_version` and `_gather_db_information`, which only set version fields that no step reads.
- The `define_*` registration calls.
- Formatting and the text of log messages; only whether a call logged is kept.
- The host scheduler itself, which is outside `src/`. Its calls are the actions above, and `Stop` is modelled from the spec.

## Plan for later work

- The full METRICS table in a two-instance run, with a state constraint or symmetry.
- A pure-function check of `timestamp_ms` against a reference over bounded inputs.
- Liveness for ProcessMonitor (every call returns) under fairness of its steps.
