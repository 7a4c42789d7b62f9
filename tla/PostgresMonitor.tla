--------------------------- MODULE PostgresMonitor ---------------------------
(***************************************************************************)
(* One PostgresMonitor instance (postgres_monitor.py) with its PostgreSQLDb *)
(* wrapper, driven by the host scheduler, against one PostgreSQL server.   *)
(*                                                                         *)
(* gather_sample is split at its I/O calls: the reconnect, the size query, *)
(* the statistics query, each emission of a statistic and the final       *)
(* close.  Between them the server may crash, restart or update its       *)
(* statistics.  The pg8000 cursor is created with the connection and      *)
(* cleared with it, so the pair (self._db, self._cursor) is one variable.  *)
(***************************************************************************)
EXTENDS Naturals, Sequences, FiniteSets

CONSTANTS
    Conns,       \* the server's backend slots (its max_connections)
    Columns,     \* the columns the server's pg_stat_database row has
    EmitOrder,   \* the iteration order of the _database_stats dict
    MaxStat,     \* bound on the server's statistics version
    ResetStamp,  \* the millisecond timestamp emitted for stats_reset
    None         \* Python None

(* PostgreSQLDb._database_stats['pg_stat_database']: column name to        *)
(* [metric_name] or [metric_name, extra field, extra value].               *)
DatabaseStats ==
    [numbackends    |-> <<"postgres.database.connections">>,
     xact_commit    |-> <<"postgres.database.transactions", "result", "committed">>,
     xact_rollback  |-> <<"postgres.database.transactions", "result", "rolledback">>,
     blks_read      |-> <<"postgres.database.disk_blocks", "type", "read">>,
     blks_hit       |-> <<"postgres.database.disk_blocks", "type", "hit">>,
     tup_returned   |-> <<"postgres.database.query_rows", "op", "returned">>,
     tup_fetched    |-> <<"postgres.database.query_rows", "op", "fetched">>,
     tup_inserted   |-> <<"postgres.database.query_rows", "op", "inserted">>,
     tup_updated    |-> <<"postgres.database.query_rows", "op", "updated">>,
     tup_deleted    |-> <<"postgres.database.query_rows", "op", "deleted">>,
     temp_files     |-> <<"postgres.database.temp_files">>,
     temp_bytes     |-> <<"postgres.database.temp_bytes">>,
     deadlocks      |-> <<"postgres.database.deadlocks">>,
     blk_read_time  |-> <<"postgres.database.blocks_op_time", "op", "read">>,
     blk_write_time |-> <<"postgres.database.blocks_op_time", "op", "write">>,
     stats_reset    |-> <<"postgres.database.stats_reset">>]

StatKeys == DOMAIN DatabaseStats

StatsReset == "stats_reset"

SizeMetric == "postgres.database.size"

(* The options _initialize requires.                                       *)
Required == {"database_name", "database_username", "database_password"}

ASSUME ConstAssumption ==
    /\ IsFiniteSet(Conns)
    /\ Conns # {}
    /\ Columns \subseteq StatKeys
    /\ EmitOrder \in Seq(StatKeys)
    /\ Len(EmitOrder) = Cardinality(StatKeys)
    /\ \A k \in StatKeys : \E n \in 1..Len(EmitOrder) : EmitOrder[n] = k
    /\ MaxStat \in Nat
    /\ ResetStamp \notin Nat
    /\ None \notin Conns

VARIABLES
    lifecycle,    \* "created", "initialized", "config_error" or "stopped"
    config,       \* the required options present in self._config
    pc,           \* where gather_sample is: "idle", "size", "stats", "emit"
    db,           \* self._db._db (and self._db._cursor): a connection or None
    snapshot,     \* the statistics snapshot of db's transaction, or None
    dbstats,      \* the keys of the dbstats dict gather_sample got
    pos,          \* position of the emission loop in EmitOrder
    emitted,      \* <<metric, value>> pairs emitted in the current cycle
    outcome,      \* how the last gather_sample ended
    logged,       \* an error or a warning was logged during the current call
    cycleStart,   \* statistics version when the current cycle began
    serverUp,     \* the server accepts connections
    serverConns,  \* connections the server holds open
    broken,       \* connections whose pg8000 object lost its socket in close()
    stat,         \* version of the server's statistics
    resetNull     \* pg_stat_database.stats_reset is NULL

monitor == <<lifecycle, config, pc, db, snapshot, dbstats, pos, emitted, outcome, logged, cycleStart>>
server == <<serverUp, serverConns, broken, stat, resetNull>>
vars == <<monitor, server>>

Snapshot == [count : 0..MaxStat, resetNull : BOOLEAN]
(* The line emit_value writes for column k with value v (lines 408-415).  *)
Line(k, v) ==
    [metric |-> DatabaseStats[k][1],
     extra  |-> IF Len(DatabaseStats[k]) = 3
                THEN <<DatabaseStats[k][2], DatabaseStats[k][3]>> ELSE None,
     value  |-> v]

SizeLine(v) == [metric |-> SizeMetric, extra |-> None, value |-> v]

Value == 0..MaxStat \cup {ResetStamp}

Emission == {Line(k, v) : k \in StatKeys, v \in Value} \cup {SizeLine(v) : v \in 0..MaxStat}

-----------------------------------------------------------------------------
(* PostgreSQLDb.close: cursor.close() then self._db.close(); the references *)
(* are cleared only when neither raised.  pg8000's Connection.close writes *)
(* a Terminate message: on a connection the server dropped that write may  *)
(* fail, and once it has failed the socket is gone and every later close() *)
(* raises again.                                                           *)
CloseRaises ==
    /\ db # None
    /\ db \notin serverConns
    /\ broken' = broken \cup {db}
    /\ UNCHANGED <<db, snapshot, serverConns>>

CanClose == db = None \/ db \in serverConns \/ db \notin broken

(* Mutant: reconnect() calling connect() without close() first.            *)
ReconnectWithoutClose ==
    /\ snapshot' = None
    /\ \/ \E c \in Conns \ serverConns :
            /\ serverUp
            /\ db' = c
            /\ serverConns' = serverConns \cup {c}
            /\ broken' = broken \ {c}
       \/ /\ ~serverUp \/ serverConns = Conns
          /\ db' = None
          /\ UNCHANGED <<serverConns, broken>>

(* Mutant: reconnect() keeping a connection the server still holds.       *)
ReconnectReusingConnection ==
    IF db \in serverConns
    THEN UNCHANGED <<db, snapshot, serverConns, broken>>
    ELSE /\ CanClose
         /\ snapshot' = None
         /\ \/ \E c \in Conns \ serverConns :
                 /\ serverUp
                 /\ db' = c
                 /\ serverConns' = serverConns \cup {c}
                 /\ broken' = broken \ {c}
            \/ /\ ~serverUp \/ serverConns = Conns
               /\ db' = None
               /\ UNCHANGED <<serverConns, broken>>

(* PostgreSQLDb.reconnect when close() returns: connect() opens a new      *)
(* connection (a new transaction, so no snapshot yet), or on pg8000.Error  *)
(* logs and leaves self._db and self._cursor None.                         *)
ReconnectCompletes ==
    /\ CanClose
    /\ snapshot' = None
    /\ LET open == serverConns \ {db} IN
         \/ \E c \in Conns \ open :
              /\ serverUp
              /\ db' = c
              /\ serverConns' = open \cup {c}
              /\ broken' = broken \ {c}
         \/ /\ ~serverUp \/ open = Conns
            /\ db' = None
            /\ serverConns' = open
            /\ UNCHANGED broken

(* An exception leaves gather_sample and reaches the host's run loop.      *)
RaiseOut ==
    /\ pc' = "idle"
    /\ outcome' = "raised"
    /\ UNCHANGED logged

(* The except pg8000.OperationalError branch of _retrieve_database_table_  *)
(* stats and retrieve_database_size: error code 2006 reconnects and the    *)
(* helper returns None (resuming at pc next); any other code raises.  A    *)
(* connect() that fails in that reconnect logs "Database connect failed".  *)
QueryFailed(next) ==
    \/ /\ ReconnectCompletes
       /\ pc' = next
       /\ logged' = (logged \/ db' = None)
       /\ UNCHANGED outcome
    \/ /\ CloseRaises
       /\ RaiseOut
    \/ /\ RaiseOut
       /\ UNCHANGED <<db, snapshot, serverConns, broken>>

-----------------------------------------------------------------------------
(* PostgresMonitor._initialize: raise when a required option is missing.   *)
Initialize ==
    /\ lifecycle = "created"
    /\ lifecycle' = IF Required \subseteq config THEN "initialized" ELSE "config_error"
    /\ UNCHANGED <<config, pc, db, snapshot, dbstats, pos, emitted, outcome, logged, cycleStart, server>>

(* gather_sample up to its first query: reconnect; warn and return when    *)
(* that raised or left the database unconnected (a failed connect() has    *)
(* logged its error first).                                                *)
GatherSample ==
    /\ lifecycle = "initialized"
    /\ pc = "idle"
    /\ emitted' = {}
    /\ cycleStart' = stat
    /\ \/ /\ CloseRaises
          /\ outcome' = "warned"
          /\ logged' = TRUE
          /\ UNCHANGED pc
       \/ /\ ReconnectCompletes
          /\ logged' = (db' = None)
          /\ IF db' = None THEN outcome' = "warned" /\ pc' = "idle"
                           ELSE pc' = "size" /\ UNCHANGED outcome
    /\ UNCHANGED <<lifecycle, config, dbstats, pos, serverUp, stat, resetNull>>

(* retrieve_database_size and the emission of postgres.database.size.      *)
RetrieveSize ==
    /\ pc = "size"
    /\ \/ /\ db \in serverConns
          /\ emitted' = emitted \cup {SizeLine(stat)}
          /\ pc' = "stats"
          /\ UNCHANGED <<db, snapshot, serverConns, broken, outcome, logged>>
       \/ /\ db \notin serverConns
          /\ QueryFailed("stats")
          /\ UNCHANGED emitted
    /\ UNCHANGED <<lifecycle, config, dbstats, pos, cycleStart, serverUp, stat, resetNull>>

(* retrieve_database_stats: the row of pg_stat_database for the database, *)
(* read in the connection's transaction; its first read fixes the snapshot *)
(* the rest of the transaction sees, and only the columns of              *)
(* _database_stats the row has are kept.  A None cursor raises             *)
(* AttributeError.  After error 2006 the helper returns None and dbstats   *)
(* is empty.  The emission loop then starts at the first key.              *)
RetrieveStats ==
    /\ pc = "stats"
    /\ \/ /\ db = None
          /\ RaiseOut
          /\ UNCHANGED <<db, snapshot, dbstats, pos, serverConns, broken>>
       \/ /\ db \in serverConns
          /\ snapshot' = IF snapshot = None
                           THEN [count |-> stat, resetNull |-> resetNull]
                           ELSE snapshot
          /\ dbstats' = StatKeys \cap Columns
          /\ pos' = 1
          /\ pc' = "emit"
          /\ UNCHANGED <<db, serverConns, broken, outcome, logged>>
       \/ /\ db \notin serverConns \cup {None}
          /\ QueryFailed("emit")
          /\ dbstats' = {}
          /\ pos' = 1
    /\ UNCHANGED <<lifecycle, config, emitted, cycleStart, serverUp, stat, resetNull>>

(* Mutant: stats_reset emitted as fetched, NULL included, without         *)
(* timestamp_ms.                                                           *)
EmitStatRawReset ==
    /\ pc = "emit"
    /\ pos <= Len(EmitOrder)
    /\ LET k == EmitOrder[pos] IN
         /\ emitted' = IF k \notin dbstats THEN emitted
                       ELSE emitted \cup
                         {Line(k, IF k # StatsReset THEN snapshot.count
                                  ELSE IF snapshot.resetNull THEN None ELSE ResetStamp)}
         /\ pos' = pos + 1
    /\ UNCHANGED <<pc, outcome, logged, lifecycle, config, db, snapshot, dbstats, cycleStart, server>>

(* One turn of the emission loop over _database_stats in dict order: a key *)
(* dbstats lacks is skipped; a statistic is emitted with its value and its *)
(* extra field; stats_reset goes through timestamp_ms, whose dt.replace    *)
(* raises on a NULL value and ends gather_sample.                          *)
EmitStat ==
    /\ pc = "emit"
    /\ pos <= Len(EmitOrder)
    /\ LET k == EmitOrder[pos] IN
         \/ /\ k \notin dbstats
            /\ pos' = pos + 1
            /\ UNCHANGED <<emitted, pc, outcome>>
         \/ /\ k \in dbstats \ {StatsReset}
            /\ emitted' = emitted \cup {Line(k, snapshot.count)}
            /\ pos' = pos + 1
            /\ UNCHANGED <<pc, outcome>>
         \/ /\ k \in dbstats \cap {StatsReset}
            /\ ~snapshot.resetNull
            /\ emitted' = emitted \cup {Line(k, ResetStamp)}
            /\ pos' = pos + 1
            /\ UNCHANGED <<pc, outcome>>
         \/ /\ k \in dbstats \cap {StatsReset}
            /\ snapshot.resetNull
            /\ RaiseOut
            /\ UNCHANGED <<emitted, pos>>
    /\ UNCHANGED <<lifecycle, config, db, snapshot, dbstats, logged, cycleStart, server>>

(* Mutant: the final self._db.close() left out, the reference dropped.     *)
CloseAtEndWithoutClose ==
    /\ pc = "emit"
    /\ pos > Len(EmitOrder)
    /\ pc' = "idle"
    /\ outcome' = "ok"
    /\ UNCHANGED <<lifecycle, config, db, snapshot, dbstats, pos, emitted, logged, cycleStart, server>>

(* The self._db.close() that ends gather_sample, after the loop.           *)
CloseAtEnd ==
    /\ pc = "emit"
    /\ pos > Len(EmitOrder)
    /\ \/ /\ CanClose
          /\ db' = None
          /\ snapshot' = None
          /\ serverConns' = serverConns \ {db}
          /\ pc' = "idle"
          /\ outcome' = "ok"
          /\ UNCHANGED broken
       \/ /\ CloseRaises
          /\ RaiseOut
    /\ UNCHANGED <<lifecycle, config, dbstats, pos, emitted, logged, cycleStart, serverUp, stat, resetNull>>

(* The host stops the monitor between two calls of gather_sample.          *)
Stop ==
    /\ lifecycle = "initialized"
    /\ pc = "idle"
    /\ lifecycle' = "stopped"
    /\ UNCHANGED <<config, pc, db, snapshot, dbstats, pos, emitted, outcome, logged, cycleStart, server>>

-----------------------------------------------------------------------------
(* The server: it crashes (dropping every connection), restarts, and       *)
(* updates its statistics; pg_stat_reset() sets stats_reset.               *)
ServerCrash ==
    /\ serverUp
    /\ serverUp' = FALSE
    /\ serverConns' = {}
    /\ UNCHANGED <<broken, stat, resetNull, monitor>>

ServerStart ==
    /\ ~serverUp
    /\ serverUp' = TRUE
    /\ UNCHANGED <<serverConns, broken, stat, resetNull, monitor>>

ServerActivity ==
    /\ stat < MaxStat
    /\ stat' = stat + 1
    /\ resetNull' \in {resetNull, FALSE}
    /\ UNCHANGED <<serverUp, serverConns, broken, monitor>>

-----------------------------------------------------------------------------
Init ==
    /\ lifecycle = "created"
    /\ config \in SUBSET Required
    /\ pc = "idle"
    /\ db = None
    /\ snapshot = None
    /\ dbstats = {}
    /\ pos = 1
    /\ emitted = {}
    /\ outcome = "none"
    /\ logged = FALSE
    /\ cycleStart = 0
    /\ serverUp \in BOOLEAN
    /\ serverConns = {}
    /\ broken = {}
    /\ stat = 0
    /\ resetNull \in BOOLEAN

MonitorStep ==
    \/ Initialize \/ GatherSample \/ RetrieveSize \/ RetrieveStats
    \/ EmitStat \/ CloseAtEnd \/ Stop

ServerStep == ServerCrash \/ ServerStart \/ ServerActivity

Next == MonitorStep \/ ServerStep

(* The host calls gather_sample once per sample interval until it stops    *)
(* the monitor, and a call runs to its end; the server gets no fairness.   *)
Fairness ==
    /\ WF_vars(Initialize)
    /\ WF_vars(GatherSample)
    /\ WF_vars(RetrieveSize)
    /\ WF_vars(RetrieveStats)
    /\ WF_vars(EmitStat)
    /\ WF_vars(CloseAtEnd)

Spec == Init /\ [][Next]_vars
FairSpec == Spec /\ Fairness

-----------------------------------------------------------------------------
TypeOK ==
    /\ lifecycle \in {"created", "initialized", "config_error", "stopped"}
    /\ config \subseteq Required
    /\ pc \in {"idle", "size", "stats", "emit"}
    /\ db \in Conns \cup {None}
    /\ snapshot \in Snapshot \cup {None}
    /\ dbstats \subseteq StatKeys
    /\ pos \in 1..Len(EmitOrder) + 1
    /\ emitted \subseteq Emission
    /\ outcome \in {"none", "ok", "warned", "raised"}
    /\ logged \in BOOLEAN
    /\ cycleStart \in 0..MaxStat
    /\ serverUp \in BOOLEAN
    /\ serverConns \subseteq Conns
    /\ broken \subseteq Conns
    /\ stat \in 0..MaxStat
    /\ resetNull \in BOOLEAN

(* No connection leaks: every connection the server holds open for this    *)
(* monitor is the one self._db references, whatever mix of reconnects,     *)
(* failed queries, raised exceptions and server crashes happened; so the   *)
(* monitor never holds more than one backend slot.                         *)
NoLeakedConnection == serverConns \subseteq {db}

(* Fresh statistics: every size or statistic line a cycle emits carries a  *)
(* value read after that call of gather_sample began, never one from a     *)
(* transaction an earlier call left open (the reason for reconnect and    *)
(* close).  The stats_reset line carries a timestamp instead.              *)
FreshStats ==
    \A e \in emitted :
        e.metric # DatabaseStats[StatsReset][1] => e.value >= cycleStart

(* Only a call that raised leaves a backend open: from the end of a call   *)
(* of gather_sample that returned normally or warned until the next call,  *)
(* the server holds no connection of the monitor, and after a normal       *)
(* return self._db is None, whatever crashes and restarts happen in        *)
(* between.  So the connections left open between cycles                  *)
(* (ClosedBetweenCycles fails) are all left by calls that raised.          *)
ReleasedUnlessRaised ==
    pc = "idle" =>
        /\ outcome \in {"ok", "warned"} => serverConns = {}
        /\ outcome = "ok" => db = None

(* The inductive strengthening of TypeOK, NoLeakedConnection, FreshStats   *)
(* and ReleasedUnlessRaised: before the statistics query of a cycle the    *)
(* transaction has no snapshot yet, and the snapshot the emission loop     *)
(* reads was taken after the cycle began.                                  *)
IInv ==
    /\ TypeOK
    /\ NoLeakedConnection
    /\ FreshStats
    /\ ReleasedUnlessRaised
    /\ cycleStart <= stat
    /\ pc \in {"size", "stats"} => snapshot = None
    /\ pc = "emit" /\ dbstats # {} =>
          snapshot \in Snapshot /\ cycleStart <= snapshot.count

(* As spec section 8 states: after any gather_sample call, success or      *)
(* failure, the database connection is closed.                             *)
ClosedBetweenCycles == pc = "idle" => db = None

(* Spec section 6: metrics missing from a cycle are a gap accompanied by a *)
(* warning; so a call of gather_sample that ends normally with nothing     *)
(* logged has emitted the size and every column the server's row has.      *)
CompleteUnlessWarned ==
    pc = "idle" /\ outcome = "ok" /\ ~logged =>
        /\ \E v \in 0..MaxStat : SizeLine(v) \in emitted
        /\ \A k \in StatKeys \cap Columns : \E v \in Value : Line(k, v) \in emitted

(* Connectivity errors are recoverable (spec sections 4.1 and 7): once the *)
(* server stays up and the monitor keeps running, cycles succeed again.    *)
RecoversAfterOutage ==
    <>[](serverUp /\ ~resetNull /\ lifecycle = "initialized")
        => []<>(outcome = "ok")

(* The wedge is the only obstacle: once the server stays up with a non-NULL *)
(* stats_reset, the monitor stays running and self._db is not a connection *)
(* whose close() has already failed, gather_sample ends normally again and *)
(* again, whatever reconnects, 2006 errors and crashes came before.        *)
RecoversUnlessWedged ==
    <>[](serverUp /\ ~resetNull /\ lifecycle = "initialized" /\ db \notin broken)
        => []<>(outcome = "ok")
=============================================================================
