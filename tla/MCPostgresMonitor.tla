-------------------------- MODULE MCPostgresMonitor --------------------------
(* Small instance of PostgresMonitor for TLC: two backend slots, a server   *)
(* whose pg_stat_database lacks the I/O timing columns (as before 9.2),    *)
(* three versions of the server's statistics, and one iteration order of  *)
(* the _database_stats dict, with stats_reset between other statistics so  *)
(* that a NULL stats_reset cuts the loop after some lines were emitted.    *)
EXTENDS PostgresMonitor

MCConns == {1, 2}

MCColumns == StatKeys \ {"blk_read_time", "blk_write_time"}

MCEmitOrder ==
    <<"xact_commit", "blks_read", "tup_fetched", "blk_read_time", "temp_bytes",
      "numbackends", "stats_reset", "xact_rollback", "blks_hit", "tup_returned",
      "tup_inserted", "tup_updated", "tup_deleted", "temp_files", "deadlocks",
      "blk_write_time">>
=============================================================================
