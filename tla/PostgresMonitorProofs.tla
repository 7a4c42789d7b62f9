------------------------ MODULE PostgresMonitorProofs ------------------------
(***************************************************************************)
(* Proofs, for every value of the constants, of the invariants the         *)
(* MCPostgresMonitor run checks: TypeOK, NoLeakedConnection, FreshStats    *)
(* and ReleasedUnlessRaised.  All four follow from the inductive          *)
(* invariant IInv.                                                        *)
(***************************************************************************)
EXTENDS PostgresMonitor, TLAPS

USE ConstAssumption

(* The helpers the actions are built from, and the tuples of UNCHANGED.  *)
USE DEF monitor, server, CloseRaises, CanClose, ReconnectCompletes, RaiseOut, QueryFailed

(* The lines emit_value writes for a column of _database_stats, and for   *)
(* the size, are Emissions; only the stats_reset line has its metric.      *)
LEMMA LineType ==
    ASSUME NEW k \in StatKeys, NEW v \in Value
    PROVE  /\ Line(k, v) \in Emission
           /\ Line(k, v).value = v
           /\ Line(k, v).metric = DatabaseStats[StatsReset][1] <=> k = StatsReset
<1>1. Line(k, v) \in Emission /\ Line(k, v).value = v
    BY DEF Emission, Line
<1>2. Line(k, v).metric = DatabaseStats[k][1]
    BY DEF Line
<1>3. \A c \in StatKeys \ {StatsReset} :
          DatabaseStats[c][1] # DatabaseStats[StatsReset][1]
    BY DEF StatKeys, DatabaseStats, StatsReset
<1>4. QED
    BY <1>1, <1>2, <1>3

LEMMA SizeLineType ==
    ASSUME NEW v \in 0..MaxStat
    PROVE  /\ SizeLine(v) \in Emission
           /\ SizeLine(v).value = v
           /\ SizeLine(v).metric # DatabaseStats[StatsReset][1]
BY DEF Emission, SizeLine, SizeMetric, DatabaseStats, StatsReset

LEMMA InitIInv == Init => IInv
<1> SUFFICES ASSUME Init PROVE IInv
    OBVIOUS
<1>1. Len(EmitOrder) \in Nat
    BY ConstAssumption
<1>2. TypeOK
    <2>1. pos \in 1..Len(EmitOrder) + 1
        BY <1>1 DEF Init
    <2>2. logged \in BOOLEAN /\ serverUp \in BOOLEAN /\ resetNull \in BOOLEAN
        BY DEF Init
    <2>3. cycleStart \in 0..MaxStat /\ stat \in 0..MaxStat
        BY ConstAssumption DEF Init
    <2>4. QED
        BY <2>1, <2>2, <2>3 DEF Init, TypeOK
<1>3. QED
    BY <1>2 DEF Init, IInv, NoLeakedConnection, FreshStats, ReleasedUnlessRaised

(* The monitor's actions preserve IInv, one lemma per handler step.        *)
LEMMA InitializeIInv == IInv /\ Initialize => IInv'
BY DEF Initialize, IInv, TypeOK, NoLeakedConnection, FreshStats, ReleasedUnlessRaised

LEMMA GatherSampleIInv == IInv /\ GatherSample => IInv'
<1> SUFFICES ASSUME IInv, GatherSample PROVE IInv'
    OBVIOUS
<1>1. logged' \in BOOLEAN
    BY DEF GatherSample, IInv, TypeOK
<1>2. QED
    BY <1>1 DEF GatherSample, IInv, TypeOK, NoLeakedConnection, FreshStats, ReleasedUnlessRaised, Snapshot

LEMMA RetrieveSizeIInv == IInv /\ RetrieveSize => IInv'
<1> SUFFICES ASSUME IInv, RetrieveSize PROVE IInv'
    OBVIOUS
<1>1. SizeLine(stat) \in Emission /\ SizeLine(stat).value >= cycleStart
      /\ SizeLine(stat).metric # DatabaseStats[StatsReset][1]
    BY SizeLineType DEF IInv, TypeOK
<1>2. QED
    BY <1>1 DEF RetrieveSize, IInv, TypeOK, NoLeakedConnection, FreshStats, ReleasedUnlessRaised

LEMMA RetrieveStatsIInv == IInv /\ RetrieveStats => IInv'
<1> SUFFICES ASSUME IInv, RetrieveStats PROVE IInv'
    OBVIOUS
<1>1. logged' \in BOOLEAN
    BY DEF RetrieveStats, IInv, TypeOK
<1>2. QED
    BY <1>1 DEF RetrieveStats, IInv, TypeOK, NoLeakedConnection, FreshStats, ReleasedUnlessRaised, Snapshot

LEMMA EmitStatIInv == IInv /\ EmitStat => IInv'
<1> SUFFICES ASSUME IInv, EmitStat PROVE IInv'
    OBVIOUS
<1> DEFINE k == EmitOrder[pos]
<1>1. pc = "emit" /\ pos \in 1..Len(EmitOrder)
    BY DEF EmitStat, IInv, TypeOK
<1>2. k \in StatKeys
    BY <1>1
<1>3. UNCHANGED <<lifecycle, config, db, snapshot, dbstats, logged, cycleStart, serverUp,
                  serverConns, broken, stat, resetNull>>
    BY DEF EmitStat
<1>4. CASE k \notin dbstats
    BY <1>1, <1>3, <1>4 DEF EmitStat, IInv, TypeOK, NoLeakedConnection, FreshStats, ReleasedUnlessRaised
<1>5. CASE k \in dbstats
    <2>1. snapshot \in Snapshot /\ cycleStart <= snapshot.count
        BY <1>1, <1>5 DEF IInv
    <2>2. snapshot.count \in 0..MaxStat
        BY <2>1 DEF Snapshot
    <2>3. Line(k, snapshot.count) \in Emission /\ Line(k, ResetStamp) \in Emission
        BY <1>2, <2>2, LineType DEF Value
    <2>4. Line(k, snapshot.count).value >= cycleStart
        BY <1>2, <2>1, <2>2, LineType DEF Value
    <2>5. CASE k # StatsReset
        <3>1. emitted' = emitted \cup {Line(k, snapshot.count)} /\ pos' = pos + 1
              /\ UNCHANGED <<pc, outcome>>
            BY <1>5, <2>5 DEF EmitStat
        <3>2. QED
            BY <1>1, <1>3, <2>1, <2>3, <2>4, <3>1
            DEF IInv, TypeOK, NoLeakedConnection, FreshStats, ReleasedUnlessRaised
    <2>6. CASE k = StatsReset /\ ~snapshot.resetNull
        <3>1. emitted' = emitted \cup {Line(k, ResetStamp)} /\ pos' = pos + 1
              /\ UNCHANGED <<pc, outcome>>
            BY <1>5, <2>6 DEF EmitStat
        <3>2. Line(k, ResetStamp).metric = DatabaseStats[StatsReset][1]
            BY <1>2, <2>6, LineType DEF Value
        <3>3. QED
            BY <1>1, <1>3, <2>1, <2>3, <3>1, <3>2
            DEF IInv, TypeOK, NoLeakedConnection, FreshStats, ReleasedUnlessRaised
    <2>7. CASE k = StatsReset /\ snapshot.resetNull
        <3>1. pc' = "idle" /\ outcome' = "raised" /\ UNCHANGED <<emitted, pos>>
            BY <1>5, <2>7 DEF EmitStat
        <3>2. QED
            BY <1>1, <1>3, <3>1 DEF IInv, TypeOK, NoLeakedConnection, FreshStats, ReleasedUnlessRaised
    <2>8. QED
        BY <2>1, <2>5, <2>6, <2>7 DEF Snapshot
<1>6. QED
    BY <1>4, <1>5

LEMMA CloseAtEndIInv == IInv /\ CloseAtEnd => IInv'
BY DEF CloseAtEnd, IInv, TypeOK, NoLeakedConnection, FreshStats, ReleasedUnlessRaised

LEMMA StopIInv == IInv /\ Stop => IInv'
BY DEF Stop, IInv, TypeOK, NoLeakedConnection, FreshStats, ReleasedUnlessRaised

LEMMA ServerStepIInv == IInv /\ ServerStep => IInv'
<1> SUFFICES ASSUME IInv, ServerStep PROVE IInv'
    OBVIOUS
<1>1. CASE ServerCrash
    BY <1>1 DEF ServerCrash, IInv, TypeOK, NoLeakedConnection, FreshStats, ReleasedUnlessRaised
<1>2. CASE ServerStart
    BY <1>2 DEF ServerStart, IInv, TypeOK, NoLeakedConnection, FreshStats, ReleasedUnlessRaised
<1>3. CASE ServerActivity
    <2>1. stat' = stat + 1 /\ stat < MaxStat /\ resetNull' \in {resetNull, FALSE}
        BY <1>3 DEF ServerActivity
    <2>2. UNCHANGED <<lifecycle, config, pc, db, snapshot, dbstats, pos, emitted, outcome,
                      logged, cycleStart, serverUp, serverConns, broken>>
        BY <1>3 DEF ServerActivity
    <2>3. stat' \in 0..MaxStat /\ cycleStart <= stat' /\ resetNull' \in BOOLEAN
        <3>1. stat \in 0..MaxStat /\ cycleStart \in 0..MaxStat /\ cycleStart <= stat
              /\ resetNull \in BOOLEAN
            BY DEF IInv, TypeOK
        <3>2. stat' \in 0..MaxStat /\ cycleStart <= stat'
            BY <2>1, <3>1
        <3>3. resetNull' \in BOOLEAN
            BY <2>1, <3>1, Zenon
        <3>4. QED
            BY <3>2, <3>3
    <2>4. TypeOK'
        BY <2>2, <2>3 DEF IInv, TypeOK
    <2>5. NoLeakedConnection' /\ FreshStats' /\ ReleasedUnlessRaised'
        BY <2>2 DEF IInv, NoLeakedConnection, FreshStats, ReleasedUnlessRaised
    <2>6. QED
        BY <2>2, <2>3, <2>4, <2>5 DEF IInv
<1>4. QED
    BY <1>1, <1>2, <1>3 DEF ServerStep

LEMMA StutterIInv == IInv /\ UNCHANGED vars => IInv'
BY DEF vars, monitor, server, IInv, TypeOK, NoLeakedConnection, FreshStats, ReleasedUnlessRaised

LEMMA NextIInv == IInv /\ [Next]_vars => IInv'
BY InitializeIInv, GatherSampleIInv, RetrieveSizeIInv, RetrieveStatsIInv,
   EmitStatIInv, CloseAtEndIInv, StopIInv, ServerStepIInv, StutterIInv
DEF Next, MonitorStep

(* Every reachable state satisfies the inductive invariant.                *)
THEOREM SpecIInv == Spec => []IInv
BY InitIInv, NextIInv, PTL DEF Spec

(* Type correctness of the monitor and server state.                       *)
THEOREM TypeCorrect == Spec => []TypeOK
BY SpecIInv, PTL DEF IInv

(* The server never holds a connection of the monitor other than the one  *)
(* self._db references: reconnect() and close() never leak a backend.      *)
THEOREM NoLeak == Spec => []NoLeakedConnection
BY SpecIInv, PTL DEF IInv

(* Every cumulative or gauge statistic a cycle emits was read from a       *)
(* snapshot taken after that call of gather_sample began.                  *)
THEOREM Freshness == Spec => []FreshStats
BY SpecIInv, PTL DEF IInv

(* A call of gather_sample that returns normally or warns leaves the       *)
(* server holding no connection of the monitor until the next call, and    *)
(* one that returns normally has cleared self._db: only a call that        *)
(* raised leaves a backend open.                                           *)
THEOREM ReleasedUnlessRaisedHolds == Spec => []ReleasedUnlessRaised
BY SpecIInv, PTL DEF IInv

=============================================================================
