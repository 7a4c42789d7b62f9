--------------------------- MODULE ProcessMonitor ---------------------------
(***************************************************************************)
(* ProcessMonitor instances (windows_process_metrics.py), each run by its  *)
(* own host thread, against a changing process table.                      *)
(*                                                                         *)
(* The METRICS table is module-level and shared by every instance.  One    *)
(* turn of the gather_sample loop is two steps: Extract (the break check,  *)
(* metric.dispatch and extra_fields["app"] = self.__id on the shared dict) *)
(* and Emit (emit_value, which reads that dict).  Metric values are left   *)
(* out: an emission records the metric, the process and the app field.     *)
(***************************************************************************)
EXTENDS Naturals, Sequences, FiniteSets

CONSTANTS
    Instances,   \* the monitor instances, named by their 'id' option
    HasId,       \* the instances whose configuration has the 'id' option
    Procs,       \* pids of the process table, in process_iter order
    SelfProc,    \* os.getpid(), the agent's own process
    NMetrics,    \* bound: the loop walks the first NMetrics entries of METRICS
    ByCommandline, \* the instances configured with a 'commandline' option
    Pid,         \* per instance: its 'pid' option as a process, or None
    Match,       \* per instance: the processes its commandline pattern matches
    Denied,      \* processes whose introspection raises psutil.AccessDenied
    None         \* Python None

(* METRICS: _PROCESS_CPU_METRICS + _PROCESS_ATTRIBUTE_METRICS +          *)
(* _PROCESS_MEMORY_METRICS + _PROCESS_DISK_IO_METRICS, each entry by its   *)
(* metric_name and the "type" of its extra_fields ({} gives None).         *)
METRICS ==
    <<[name |-> "winproc.cpu", type |-> "user"],
      [name |-> "winproc.cpu", type |-> "system"],
      [name |-> "winproc.uptime", type |-> None],
      [name |-> "winproc.threads", type |-> None],
      [name |-> "winproc.mem.bytes", type |-> "working_set"],
      [name |-> "winproc.mem.bytes", type |-> "peak_working_set"],
      [name |-> "winproc.mem.bytes", type |-> "paged_pool"],
      [name |-> "winproc.mem.bytes", type |-> "peak_paged_pool"],
      [name |-> "winproc.mem.bytes", type |-> "nonpaged_pool"],
      [name |-> "winproc.mem.bytes", type |-> "peak_nonpaged_pool"],
      [name |-> "winproc.mem.bytes", type |-> "pagefile"],
      [name |-> "winproc.mem.bytes", type |-> "peak_pagefile"],
      [name |-> "winproc.mem.bytes", type |-> "rss"],
      [name |-> "winproc.mem.bytes", type |-> "vms"],
      [name |-> "winproc.disk.ops", type |-> "read"],
      [name |-> "winproc.disk.ops", type |-> "write"],
      [name |-> "winproc.disk.bytes", type |-> "read"],
      [name |-> "winproc.disk.bytes", type |-> "write"]>>

Metrics == 1..NMetrics

ASSUME ProcAssumption ==
    /\ Procs \subseteq Nat \ {0}
    /\ IsFiniteSet(Procs)
    /\ SelfProc \in Procs
    /\ NMetrics \in 1..Len(METRICS)
    /\ HasId \subseteq Instances
    /\ ByCommandline \subseteq Instances
    /\ Pid \in [Instances -> Procs \cup {None}]
    /\ Match \in [Instances -> SUBSET Procs]
    /\ Denied \subseteq Procs
    /\ None \notin Procs

VARIABLES
    lifecycle, \* per instance: "created", "initialized", "config_error", "stopped"
    pc,        \* per instance: "idle", "extract" or "emit"
    idx,       \* per instance: the index of the loop over METRICS
    process,   \* per instance: self.__process
    emitted,   \* per instance: emissions of its current cycle
    extraApp,  \* per metric: the "app" entry of its shared extra_fields dict
    alive      \* the running processes

vars == <<lifecycle, pc, idx, process, emitted, extraApp, alive>>

Emission == [metric : Metrics, name : {METRICS[m].name : m \in Metrics},
             type : {METRICS[m].type : m \in Metrics}, proc : Procs,
             app : Instances \cup {None}]

-----------------------------------------------------------------------------
(* commandline_matcher's _match_generator: the first process of the        *)
(* iteration whose name or command line matches; those raising            *)
(* AccessDenied are skipped.                                               *)
Candidates(i) == (alive \cap Match[i]) \ Denied

FirstMatch(i) ==
    IF Candidates(i) = {} THEN None
    ELSE CHOOSE p \in Candidates(i) : \A q \in Candidates(i) : p <= q

(* The other processes the iteration visits before it stops.              *)
ReachedFirst(i) ==
    {q \in alive \ {SelfProc} : FirstMatch(i) = None \/ q < FirstMatch(i)}

(* ProcessMonitor.gather_sample through _select_target_process: resolve   *)
(* the target afresh, or lose it to psutil.NoSuchProcess, which the        *)
(* except clause turns into self.__process = None.  A process the          *)
(* iteration reaches before its match may exit between process_iter and    *)
(* name().                                                                 *)
SelectTarget(i) ==
    /\ pc[i] = "idle"
    /\ emitted' = [emitted EXCEPT ![i] = {}]
    /\ idx' = [idx EXCEPT ![i] = 1]
    /\ \/ /\ i \in ByCommandline
          /\ process' = [process EXCEPT ![i] = FirstMatch(i)]
          /\ pc' = [pc EXCEPT ![i] = IF FirstMatch(i) = None THEN "idle" ELSE "extract"]
          /\ UNCHANGED alive
       \/ /\ i \in ByCommandline
          /\ \E q \in ReachedFirst(i) : alive' = alive \ {q}
          /\ process' = [process EXCEPT ![i] = None]
          /\ UNCHANGED pc
       \/ /\ i \notin ByCommandline
          /\ Pid[i] \in Procs
          /\ process' = [process EXCEPT ![i] = IF Pid[i] \in alive THEN Pid[i] ELSE None]
          /\ pc' = [pc EXCEPT ![i] = IF Pid[i] \in alive THEN "extract" ELSE "idle"]
          /\ UNCHANGED alive
       \/ /\ i \notin ByCommandline
          /\ Pid[i] = None
          /\ process' = [process EXCEPT ![i] = None]
          /\ UNCHANGED <<pc, alive>>
    /\ UNCHANGED <<lifecycle, extraApp>>

(* The host calls gather_sample only on an initialized instance.           *)
GatherSample(i) ==
    /\ lifecycle[i] = "initialized"
    /\ SelectTarget(i)

(* The turns of the loop up to emit_value.  After the last metric the     *)
(* loop ends and gather_sample returns.                                    *)
LoopEnd(i) ==
    /\ idx[i] > NMetrics
    /\ pc' = [pc EXCEPT ![i] = "idle"]
    /\ UNCHANGED <<process, extraApp>>

(* metric.dispatch on an exited process raises NoSuchProcess: the except   *)
(* clause drops the handle and the cycle ends without the later metrics.   *)
ProcessGone(i) ==
    /\ idx[i] \in Metrics
    /\ process[i] \notin alive
    /\ pc' = [pc EXCEPT ![i] = "idle"]
    /\ process' = [process EXCEPT ![i] = None]
    /\ UNCHANGED extraApp

(* AccessDenied from metric.dispatch is not caught: it leaves gather_sample *)
(* with the handle still set.                                              *)
DeniedRaises(i) ==
    /\ idx[i] \in Metrics
    /\ process[i] \in alive \cap Denied
    /\ pc' = [pc EXCEPT ![i] = "idle"]
    /\ UNCHANGED <<process, extraApp>>

(* The value is read and the instance writes its id into the metric's      *)
(* shared extra_fields dict.                                               *)
SetApp(i) ==
    /\ idx[i] \in Metrics
    /\ process[i] \in alive \ Denied
    /\ extraApp' = [extraApp EXCEPT ![idx[i]] = i]
    /\ pc' = [pc EXCEPT ![i] = "emit"]
    /\ UNCHANGED process

(* Mutant: NoSuchProcess caught per metric, the loop going on with the    *)
(* next metric instead of abandoning the cycle.                            *)
ExtractSkippingExited(i) ==
    /\ pc[i] = "extract"
    /\ \/ /\ LoopEnd(i) \/ DeniedRaises(i) \/ SetApp(i)
          /\ UNCHANGED idx
       \/ /\ idx[i] \in Metrics
          /\ process[i] \notin alive
          /\ idx' = [idx EXCEPT ![i] = @ + 1]
          /\ UNCHANGED <<pc, process, extraApp>>
    /\ UNCHANGED <<lifecycle, emitted, alive>>

(* Mutant: the handle dropped on NoSuchProcess but the metric still       *)
(* emitted.                                                                *)
ExtractEmittingAfterExit(i) ==
    /\ pc[i] = "extract"
    /\ \/ LoopEnd(i) \/ DeniedRaises(i) \/ SetApp(i)
       \/ /\ idx[i] \in Metrics
          /\ process[i] \notin alive
          /\ pc' = [pc EXCEPT ![i] = "emit"]
          /\ process' = [process EXCEPT ![i] = None]
          /\ UNCHANGED extraApp
    /\ UNCHANGED <<lifecycle, idx, emitted, alive>>

(* One turn of the gather_sample loop up to emit_value.                    *)
Extract(i) ==
    /\ pc[i] = "extract"
    /\ LoopEnd(i) \/ ProcessGone(i) \/ DeniedRaises(i) \/ SetApp(i)
    /\ UNCHANGED <<lifecycle, idx, emitted, alive>>

(* The line emit_value(metric_name, metric_value, extra_fields) writes:   *)
(* it carries the dict's "app" entry as it is when emit_value runs.        *)
MetricLine(i) ==
    [metric |-> idx[i], name |-> METRICS[idx[i]].name, type |-> METRICS[idx[i]].type,
     proc |-> process[i], app |-> extraApp[idx[i]]]

(* self._logger.emit_value for the current metric.                         *)
Emit(i) ==
    /\ pc[i] = "emit"
    /\ emitted' = [emitted EXCEPT ![i] = @ \cup {MetricLine(i)}]
    /\ idx' = [idx EXCEPT ![i] = @ + 1]
    /\ pc' = [pc EXCEPT ![i] = "extract"]
    /\ UNCHANGED <<lifecycle, process, extraApp, alive>>

(* ProcessMonitor._initialize: the 'id' option is required.                *)
Initialize(i) ==
    /\ lifecycle[i] = "created"
    /\ lifecycle' = [lifecycle EXCEPT ![i] = IF i \in HasId THEN "initialized"
                                                         ELSE "config_error"]
    /\ UNCHANGED <<pc, idx, process, emitted, extraApp, alive>>

(* The host stops an instance between two calls of gather_sample.          *)
Stop(i) ==
    /\ lifecycle[i] = "initialized"
    /\ pc[i] = "idle"
    /\ lifecycle' = [lifecycle EXCEPT ![i] = "stopped"]
    /\ UNCHANGED <<pc, idx, process, emitted, extraApp, alive>>

-----------------------------------------------------------------------------
(* The process table: a process other than the agent exits, or one starts. *)
ProcessExit ==
    /\ \E q \in alive \ {SelfProc} : alive' = alive \ {q}
    /\ UNCHANGED <<lifecycle, pc, idx, process, emitted, extraApp>>

ProcessStart ==
    /\ \E q \in Procs \ alive : alive' = alive \cup {q}
    /\ UNCHANGED <<lifecycle, pc, idx, process, emitted, extraApp>>

-----------------------------------------------------------------------------
Init ==
    /\ lifecycle = [i \in Instances |-> "created"]
    /\ pc = [i \in Instances |-> "idle"]
    /\ idx = [i \in Instances |-> 1]
    /\ process = [i \in Instances |-> None]
    /\ emitted = [i \in Instances |-> {}]
    /\ extraApp = [m \in Metrics |-> None]
    /\ alive \in {A \in SUBSET Procs : SelfProc \in A}

Next ==
    \/ \E i \in Instances :
          Initialize(i) \/ GatherSample(i) \/ Extract(i) \/ Emit(i) \/ Stop(i)
    \/ ProcessExit
    \/ ProcessStart

Spec == Init /\ [][Next]_vars

-----------------------------------------------------------------------------
TypeOK ==
    /\ lifecycle \in [Instances -> {"created", "initialized", "config_error", "stopped"}]
    /\ pc \in [Instances -> {"idle", "extract", "emit"}]
    /\ idx \in [Instances -> 1..NMetrics + 1]
    /\ process \in [Instances -> Procs \cup {None}]
    /\ emitted \in [Instances -> SUBSET Emission]
    /\ extraApp \in [Metrics -> Instances \cup {None}]
    /\ alive \subseteq Procs
    /\ SelfProc \in alive

(* Spec section 8: when the process disappears between metric N and N+1,  *)
(* no metric after N is emitted; so a cycle's emissions are always the     *)
(* first metrics of METRICS in declaration order, with no gap.             *)
EmissionsFormPrefix ==
    \A i \in Instances :
        \E k \in 0..NMetrics : {e.metric : e \in emitted[i]} = 1..k

(* Every metric line an instance emits carries that instance's id in its  *)
(* "app" field (spec section 4.3 step 3, and section 5: instances share no *)
(* mutable state).                                                         *)
AppIsOwnId ==
    \A i \in Instances : \A e \in emitted[i] : e.app = i

(* The inductive strengthening of TypeOK and EmissionsFormPrefix: an       *)
(* instance's lines are exactly those of the metrics before its loop index, *)
(* and while its loop runs it holds a process handle.                      *)
IInv ==
    /\ TypeOK
    /\ \A i \in Instances :
          /\ {e.metric : e \in emitted[i]} = 1..(idx[i] - 1)
          /\ pc[i] # "idle" => process[i] \in Procs
          /\ pc[i] = "emit" => idx[i] \in Metrics
(* Spec section 4.3 step 1: by command line, the target is the first live  *)
(* process that matches, and only processes denying access are skipped.    *)
(* So a call of gather_sample whose first matching process is alive when  *)
(* the iteration starts and still alive when it ends selects that process, *)
(* whatever other processes exit while process_iter is walked.             *)
MatchSurvivesExits ==
    [][\A i \in ByCommandline :
          GatherSample(i) /\ FirstMatch(i) # None /\ FirstMatch(i) \in alive'
              => process'[i] = FirstMatch(i)]_vars
=============================================================================
