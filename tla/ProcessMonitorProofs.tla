----------------------- MODULE ProcessMonitorProofs -----------------------
(***************************************************************************)
(* Proofs, for any number of instances, processes and metrics, that        *)
(* ProcessMonitor keeps TypeOK and EmissionsFormPrefix.  Both follow from  *)
(* the inductive invariant IInv.                                           *)
(***************************************************************************)
EXTENDS ProcessMonitor, WellFoundedInduction, TLAPS

USE ProcAssumption

(* The bound on the loop is a positive number.                             *)
LEMMA NMetricsPositive == NMetrics \in Nat \ {0} /\ Metrics = 1..NMetrics
<1>1. Len(METRICS) = 18
    BY DEF METRICS
<1>2. QED
    BY <1>1 DEF Metrics

(* The first process of the iteration that matches is one of the          *)
(* candidates: a non-empty set of pids has a least element.                *)
LEMMA FirstMatchCandidate ==
    ASSUME NEW i \in Instances, Candidates(i) # {}
    PROVE  FirstMatch(i) \in Candidates(i)
<1>1. Candidates(i) \subseteq Nat
    BY DEF Candidates
<1>2. \E x \in Candidates(i) : \A y \in Candidates(i) : ~(<<y, x>> \in OpToRel(<, Nat))
    BY <1>1, WFMin, NatLessThanWellFounded
<1>3. \E x \in Candidates(i) : \A y \in Candidates(i) : x <= y
    <2>1. PICK x \in Candidates(i) : \A y \in Candidates(i) : ~(<<y, x>> \in OpToRel(<, Nat))
        BY <1>2
    <2>2. ASSUME NEW y \in Candidates(i) PROVE x <= y
        <3>1. ~(<<y, x>> \in {ss \in Nat \X Nat : ss[1] < ss[2]})
            BY <2>1 DEF OpToRel
        <3>2. QED
            BY <1>1, <3>1
    <2>3. QED
        BY <2>2
<1>4. (CHOOSE p \in Candidates(i) : \A q \in Candidates(i) : p <= q) \in Candidates(i)
    BY <1>3
<1>5. QED
    BY <1>4 DEF FirstMatch

(* The line an instance about to call emit_value writes is an Emission,    *)
(* for the metric at its loop index, tagged with the dict's app entry.     *)
LEMMA MetricLineType ==
    ASSUME IInv, NEW i \in Instances, pc[i] = "emit"
    PROVE  /\ MetricLine(i) \in Emission
           /\ MetricLine(i).metric = idx[i]
           /\ MetricLine(i).app = extraApp[idx[i]]
<1>1. idx[i] \in Metrics /\ process[i] \in Procs
    BY DEF IInv
<1>2. QED
    BY <1>1 DEF IInv, TypeOK, Emission, MetricLine

LEMMA InitIInv == Init => IInv
BY DEF Init, IInv, TypeOK

LEMMA SelectTargetIInv ==
    ASSUME NEW i \in Instances, IInv, SelectTarget(i)
    PROVE  IInv'
<1>1. FirstMatch(i) \in Procs \cup {None}
    BY FirstMatchCandidate DEF Candidates, FirstMatch
<1>2. ReachedFirst(i) \subseteq alive \ {SelfProc}
    BY DEF ReachedFirst
<1>3. TypeOK'
    <2>1. pc' \in [Instances -> {"idle", "extract", "emit"}]
          /\ process' \in [Instances -> Procs \cup {None}]
          /\ alive' \subseteq Procs /\ SelfProc \in alive'
        <3>1. CASE i \in ByCommandline /\ process' = [process EXCEPT ![i] = FirstMatch(i)]
                   /\ UNCHANGED alive
                   /\ pc' = [pc EXCEPT ![i] = IF FirstMatch(i) = None THEN "idle" ELSE "extract"]
            BY <1>1, <3>1 DEF IInv, TypeOK
        <3>2. CASE \E q \in ReachedFirst(i) : alive' = alive \ {q}
                   /\ process' = [process EXCEPT ![i] = None] /\ UNCHANGED pc
            BY <1>2, <3>2 DEF IInv, TypeOK
        <3>3. CASE Pid[i] \in Procs
                   /\ process' = [process EXCEPT ![i] = IF Pid[i] \in alive THEN Pid[i] ELSE None]
                   /\ pc' = [pc EXCEPT ![i] = IF Pid[i] \in alive THEN "extract" ELSE "idle"]
                   /\ UNCHANGED alive
            BY <3>3 DEF IInv, TypeOK
        <3>4. CASE process' = [process EXCEPT ![i] = None] /\ UNCHANGED <<pc, alive>>
            BY <3>4 DEF IInv, TypeOK
        <3>5. QED
            BY <3>1, <3>2, <3>3, <3>4 DEF SelectTarget
    <2>2. QED
        BY <2>1 DEF SelectTarget, IInv, TypeOK
<1>4. \A j \in Instances : {e.metric : e \in emitted'[j]} = 1..(idx'[j] - 1)
    BY DEF SelectTarget, IInv, TypeOK
<1>5. \A j \in Instances : pc'[j] # "idle" => process'[j] \in Procs
    BY <1>1 DEF SelectTarget, IInv, TypeOK
<1>6. \A j \in Instances : pc'[j] = "emit" => idx'[j] \in Metrics
    BY DEF SelectTarget, IInv, TypeOK
<1>7. QED
    BY <1>3, <1>4, <1>5, <1>6 DEF IInv

LEMMA ExtractIInv ==
    ASSUME NEW i \in Instances, IInv, Extract(i)
    PROVE  IInv'
<1>1. CASE LoopEnd(i)
    BY <1>1 DEF Extract, LoopEnd, IInv, TypeOK
<1>2. CASE ProcessGone(i)
    BY <1>2 DEF Extract, ProcessGone, IInv, TypeOK
<1>3. CASE DeniedRaises(i)
    BY <1>3 DEF Extract, DeniedRaises, IInv, TypeOK
<1>4. CASE SetApp(i)
    BY <1>4 DEF Extract, SetApp, IInv, TypeOK
<1>5. QED
    BY <1>1, <1>2, <1>3, <1>4 DEF Extract

LEMMA EmitIInv ==
    ASSUME NEW i \in Instances, IInv, Emit(i)
    PROVE  IInv'
<1>1. idx[i] \in Metrics /\ pc[i] = "emit"
    BY DEF Emit, IInv
<1>2. MetricLine(i) \in Emission /\ MetricLine(i).metric = idx[i]
    BY <1>1, MetricLineType
<1>3. emitted' = [emitted EXCEPT ![i] = @ \cup {MetricLine(i)}] /\ idx' = [idx EXCEPT ![i] = @ + 1]
    BY DEF Emit
<1>4. emitted'[i] = emitted[i] \cup {MetricLine(i)} /\ idx'[i] = idx[i] + 1
    BY <1>3 DEF IInv, TypeOK
<1>5. {e.metric : e \in emitted'[i]} = 1..(idx'[i] - 1)
    <2>1. {e.metric : e \in emitted[i]} = 1..(idx[i] - 1)
        BY DEF IInv
    <2>2. {e.metric : e \in emitted'[i]} = {e.metric : e \in emitted[i]} \cup {idx[i]}
        BY <1>2, <1>4
    <2>3. 1..(idx[i] - 1) \cup {idx[i]} = 1..(idx'[i] - 1)
        BY <1>1, <1>4, NMetricsPositive
    <2>4. QED
        BY <2>1, <2>2, <2>3
<1>6. TypeOK'
    <2>1. emitted' \in [Instances -> SUBSET Emission]
        BY <1>2, <1>3 DEF IInv, TypeOK
    <2>2. idx' \in [Instances -> 1..NMetrics + 1]
        BY <1>1, <1>3, NMetricsPositive DEF IInv, TypeOK
    <2>3. QED
        BY <2>1, <2>2 DEF Emit, IInv, TypeOK
<1>7. QED
    BY <1>1, <1>3, <1>5, <1>6 DEF Emit, IInv, TypeOK

LEMMA InitializeIInv ==
    ASSUME NEW i \in Instances, IInv, Initialize(i)
    PROVE  IInv'
BY DEF Initialize, IInv, TypeOK

LEMMA StopIInv ==
    ASSUME NEW i \in Instances, IInv, Stop(i)
    PROVE  IInv'
BY DEF Stop, IInv, TypeOK

LEMMA EnvironmentIInv == IInv /\ (ProcessExit \/ ProcessStart) => IInv'
BY DEF ProcessExit, ProcessStart, IInv, TypeOK

LEMMA NextIInv == IInv /\ [Next]_vars => IInv'
<1> SUFFICES ASSUME IInv, [Next]_vars PROVE IInv'
    OBVIOUS
<1>1. CASE \E i \in Instances : GatherSample(i)
    BY <1>1, SelectTargetIInv DEF GatherSample
<1>2. CASE \E i \in Instances : Initialize(i) \/ Extract(i) \/ Emit(i) \/ Stop(i)
    BY <1>2, InitializeIInv, ExtractIInv, EmitIInv, StopIInv
<1>3. CASE ProcessExit \/ ProcessStart
    BY <1>3, EnvironmentIInv
<1>4. CASE UNCHANGED vars
    BY <1>4 DEF vars, IInv, TypeOK
<1>5. QED
    BY <1>1, <1>2, <1>3, <1>4 DEF Next

(* Every reachable state satisfies the inductive invariant.                *)
THEOREM SpecIInv == Spec => []IInv
BY InitIInv, NextIInv, PTL DEF Spec

(* Type correctness of every instance and of the shared METRICS dicts.     *)
THEOREM TypeCorrect == Spec => []TypeOK
BY SpecIInv, PTL DEF IInv

(* Whenever the target process exits, NoSuchProcess ends the loop: the     *)
(* lines of a cycle are always the first metrics of METRICS, with no gap.  *)
THEOREM Prefix == Spec => []EmissionsFormPrefix
<1>1. IInv => EmissionsFormPrefix
    <2> SUFFICES ASSUME IInv, NEW i \in Instances
                 PROVE  \E k \in 0..NMetrics : {e.metric : e \in emitted[i]} = 1..k
        BY DEF EmissionsFormPrefix
    <2>1. idx[i] - 1 \in 0..NMetrics
        BY DEF IInv, TypeOK
    <2>2. QED
        BY <2>1 DEF IInv
<1>2. QED
    BY <1>1, SpecIInv, PTL

=============================================================================
