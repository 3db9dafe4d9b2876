------------------------- MODULE Dependencies_proofs -------------------------
(***************************************************************************)
(* The dependency graph for any set of generations and any holders: it is  *)
(* a behaviour of the domain, and a lease keeps its generation.            *)
(***************************************************************************)
EXTENDS Dependencies, Domain_proofs

-----------------------------------------------------------------------------
\* Every step is one of the domain or leaves the domain alone.
LEMMA DepStepRefines == [DepNext]_depVars => [DomainNext]_dvars
<1> SUFFICES ASSUME [DepNext]_depVars PROVE [DomainNext]_dvars
  OBVIOUS
<1>1. ASSUME NEW h \in Holders, LeaseStep(h) PROVE UNCHANGED dvars
  BY <1>1 DEF LeaseStep, Acquire, Clone, Release, Keep, Send, Discard
<1>2. ASSUME NEW h \in Holders, NEW g \in Gens, Make(h, g) PROVE DomainNext
  BY <1>2 DEF Make, CreatorStep, DomainNext
<1>3. ASSUME NEW g \in Gens, MakeRefused(g) \/ Made(g) PROVE DomainNext
  BY <1>3 DEF MakeRefused, Made, CreatorStep, DomainNext
<1>4. ASSUME NEW g \in Gens, TaskKilled(g) \/ \E o \in Results : TaskReturns(g, o)
      PROVE  DomainNext
  BY <1>4 DEF TaskKilled, TaskReturns, TaskStep, DomainNext
<1>5. ASSUME NEW g \in Gens, EntryGone(g) PROVE DomainNext
  BY <1>5 DEF EntryGone, DomainNext
<1>6. ASSUME NEW g \in Gens,
             Register(g) \/ Supervise(g) \/ BeginPoll(g) \/ EndPoll(g) \/ MonitorStep(g)
      PROVE  DomainNext
  BY <1>6 DEF CreatorStep, TaskStep, DomainNext
<1>7. ASSUME NEW s \in Stoppers, StopperStep(s) \/ \E m \in Calls : Call(s, m) PROVE DomainNext
  BY <1>7 DEF DomainNext
<1>8. UNCHANGED depVars => UNCHANGED dvars
  BY DEF depVars
<1>9. QED
  BY <1>1, <1>2, <1>3, <1>4, <1>5, <1>6, <1>7, <1>8 DEF DepNext

\* The steps of this module are made from those of Domain, whose theorems
\* therefore hold of it.
LEMMA DependenciesAreADomain == DepSpec => DomainSpec
<1>1. DepInit => DomainInit
  BY DEF DepInit
<1>2. QED
  BY <1>1, DepStepRefines, PTL DEF DepSpec, DomainSpec

\* So the promises of module Lifecycle hold whatever leases form a cycle.
THEOREM DependenciesKeepLifecycle == DepSpec => KeepsLifecycle
<1>1. QED
  BY DependenciesAreADomain, DomainKeepsLifecycle, PTL

-----------------------------------------------------------------------------
LEMMA DepInitInv == DepInit => DepInv
<1> SUFFICES ASSUME DepInit PROVE DepInv
  OBVIOUS
<1>1. IInv
  BY DomainInitInv DEF DepInit
<1>2. DepTypeOK /\ LeaseInv /\ DependencyAlive
  BY OutsideAssumption
     DEF DepInit, DomainInit, DepTypeOK, LeaseInv, DependencyAlive, Leased, Depends, Holders, Outcomes
<1>3. QED
  BY <1>1, <1>2 DEF DepInv

\* A step that only moves leases.
LEMMA LeaseStepInv ==
  ASSUME DepInv, NEW h \in Holders, LeaseStep(h), IInv'
  PROVE  DepInv'
<1> USE OutsideAssumption
    DEF DepInv, DepTypeOK, LeaseInv, DependencyAlive, Leased, Depends, Holders, Runs, Reaches,
        Clonable, Hold, Accepting, Outcomes, dvars, domainVars, genVars, stopVars
<1>1. ASSUME NEW x \in Gens, Acquire(h, x) PROVE DepInv'
  BY <1>1 DEF Acquire
<1>2. ASSUME NEW x \in Gens, Clone(h, x) PROVE DepInv'
  BY <1>2 DEF Clone
<1>3. ASSUME NEW x \in Gens, Release(h, x) PROVE DepInv'
  BY <1>3 DEF Release
<1>4. ASSUME NEW x \in Gens, NEW g \in Gens, Keep(h, g, x) PROVE DepInv'
  BY <1>4 DEF Keep
<1>5. ASSUME NEW x \in Gens, NEW g \in Gens, Send(h, g, x) PROVE DepInv'
  BY <1>5 DEF Send
<1>6. ASSUME NEW x \in Gens, NEW g \in Gens, Discard(h, g, x) PROVE DepInv'
  BY <1>6 DEF Discard
<1>7. QED
  BY <1>1, <1>2, <1>3, <1>4, <1>5, <1>6 DEF LeaseStep

LEMMA GenStepDep ==
  ASSUME DepInv, IInv', NEW g \in Gens,
         \/ \E h \in Holders : Make(h, g)
         \/ MakeRefused(g) \/ Made(g) \/ TaskKilled(g) \/ EntryGone(g)
         \/ \E o \in Results : TaskReturns(g, o)
         \/ Unleased /\ (Register(g) \/ Supervise(g) \/ BeginPoll(g) \/ EndPoll(g) \/ MonitorStep(g))
  PROVE  DepInv'
<1> USE OutsideAssumption
    DEF DepInv, DepTypeOK, LeaseInv, DependencyAlive, Leased, Depends, Holders, Runs,
        Hold, Accepting, Outcomes, CancelPhase, Unleased, leaseVars, domainVars, genVars, stopVars
<1>1. ASSUME NEW h \in Holders, Make(h, g) PROVE DepInv'
  <2>1. PICK T \in SUBSET Gens, F \in SUBSET Gens :
          /\ \A x \in T \cup F : Clonable(h, x)
          /\ held' = [held EXCEPT ![g] = T] /\ kept' = [kept EXCEPT ![g] = F]
    BY <1>1 DEF Make
  <2>2. \A x \in T \cup F : x \in Gens /\ monitor[x] # "none" /\ Leased(x)
    BY <2>1 DEF Clonable
  <2>3. /\ creation[g] = "unborn" /\ held[g] = {} /\ kept[g] = {} /\ maker[g] = None
        /\ monitor[g] = "none" /\ g \notin dropped /\ g \notin gate /\ h # g
        /\ h \in Gens => task[h] = "body"
    BY <1>1 DEF Make, Create, IInv, TypeOK, GenInv
  <2>4. /\ UNCHANGED <<domainVars, phase, gate, monitor, outcome, live, stopVars, dropped>>
        /\ creation' = [creation EXCEPT ![g] = "spawned"] /\ task' = [task EXCEPT ![g] = "gated"]
        /\ maker' = [maker EXCEPT ![g] = h]
    BY <1>1 DEF Make, Create
  <2>5. \A x \in Gens \ {g} : Leased(x)' <=> Leased(x)
    BY <2>1, <2>2, <2>3, <2>4
  <2>6. DepTypeOK' /\ DependencyAlive'
    BY <2>1, <2>2, <2>3, <2>4, <2>5
  <2>7. LeaseInv'
    BY <2>1, <2>2, <2>3, <2>4, <2>5 DEF IInv, TypeOK
  <2>8. QED
    BY <2>6, <2>7
<1>2. CASE MakeRefused(g)
  BY <1>2 DEF MakeRefused, Refuse, IInv, TypeOK, GenInv
<1>3. CASE Made(g)
  <2>1. CASE maker[g] = None
    BY <1>3, <2>1 DEF Made, Start
  <2>2. CASE maker[g] # None
    <3>1. monitor[g] # "none" /\ maker[g] \in Holders /\ Leased(g)
      BY <1>3, <2>2 DEF Made, Start
    <3>2. QED
      BY <1>3, <2>2, <3>1 DEF Made, Start
  <2>3. QED
    BY <2>1, <2>2
<1>4. CASE TaskKilled(g)
  BY <1>4 DEF TaskKilled, Kill, Unhold, Busy, IInv, TypeOK
<1>5. CASE EntryGone(g)
  BY <1>5 DEF EntryGone, EntryDrop, IInv, TypeOK
<1>6. ASSUME NEW o \in Results, TaskReturns(g, o) PROVE DepInv'
  BY <1>6, ResultsAssumption DEF TaskReturns, BodyReturns, Unhold, Busy, IInv, TypeOK
<1>7. CASE Unleased /\ (Register(g) \/ Supervise(g))
  BY <1>7 DEF Register, Supervise, IInv, TypeOK, GenInv
<1>8. CASE Unleased /\ (BeginPoll(g) \/ EndPoll(g))
  BY <1>8 DEF BeginPoll, EndPoll, IInv, TypeOK
<1>9. CASE Unleased /\ MonitorStep(g)
  BY <1>9 DEF MonitorStep, Finish, Cleanup, Publish, Unlist, TaskFinished, NotifyQuiescent,
              IInv, TypeOK
<1>10. QED
  BY <1>1, <1>2, <1>3, <1>4, <1>5, <1>6, <1>7, <1>8, <1>9

LEMMA StopperStepDep ==
  ASSUME DepInv, IInv', NEW s \in Stoppers, StopperStep(s) \/ \E m \in Calls : Call(s, m), Unleased
  PROVE  DepInv'
<1> USE DEF DepInv, DepTypeOK, LeaseInv, DependencyAlive, Leased, Depends, Accepting, Unleased,
            leaseVars, domainVars, genVars, stopVars
<1>1. ASSUME NEW g \in Gens, Signal(s, g) PROVE DepInv'
  BY <1>1 DEF Signal, IInv, StopInv, CancelPhase, TypeOK
<1>2. CASE Lock(s) \/ Snapshot(s)
  BY <1>2 DEF Lock, Snapshot
<1>3. CASE \/ \E m \in Calls : Call(s, m)
           \/ CancelDone(s) \/ SnapshotAborts(s) \/ AbortDone(s) \/ Subscribe(s)
           \/ Check(s) \/ Poll(s) \/ Awake(s) \/ \E g \in Gens : Abort(s, g)
  BY <1>3 DEF Call, CancelDone, SnapshotAborts, AbortDone, Subscribe, Check, Poll, Awake, Abort
<1>4. QED
  BY <1>1, <1>2, <1>3 DEF StopperStep

LEMMA DepStepInv == DepInv /\ [DepNext]_depVars => DepInv'
<1> SUFFICES ASSUME DepInv, [DepNext]_depVars PROVE DepInv'
  OBVIOUS
<1>1. IInv'
  BY DepStepRefines, DomainStepInv DEF DepInv
<1>2. CASE UNCHANGED depVars
  BY <1>1, <1>2 DEF depVars, dvars, domainVars, genVars, stopVars, leaseVars, DepInv, DepTypeOK,
                    LeaseInv, DependencyAlive, Leased, Depends, Accepting
<1>3. CASE DepNext
  BY <1>1, <1>3, LeaseStepInv, GenStepDep, StopperStepDep DEF DepNext
<1>4. QED
  BY <1>2, <1>3

LEMMA DepInvariant == DepSpec => []DepInv
<1>1. QED
  BY DepInitInv, DepStepInv, PTL DEF DepSpec

\* The types of the dependency graph.
THEOREM DependencyTypes == DepSpec => []DepTypeOK
<1>1. DepInv => DepTypeOK
  BY DEF DepInv
<1>2. QED
  BY <1>1, DepInvariant, PTL

\* A lease, whoever holds it, keeps the entry, and only the end of the domain
\* cancels the generation.
THEOREM LeasesKeepAlive == DepSpec => []DependencyAlive
<1>1. DepInv => DependencyAlive
  BY DEF DepInv
<1>2. QED
  BY <1>1, DepInvariant, PTL

\* The tasks that are over, and all tasks of a Terminated domain, hold nothing.
THEOREM OutcomeReleases == DepSpec => []OutcomeReleasesDependencies
<1>1. DepInv => OutcomeReleasesDependencies
  BY DEF DepInv, LeaseInv, OutcomeReleasesDependencies, IInv, GenInv
<1>2. QED
  BY <1>1, DepInvariant, PTL

\* Without leases a generation stays without leases.
THEOREM DroppedForGood == DepSpec => NoResurrection
<1>1. DepInv /\ [DepNext]_depVars =>
        [\A g \in Gens : monitor[g] # "none" /\ ~Leased(g) => ~Leased(g)']_depVars
  <2> SUFFICES ASSUME DepInv, DepNext, NEW x \in Gens, monitor[x] # "none", ~Leased(x)
               PROVE  ~Leased(x)'
    OBVIOUS
  <2> USE OutsideAssumption DEF DepInv, DepTypeOK, LeaseInv, Leased, Depends, Holders, Hold
  <2>1. ASSUME NEW h \in Holders, LeaseStep(h) PROVE ~Leased(x)'
    BY <2>1 DEF LeaseStep, Acquire, Clone, Release, Keep, Send, Discard, Reaches, Clonable, Leased
  <2>2. ASSUME NEW h \in Holders, NEW g \in Gens, Make(h, g) PROVE ~Leased(x)'
    BY <2>2 DEF Make, Create, Clonable, Reaches
  <2>3. ASSUME NEW g \in Gens,
               MakeRefused(g) \/ TaskKilled(g) \/ EntryGone(g) \/ \E o \in Results : TaskReturns(g, o)
        PROVE  ~Leased(x)'
    BY <2>3 DEF MakeRefused, TaskKilled, EntryGone, TaskReturns, Unhold
  <2>4. ASSUME NEW g \in Gens, Made(g) PROVE ~Leased(x)'
    BY <2>4 DEF Made
  <2>5. ASSUME Unleased PROVE ~Leased(x)'
    BY <2>5 DEF Unleased, leaseVars
  <2>6. QED
    BY <2>1, <2>2, <2>3, <2>4, <2>5 DEF DepNext
<1>2. QED
  BY <1>1, DepInvariant, PTL DEF DepSpec, NoResurrection
=============================================================================
