---------------------------- MODULE Domain_proofs ----------------------------
(***************************************************************************)
(* The safety of the domain, for any set of generations and any callers of *)
(* cancel(), shutdown() and terminate().                                   *)
(***************************************************************************)
EXTENDS Domain, TLAPS

LEMMA DomainInitInv == DomainInit => IInv
<1> SUFFICES ASSUME DomainInit PROVE IInv
  OBVIOUS
<1> USE DEF DomainInit
<1>1. TypeOK
  BY DEF TypeOK, Phases, Monitors, Outcomes
<1>2. GenInv /\ StopInv
  BY DEF GenInv, StopInv, PastSignal
<1>3. ShutdownMeansTerminated /\ NoLostWakeup /\ ShutdownHasAnEnder /\ CancelSignalsEveryTask
  BY DEF ShutdownMeansTerminated, NoLostWakeup, ShutdownHasAnEnder, CancelSignalsEveryTask,
         PastSignal
<1>4. QED
  BY <1>1, <1>2, <1>3 DEF IInv

\* The steps of a generation's creator, of its managed task and of its
\* supervising task.
LEMMA GenStepInv ==
  ASSUME IInv, NEW g \in Gens, CreatorStep(g) \/ EntryDrop(g) \/ TaskStep(g) \/ MonitorStep(g)
  PROVE  IInv'
<1> USE DEF IInv, TypeOK, GenInv, StopInv, ShutdownMeansTerminated, NoLostWakeup,
            ShutdownHasAnEnder, CancelSignalsEveryTask, PastSignal, Phases, Monitors, Outcomes,
            SupervisorFree, Accepting, CancelPhase, domainVars, genVars, stopVars
<1>1. CASE Create(g)
  BY <1>1 DEF Create
<1>2. CASE Register(g)
  BY <1>2 DEF Register
<1>3. CASE Refuse(g)
  BY <1>3 DEF Refuse
<1>4. CASE Supervise(g)
  BY <1>4 DEF Supervise
<1>5. CASE Start(g)
  BY <1>5 DEF Start
<1>6. CASE EntryDrop(g)
  BY <1>6 DEF EntryDrop
<1>7. CASE TaskStep(g)
  BY <1>7, ResultsAssumption DEF TaskStep, BeginPoll, EndPoll, Kill, BodyReturns
<1>8. CASE Finish(g)
  BY <1>8 DEF Finish
<1>9. CASE Cleanup(g)
  BY <1>9 DEF Cleanup
<1>10. CASE Publish(g)
  BY <1>10 DEF Publish
<1>11. CASE Unlist(g)
  BY <1>11 DEF Unlist
<1>12. CASE TaskFinished(g)
  BY <1>12 DEF TaskFinished
<1>13. CASE NotifyQuiescent(g)
  BY <1>13 DEF NotifyQuiescent, Listening
<1>14. QED
  BY <1>1, <1>2, <1>3, <1>4, <1>5, <1>6, <1>7, <1>8, <1>9, <1>10, <1>11, <1>12, <1>13
     DEF CreatorStep, MonitorStep

\* The steps of a caller of cancel(), shutdown() or terminate().
LEMMA StopperStepInv ==
  ASSUME IInv, NEW s \in Stoppers, StopperStep(s) \/ \E m \in Calls : Call(s, m)
  PROVE  IInv'
<1> USE DEF IInv, TypeOK, GenInv, StopInv, ShutdownMeansTerminated, NoLostWakeup,
            ShutdownHasAnEnder, CancelSignalsEveryTask, PastSignal, Phases, Monitors, Outcomes,
            SupervisorFree, Accepting, CancelPhase, domainVars, genVars, stopVars, Goto
<1>1. CASE \E m \in Calls : Call(s, m)
  BY <1>1, CallsAssumption DEF Call
<1>2. CASE Lock(s)
  BY <1>2 DEF Lock
<1>3. CASE Snapshot(s)
  BY <1>3 DEF Snapshot, Controls, Listening
<1>4. CASE CancelDone(s)
  BY <1>4 DEF CancelDone, AfterCancel
<1>5. CASE SnapshotAborts(s)
  BY <1>5 DEF SnapshotAborts
<1>6. CASE AbortDone(s)
  BY <1>6 DEF AbortDone
<1>7. CASE Subscribe(s)
  BY <1>7 DEF Subscribe
<1>8. CASE Check(s)
  BY <1>8 DEF Check
<1>9. CASE Poll(s)
  BY <1>9 DEF Poll
<1>10. CASE Awake(s)
  BY <1>10 DEF Awake
<1>11. ASSUME NEW g \in Gens, Signal(s, g) PROVE IInv'
  BY <1>11 DEF Signal
<1>12. ASSUME NEW g \in Gens, Abort(s, g) PROVE IInv'
  BY <1>12 DEF Abort
<1>13. QED
  BY <1>1, <1>2, <1>3, <1>4, <1>5, <1>6, <1>7, <1>8, <1>9, <1>10, <1>11, <1>12
     DEF StopperStep

LEMMA DomainStepInv == IInv /\ [DomainNext]_dvars => IInv'
<1> SUFFICES ASSUME IInv, [DomainNext]_dvars PROVE IInv'
  OBVIOUS
<1>1. CASE UNCHANGED dvars
  BY <1>1 DEF dvars, domainVars, genVars, stopVars, IInv, TypeOK, GenInv, StopInv,
              ShutdownMeansTerminated, NoLostWakeup, ShutdownHasAnEnder, SupervisorFree,
              CancelSignalsEveryTask, PastSignal, Phases, Monitors, Outcomes
<1>2. CASE DomainNext
  BY <1>2, GenStepInv, StopperStepInv DEF DomainNext
<1>3. QED
  BY <1>1, <1>2

LEMMA DomainInvariant == DomainSpec => []IInv
<1>1. QED
  BY DomainInitInv, DomainStepInv, PTL DEF DomainSpec

\* The types of the domain, of its tasks and of the callers that stop it.
THEOREM DomainTypes == DomainSpec => []TypeOK
<1>1. IInv => TypeOK
  BY DEF IInv
<1>2. QED
  BY <1>1, DomainInvariant, PTL

\* A domain that says it is Terminated has no managed generation whose task,
\* outcome or registration is still open, for any number of generations.
THEOREM TerminatedQuiescent == DomainSpec => []TerminatedIsQuiescent
<1>1. IInv => TerminatedIsQuiescent
  BY DEF IInv, GenInv, ShutdownMeansTerminated, TerminatedIsQuiescent
<1>2. QED
  BY <1>1, DomainInvariant, PTL

\* shutdown() and terminate() return into a Terminated domain only.
THEOREM ShutdownTerminates == DomainSpec => []ShutdownMeansTerminated
<1>1. IInv => ShutdownMeansTerminated
  BY DEF IInv
<1>2. QED
  BY <1>1, DomainInvariant, PTL

\* No caller of shutdown() waits for a notification that has been missed.
THEOREM WakeupKept == DomainSpec => []NoLostWakeup
<1>1. IInv => NoLostWakeup
  BY DEF IInv
<1>2. QED
  BY <1>1, DomainInvariant, PTL

\* A domain that shuts down has a task, or a lock holder, that will end it.
THEOREM ShutdownEnds == DomainSpec => []ShutdownHasAnEnder
<1>1. IInv => ShutdownHasAnEnder
  BY DEF IInv
<1>2. QED
  BY <1>1, DomainInvariant, PTL

\* A returned cancel() has signalled every managed task, however many callers
\* cancel the domain at once.
THEOREM CancelSignals == DomainSpec => []CancelSignalsEveryTask
<1>1. IInv => CancelSignalsEveryTask
  BY DEF IInv
<1>2. QED
  BY <1>1, DomainInvariant, PTL

\* No generation joins the table of a domain that no longer accepts.
THEOREM RegistrationOnlyWhileRunning == DomainSpec => NoLateRegistration
<1>1. [DomainNext]_dvars =>
        [\A g \in Gens : g \in tasks' /\ g \notin tasks => domainPhase = "Running"]_dvars
  <2> SUFFICES ASSUME DomainNext, NEW g \in Gens, g \in tasks', g \notin tasks
               PROVE  domainPhase = "Running"
    OBVIOUS
  <2>1. ASSUME NEW h \in Gens, CreatorStep(h) PROVE domainPhase = "Running"
    BY <2>1 DEF CreatorStep, Create, Register, Refuse, Supervise, Start, Accepting, domainVars
  <2>2. ASSUME NEW h \in Gens, EntryDrop(h) \/ TaskStep(h) \/ MonitorStep(h) PROVE FALSE
    BY <2>2 DEF EntryDrop, TaskStep, BeginPoll, EndPoll, BodyReturns, Kill, MonitorStep,
                Finish, Cleanup, Publish, Unlist, TaskFinished, NotifyQuiescent, domainVars
  <2>3. ASSUME NEW s \in Stoppers, StopperStep(s) \/ \E m \in Calls : Call(s, m) PROVE FALSE
    BY <2>3 DEF StopperStep, Call, Lock, Snapshot, CancelDone, SnapshotAborts, AbortDone,
                Subscribe, Check, Poll, Awake, Signal, Abort, domainVars
  <2>4. QED
    BY <2>1, <2>2, <2>3 DEF DomainNext
<1>2. QED
  BY <1>1, PTL DEF DomainSpec, NoLateRegistration

LEMMA GateStepInv ==
  IInv /\ GateInv /\ [DomainNext]_dvars => GateInv'
<1> SUFFICES ASSUME IInv, GateInv, [DomainNext]_dvars PROVE GateInv'
  OBVIOUS
<1> USE DEF IInv, TypeOK, GateInv, Accepting, domainVars, genVars, stopVars
<1>1. CASE UNCHANGED dvars
  BY <1>1 DEF dvars
<1>2. ASSUME NEW g \in Gens, CreatorStep(g) \/ EntryDrop(g) PROVE GateInv'
  <2>1. CASE Create(g) \/ Register(g)
    BY <2>1, ResultsAssumption DEF GenInv, Create, Register
  <2>2. CASE Refuse(g) \/ Supervise(g)
    BY <2>2 DEF Refuse, Supervise
  <2>3. CASE Start(g) \/ EntryDrop(g)
    BY <2>3 DEF Start, EntryDrop
  <2>4. QED
    BY <1>2, <2>1, <2>2, <2>3 DEF CreatorStep
<1>3. ASSUME NEW g \in Gens, TaskStep(g) PROVE GateInv'
  BY <1>3, ResultsAssumption DEF TaskStep, BeginPoll, EndPoll, BodyReturns, Kill
<1>4. ASSUME NEW g \in Gens, MonitorStep(g) PROVE GateInv'
  BY <1>4 DEF MonitorStep, Finish, Cleanup, Publish, Unlist, TaskFinished, NotifyQuiescent
<1>5. ASSUME NEW s \in Stoppers, StopperStep(s) \/ \E m \in Calls : Call(s, m) PROVE GateInv'
  BY <1>5 DEF StopperStep, Call, Lock, Snapshot, CancelDone, SnapshotAborts, AbortDone,
              Subscribe, Check, Poll, Awake, Signal, Abort
<1>6. QED
  BY <1>1, <1>2, <1>3, <1>4, <1>5 DEF DomainNext

LEMMA GateInvariant == DomainSpec => []GateInv
<1>1. DomainInit => GateInv
  BY ResultsAssumption DEF DomainInit, GateInv
<1>2. QED
  BY <1>1, GateStepInv, DomainInvariant, PTL DEF DomainSpec

\* A task that runs although its generation is not registered is that of a refused
\* one, aborted already, in a domain that stops.
THEOREM EarlyStartIsRefused == DomainSpec => []OnlyRefusedStartEarly
<1>1. IInv /\ GateInv => OnlyRefusedStartEarly
  BY DEF IInv, GenInv, GateInv, OnlyRefusedStartEarly
<1>2. QED
  BY <1>1, GateInvariant, DomainInvariant, PTL

\* And it passed the gate in the poll during which it was refused: no poll of an
\* aborted task begins.
THEOREM EarlyStartIsOnePoll == DomainSpec => RefusedAtTheGateEnds
<1>1. IInv /\ GateInv /\ [DomainNext]_dvars =>
        [\A g \in Gens : task[g] = "gated" /\ creation[g] = "refused" =>
           task'[g] \in {"gated", "Aborted"}]_dvars
  <2> SUFFICES ASSUME IInv, GateInv, DomainNext, NEW g \in Gens, task[g] = "gated",
                      creation[g] = "refused"
               PROVE  task'[g] \in {"gated", "Aborted"}
    OBVIOUS
  <2> USE DEF IInv, TypeOK, genVars
  <2>1. g \in aborted
    BY DEF GateInv
  <2>2. ASSUME NEW h \in Gens, CreatorStep(h) \/ EntryDrop(h) \/ MonitorStep(h)
        PROVE  task'[g] \in {"gated", "Aborted"}
    BY <2>2 DEF CreatorStep, Create, Register, Refuse, Supervise, Start, EntryDrop, MonitorStep,
                Finish, Cleanup, Publish, Unlist, TaskFinished, NotifyQuiescent
  <2>3. ASSUME NEW h \in Gens, TaskStep(h) PROVE task'[g] \in {"gated", "Aborted"}
    BY <2>1, <2>3 DEF TaskStep, BeginPoll, EndPoll, BodyReturns, Kill
  <2>4. ASSUME NEW s \in Stoppers, StopperStep(s) \/ \E m \in Calls : Call(s, m)
        PROVE  task'[g] \in {"gated", "Aborted"}
    BY <2>4 DEF StopperStep, Call, Lock, Snapshot, CancelDone, SnapshotAborts, AbortDone,
                Subscribe, Check, Poll, Awake, Signal, Abort
  <2>5. QED
    BY <2>2, <2>3, <2>4 DEF DomainNext
<1>2. QED
  BY <1>1, DomainInvariant, GateInvariant, PTL DEF DomainSpec, RefusedAtTheGateEnds

-----------------------------------------------------------------------------
\* The refinement of Lifecycle: one step per action that a user can see.
Lives == [g \in Gens |-> LifeOf(g)]

LEMMA LifeGoes ==
  ASSUME NEW g \in Gens, NEW from, NEW to, LifeOf(g) = from, LifeOf(g)' = to,
         \A h \in Gens \ {g} : LifeOf(h)' = LifeOf(h)
  PROVE  Life!Goes(g, from, to)
<1> DEFINE now(h) == LifeOf(h)
           next(h) == LifeOf(h)'
<1>1. now(g) = from /\ next(g) = to /\ \A h \in Gens \ {g} : next(h) = now(h)
  OBVIOUS
<1> HIDE DEF now, next
<1>2. [h \in Gens |-> next(h)] = [[h \in Gens |-> now(h)] EXCEPT ![g] = to]
  BY <1>1
<1>3. QED
  BY <1>1, <1>2 DEF now, next, Life!Goes

LEMMA GenStepLife ==
  ASSUME IInv, NEW g \in Gens, CreatorStep(g) \/ EntryDrop(g) \/ TaskStep(g) \/ MonitorStep(g)
  PROVE  Life!LifeNext \/ UNCHANGED <<domainPhase, Lives, outcome>>
<1> USE DEF IInv, TypeOK, GenInv, Lives, LifeOf, Phases, Monitors, Accepting, CancelPhase,
            domainVars, genVars, stopVars, Life!LifeNext
<1>1. CASE Register(g)
  <2>1. Life!Establish(g)
    BY <1>1, LifeGoes DEF Register, Life!Establish
  <2>2. QED
    BY <2>1
<1>2. CASE Refuse(g) \/ EntryDrop(g) \/ Finish(g)
  <2>1. LifeOf(g) = "active" => Life!End(g) \/ UNCHANGED <<domainPhase, Lives, outcome>>
    BY <1>2, LifeGoes DEF Refuse, EntryDrop, Finish, Life!End
  <2>2. LifeOf(g) # "active" => UNCHANGED <<domainPhase, Lives, outcome>>
    BY <1>2 DEF Refuse, EntryDrop, Finish
  <2>3. QED
    BY <2>1, <2>2
<1>3. CASE Publish(g)
  <2>1. Life!Settle(g, task[g]) /\ task[g] \in Outcomes
    BY <1>3, LifeGoes DEF Publish, Outcomes, Life!Settle
  <2>2. QED
    BY <2>1
<1>4. CASE TaskFinished(g)
  <2>1. CASE domainPhase' = domainPhase
    BY <1>4, <2>1 DEF TaskFinished
  <2>2. CASE domainPhase' # domainPhase
    <3>1. domainPhase = "ShuttingDown" /\ domainPhase' = "Terminated" /\ tasks' = {}
      BY <1>4, <2>2 DEF TaskFinished
    <3>2. \A h \in Gens : Lives[h] \in {"unborn", "settled"}
      BY <1>4, <3>1 DEF TaskFinished
    <3>3. Life!Terminate
      BY <1>4, <3>1, <3>2 DEF TaskFinished, Life!Terminate
    <3>4. QED
      BY <3>3
  <2>3. QED
    BY <2>1, <2>2
<1>5. CASE Create(g) \/ Supervise(g) \/ Start(g) \/ TaskStep(g) \/ Cleanup(g) \/ Unlist(g)
             \/ NotifyQuiescent(g)
  BY <1>5 DEF Create, Supervise, Start, TaskStep, BeginPoll, EndPoll, BodyReturns, Kill, Cleanup,
              Unlist, NotifyQuiescent
<1>6. QED
  BY <1>1, <1>2, <1>3, <1>4, <1>5 DEF CreatorStep, MonitorStep

LEMMA StopperStepLife ==
  ASSUME IInv, NEW s \in Stoppers, StopperStep(s) \/ \E m \in Calls : Call(s, m)
  PROVE  Life!LifeNext \/ UNCHANGED <<domainPhase, Lives, outcome>>
<1> USE DEF IInv, TypeOK, GenInv, StopInv, Lives, LifeOf, Phases, Accepting, CancelPhase,
            domainVars, genVars, stopVars, Goto, Life!LifeNext
<1>1. CASE Lock(s)
  BY <1>1 DEF Lock, Life!Stop
<1>2. CASE Snapshot(s)
  <2>1. CASE domainPhase' = domainPhase
    BY <1>2, <2>1 DEF Snapshot
  <2>2. CASE domainPhase' # domainPhase
    <3>1. domainPhase = "ShuttingDown" /\ domainPhase' = "Terminated" /\ tasks = {}
      BY <1>2, <2>2 DEF Snapshot
    <3>2. Life!Terminate
      BY <1>2, <3>1 DEF Snapshot, Life!Terminate
    <3>3. QED
      BY <3>2
  <2>3. QED
    BY <2>1, <2>2
<1>3. ASSUME NEW g \in Gens, Signal(s, g)
      PROVE  Life!LifeNext \/ UNCHANGED <<domainPhase, Lives, outcome>>
  <2>1. LifeOf(g) = "active" => Life!End(g)
    BY <1>3, LifeGoes DEF Signal, Life!End
  <2>2. LifeOf(g) # "active" => UNCHANGED <<domainPhase, Lives, outcome>>
    BY <1>3 DEF Signal
  <2>3. QED
    BY <2>1, <2>2
<1>4. CASE \/ \E m \in Calls : Call(s, m)
           \/ CancelDone(s) \/ SnapshotAborts(s) \/ AbortDone(s) \/ Subscribe(s)
           \/ Check(s) \/ Poll(s) \/ Awake(s) \/ \E g \in Gens : Abort(s, g)
  BY <1>4 DEF Call, CancelDone, SnapshotAborts, AbortDone, Subscribe, Check, Poll, Awake, Abort
<1>5. QED
  BY <1>1, <1>2, <1>3, <1>4 DEF StopperStep

\* The domain implements Lifecycle: what its users see of any number of
\* generations and callers is establish, end once, settle once, and Terminated
\* only when everything has settled.
THEOREM DomainKeepsLifecycle == DomainSpec => KeepsLifecycle
<1>1. DomainInit => Life!LifeInit
  BY DEF DomainInit, Life!LifeInit, LifeOf
<1>2. IInv /\ [DomainNext]_dvars => [Life!LifeNext]_(Life!lifeVars)
  <2> SUFFICES ASSUME IInv, [DomainNext]_dvars
               PROVE  Life!LifeNext \/ UNCHANGED <<domainPhase, Lives, outcome>>
    BY DEF Life!lifeVars, Lives
  <2>1. CASE UNCHANGED dvars
    BY <2>1 DEF dvars, domainVars, genVars, stopVars, Lives, LifeOf
  <2>2. CASE DomainNext
    BY <2>2, GenStepLife, StopperStepLife DEF DomainNext
  <2>3. QED
    BY <2>1, <2>2
<1>3. QED
  BY <1>1, <1>2, DomainInvariant, PTL DEF DomainSpec, KeepsLifecycle, Life!LifeSpec
=============================================================================
