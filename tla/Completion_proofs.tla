-------------------------- MODULE Completion_proofs --------------------------
(***************************************************************************)
(* What observers are told, for any set of observers and generations, with *)
(* and without losses of the async runtime.                                *)
(***************************************************************************)
EXTENDS Completion, TLAPS

LEMMA CompletionInitInv == CompletionInit => CompletionInv
<1> SUFFICES ASSUME CompletionInit PROVE CompletionInv
  OBVIOUS
<1> USE DEF CompletionInit, DomainInit
<1>1. TypeOK /\ PublicationInv /\ HandleInv
  BY DEF TypeOK, HandleInv, PublicationInv, Phases, Monitors, Outcomes
<1>2. CompletionTypeOK /\ ObserversTellTheOutcome
  BY DEF CompletionTypeOK, ObserversTellTheOutcome
<1>3. QED
  BY <1>1, <1>2 DEF CompletionInv

\* The steps of a generation that module Domain has.
LEMMA GenStepCompletion ==
  ASSUME CompletionInv, NEW g \in Gens,
         CreatorStep(g) \/ TaskRuns(g) \/ (\E o \in Results : BodyReturns(g, o)) \/ Supervised(g),
         UNCHANGED <<faultVars, obsVars>>
  PROVE  CompletionInv'
<1> USE DEF CompletionInv, TypeOK, CompletionTypeOK, PublicationInv, HandleInv,
            ObserversTellTheOutcome, Phases, Monitors, Outcomes,
            SupervisorFree,
            Accepting, CancelPhase, domainVars, genVars, stopVars, faultVars, obsVars
<1>1. CASE Create(g)
  BY <1>1 DEF Create
<1>2. CASE Register(g)
  BY <1>2 DEF Register
<1>3. CASE Refuse(g)
  BY <1>3 DEF Refuse
<1>4. CASE Supervise(g)
  BY <1>4 DEF Supervise
<1>5. CASE Start(g)
  BY <1>5 DEF Start
<1>6. CASE TaskRuns(g)
  BY <1>6 DEF TaskRuns, BeginPoll, EndPoll, Kill
<1>7. ASSUME NEW o \in Results, BodyReturns(g, o) PROVE CompletionInv'
  <2>1. o \in Outcomes
    BY <1>7, ResultsAssumption
  <2>2. QED
    BY <1>7, <2>1 DEF BodyReturns
<1>8. CASE Finish(g) /\ g \in polled \ closed
  BY <1>8 DEF Finish
<1>9. CASE Cleanup(g)
  BY <1>9 DEF Cleanup
<1>10. CASE Publish(g)
  <2>1. g \notin closed /\ outcome[g] = "none" /\ task[g] \in Outcomes /\ phase[g] = "Finished"
    BY <1>10 DEF Publish
  <2>2. TypeOK' /\ PublicationInv' /\ HandleInv'
    BY <1>10, <2>1 DEF Publish
  <2>3. ObserversTellTheOutcome'
    BY <1>10, <2>1 DEF Publish
  <2>4. QED
    BY <1>10, <2>2, <2>3 DEF Publish
<1>11. CASE Unlist(g)
  BY <1>11 DEF Unlist
<1>12. CASE TaskFinished(g)
  BY <1>12 DEF TaskFinished
<1>13. CASE NotifyQuiescent(g)
  BY <1>13 DEF NotifyQuiescent, Listening
<1>14. QED
  BY <1>1, <1>2, <1>3, <1>4, <1>5, <1>6, <1>7, <1>8, <1>9, <1>10, <1>11, <1>12,
     <1>13 DEF CreatorStep, Supervised

\* The callers that stop the domain cancel controls and abort tasks, but they do
\* it in a domain that accepts no more.
LEMMA StopperStepCompletion ==
  ASSUME CompletionInv, NEW s \in Stoppers, StopperStep(s) \/ \E m \in Calls : Call(s, m),
         UNCHANGED <<faultVars, obsVars>>
  PROVE  CompletionInv'
<1> USE DEF CompletionInv, TypeOK, CompletionTypeOK, PublicationInv, HandleInv,
            ObserversTellTheOutcome, Phases, Monitors, Outcomes,
            SupervisorFree,
            Accepting, CancelPhase, Goto, domainVars, genVars, stopVars, faultVars, obsVars
<1>1. CASE \E m \in Calls : Call(s, m)
  BY <1>1, CallsAssumption DEF Call
<1>2. CASE Lock(s)
  BY <1>2 DEF Lock
<1>3. CASE Snapshot(s)
  BY <1>3 DEF Snapshot, Controls, Listening
<1>4. ASSUME NEW g \in Gens, Signal(s, g) PROVE CompletionInv'
  BY <1>4 DEF Signal
<1>5. ASSUME NEW g \in Gens, Abort(s, g) PROVE CompletionInv'
  BY <1>5 DEF Abort
<1>6. CASE CancelDone(s) \/ SnapshotAborts(s) \/ AbortDone(s)
  BY <1>6 DEF CancelDone, AfterCancel, SnapshotAborts, AbortDone
<1>7. CASE Subscribe(s) \/ Check(s) \/ Poll(s) \/ Awake(s)
  BY <1>7 DEF Subscribe, Check, Poll, Awake
<1>8. QED
  BY <1>1, <1>2, <1>3, <1>4, <1>5, <1>6, <1>7 DEF StopperStep

\* A runtime that is lost, what it drops, and the entry that goes.
LEMMA LossStepCompletion ==
  ASSUME CompletionInv, NEW g \in Gens,
         \/ Release(g) \/ Lose(g) \/ KillLost(g) \/ FirstPoll(g)
         \/ DropSupervisor(g) \/ DropUnpolled(g) \/ CloseSender(g)
  PROVE  CompletionInv'
<1> USE DEF CompletionInv, TypeOK, CompletionTypeOK, PublicationInv, HandleInv,
            ObserversTellTheOutcome, Phases, Monitors, Outcomes,
            Accepting, CancelPhase,
            domainVars, genVars, stopVars, dvars, faultVars, obsVars
<1>1. CASE Release(g)
  BY <1>1 DEF Release, EntryDrop
<1>2. CASE Lose(g)
  BY <1>2 DEF Lose
<1>3. CASE KillLost(g)
  BY <1>3 DEF KillLost
<1>4. CASE FirstPoll(g)
  BY <1>4 DEF FirstPoll
<1>5. CASE DropSupervisor(g)
  BY <1>5 DEF DropSupervisor
<1>6. CASE DropUnpolled(g)
  BY <1>6 DEF DropUnpolled
<1>7. CASE CloseSender(g)
  BY <1>7 DEF CloseSender
<1>8. QED
  BY <1>1, <1>2, <1>3, <1>4, <1>5, <1>6, <1>7

\* An observer changes nothing but itself.
LEMMA ObserverStepCompletion ==
  ASSUME CompletionInv, NEW o \in Observers, ObserverStep(o)
  PROVE  CompletionInv'
<1> DEFINE Told == CompletionTypeOK /\ HandleInv /\ ObserversTellTheOutcome
<1>1. ASSUME UNCHANGED dvars, UNCHANGED faultVars, Told' PROVE CompletionInv'
  BY <1>1 DEF CompletionInv, TypeOK, PublicationInv, dvars, domainVars, genVars, stopVars, faultVars
<1>2. Told /\ TypeOK /\ PublicationInv
  BY DEF CompletionInv
<1> USE DEF CompletionTypeOK, HandleInv, ObserversTellTheOutcome, Outcomes, To, Becomes, Answer, Accepting, dvars, domainVars, genVars,
            stopVars, faultVars
<1>3. CASE Spawned(o)
  BY <1>1, <1>2, <1>3 DEF Spawned, TypeOK
<1>4. CASE Borrow(o)
  <2>1. CASE outcome[of[o]] = "none"
    BY <1>1, <1>2, <1>4, <2>1 DEF Borrow
  <2>2. CASE outcome[of[o]] # "none"
    <3>1. /\ of[o] \in Gens /\ outcome[of[o]] \in Outcomes /\ outcome[of[o]] = task[of[o]]
          /\ phase[of[o]] = "Finished"
      BY <1>2, <1>4, <2>2 DEF Borrow, TypeOK, PublicationInv
    <3>2. QED
      BY <1>1, <1>2, <1>4, <2>2, <3>1 DEF Borrow
  <2>3. QED
    BY <2>1, <2>2
<1>5. CASE Changed(o)
  BY <1>1, <1>2, <1>5 DEF Changed, PublicationInv
<1>6. CASE Wait(o) \/ Forget(o)
  BY <1>1, <1>2, <1>6 DEF Wait, Forget
<1>7. ASSUME NEW p \in Observers, CloneCompletion(o, p) PROVE CompletionInv'
  BY <1>1, <1>2, <1>7 DEF CloneCompletion
<1>8. ASSUME NEW g \in Gens, NEW h \in {"completion", "finished"}, Observe(o, g, h)
      PROVE  CompletionInv'
  BY <1>1, <1>2, <1>8 DEF Observe
<1>9. ASSUME NEW g \in Gens, Run(o, g) PROVE CompletionInv'
  BY <1>9 DEF Run, Create, CompletionInv, TypeOK, PublicationInv, Phases, Monitors
<1>10. QED
  BY <1>3, <1>4, <1>5, <1>6, <1>7, <1>8, <1>9 DEF ObserverStep, Watch

LEMMA CompletionStepInv == CompletionInv /\ [CompletionNext]_cvars => CompletionInv'
<1> SUFFICES ASSUME CompletionInv, [CompletionNext]_cvars PROVE CompletionInv'
  OBVIOUS
<1>1. CASE UNCHANGED cvars
  BY <1>1 DEF CompletionInv, TypeOK, CompletionTypeOK, PublicationInv, HandleInv,
              ObserversTellTheOutcome, Phases, Monitors, Outcomes, Accepting,
              cvars, dvars, domainVars, genVars, stopVars, faultVars, obsVars
<1>2. CASE CompletionNext
  BY <1>2, GenStepCompletion, StopperStepCompletion, LossStepCompletion, ObserverStepCompletion
     DEF CompletionNext, SupervisorStep
<1>3. QED
  BY <1>1, <1>2

LEMMA CompletionInvariant == CompletionSpec => []CompletionInv
<1>1. QED
  BY CompletionInitInv, CompletionStepInv, PTL DEF CompletionSpec

\* The types of the observers and of the faults.
THEOREM CompletionTypes == CompletionSpec => []CompletionTypeOK
<1>1. CompletionInv => CompletionTypeOK
  BY DEF CompletionInv
<1>2. QED
  BY <1>1, CompletionInvariant, PTL

\* What any observer returns is what the supervising task published once the
\* task had ended, or Aborted of a generation whose tasks were lost.
THEOREM ToldTheOutcome == CompletionSpec => []ObserversTellTheOutcome
<1>1. CompletionInv => ObserversTellTheOutcome
  BY DEF CompletionInv
<1>2. QED
  BY <1>1, CompletionInvariant, PTL

\* Any two observers of a generation that have returned agree, whenever they
\* were made and whatever was lost.
THEOREM ObserversAllAgree == CompletionSpec => []ObserversAgree
<1>1. CompletionInv => ObserversAgree
  BY DEF CompletionInv, ObserversAgree, PublicationInv, HandleInv,
         ObserversTellTheOutcome, CompletionTypeOK, TypeOK
<1>2. QED
  BY <1>1, CompletionInvariant, PTL

\* ... on the verdict of their generation.
THEOREM ToldTheVerdict ==
  CompletionSpec => [](\A o \in Observers :
                         opc[o] = "returned" /\ got[o] # "Acquire" => got[o] = Verdict(of[o]))
<1>1. CompletionInv => \A o \in Observers :
        opc[o] = "returned" /\ got[o] # "Acquire" => got[o] = Verdict(of[o])
  BY DEF CompletionInv, CompletionTypeOK, ObserversTellTheOutcome, PublicationInv, Verdict
<1>2. QED
  BY <1>1, CompletionInvariant, PTL

-----------------------------------------------------------------------------
\* What the callers that stop the domain rely on, step by step.  A dropped
\* supervising task passes from its await to its drop guard, which is all that
\* the table and the callers see of it.
LEMMA GenStepSupervision ==
  ASSUME TypeOK, SupervisionInv, NEW g \in Gens,
         CreatorStep(g) \/ EntryDrop(g) \/ TaskStep(g) \/ MonitorStep(g)
  PROVE  SupervisionInv'
<1> USE DEF TypeOK, SupervisionInv, StopInv, ShutdownMeansTerminated, NoLostWakeup,
            ShutdownHasAnEnder, CancelSignalsEveryTask, PastSignal, Phases, Monitors,
            SupervisorFree, Accepting, CancelPhase, domainVars, genVars, stopVars
<1>1. CASE Create(g) \/ Supervise(g) \/ Start(g) \/ EntryDrop(g)
  BY <1>1 DEF Create, Supervise, Start, EntryDrop
<1>2. CASE Register(g)
  BY <1>2 DEF Register
<1>3. CASE Refuse(g)
  BY <1>3 DEF Refuse
<1>4. CASE TaskStep(g)
  BY <1>4 DEF TaskStep, BeginPoll, EndPoll, Kill, BodyReturns
<1>5. CASE Finish(g) \/ Cleanup(g) \/ Publish(g) \/ Unlist(g)
  BY <1>5 DEF Finish, Cleanup, Publish, Unlist
<1>6. CASE TaskFinished(g)
  BY <1>6 DEF TaskFinished
<1>7. CASE NotifyQuiescent(g)
  BY <1>7 DEF NotifyQuiescent, Listening
<1>8. QED
  BY <1>1, <1>2, <1>3, <1>4, <1>5, <1>6, <1>7 DEF CreatorStep, MonitorStep

LEMMA StopperStepSupervision ==
  ASSUME TypeOK, SupervisionInv, NEW s \in Stoppers, StopperStep(s) \/ \E m \in Calls : Call(s, m)
  PROVE  SupervisionInv'
<1> USE DEF TypeOK, SupervisionInv, StopInv, ShutdownMeansTerminated, NoLostWakeup,
            ShutdownHasAnEnder, CancelSignalsEveryTask, PastSignal, Phases, Monitors,
            SupervisorFree, Accepting, CancelPhase, domainVars, genVars, stopVars, Goto
<1>1. CASE \E m \in Calls : Call(s, m)
  BY <1>1, CallsAssumption DEF Call
<1>2. CASE Lock(s)
  BY <1>2 DEF Lock
<1>3. CASE Snapshot(s)
  BY <1>3 DEF Snapshot, Controls, Listening
<1>4. CASE CancelDone(s)
  BY <1>4 DEF CancelDone, AfterCancel
<1>5. CASE SnapshotAborts(s) \/ AbortDone(s)
  BY <1>5 DEF SnapshotAborts, AbortDone
<1>6. CASE Subscribe(s) \/ Check(s) \/ Poll(s) \/ Awake(s)
  BY <1>6 DEF Subscribe, Check, Poll, Awake
<1>7. ASSUME NEW g \in Gens, Signal(s, g) PROVE SupervisionInv'
  BY <1>7 DEF Signal
<1>8. ASSUME NEW g \in Gens, Abort(s, g) PROVE SupervisionInv'
  BY <1>8 DEF Abort
<1>9. QED
  BY <1>1, <1>2, <1>3, <1>4, <1>5, <1>6, <1>7, <1>8 DEF StopperStep

\* Every step of this module is one of the domain's, or a loss, or changes
\* nothing that the domain has.
LEMMA StepKinds ==
  ASSUME CompletionNext
  PROVE  \/ \E g \in Gens : CreatorStep(g) \/ EntryDrop(g) \/ TaskStep(g) \/ MonitorStep(g)
         \/ \E s \in Stoppers : StopperStep(s) \/ \E m \in Calls : Call(s, m)
         \/ \E g \in Gens : KillLost(g) \/ DropSupervisor(g)
         \/ UNCHANGED dvars
<1>1. ASSUME NEW o \in Observers, ObserverStep(o)
      PROVE  (\E g \in Gens : CreatorStep(g)) \/ UNCHANGED dvars
  BY <1>1 DEF ObserverStep, Watch, Spawned, Borrow, Changed, Wait, Forget, CloneCompletion, Run,
              Observe, CreatorStep
<1>2. ASSUME NEW g \in Gens, Release(g) \/ Lose(g) \/ SupervisorStep(g)
      PROVE  EntryDrop(g) \/ MonitorStep(g) \/ DropSupervisor(g) \/ UNCHANGED dvars
  BY <1>2 DEF Release, Lose, SupervisorStep, Supervised, MonitorStep, FirstPoll, DropUnpolled,
              CloseSender
<1>3. ASSUME NEW g \in Gens, TaskRuns(g) \/ \E r \in Results : BodyReturns(g, r)
      PROVE  TaskStep(g)
  BY <1>3 DEF TaskRuns, TaskStep
<1>4. QED
  BY <1>1, <1>2, <1>3 DEF CompletionNext

LEMMA SupervisionStep ==
  TypeOK /\ SupervisionInv /\ [CompletionNext]_cvars => SupervisionInv'
<1> SUFFICES ASSUME TypeOK, SupervisionInv, [CompletionNext]_cvars PROVE SupervisionInv'
  OBVIOUS
<1>1. CASE UNCHANGED dvars
  BY <1>1 DEF SupervisionInv, StopInv, ShutdownMeansTerminated, NoLostWakeup, ShutdownHasAnEnder,
              CancelSignalsEveryTask, PastSignal, SupervisorFree, dvars, domainVars, genVars,
              stopVars
<1>2. ASSUME NEW g \in Gens, KillLost(g) \/ DropSupervisor(g) PROVE SupervisionInv'
  BY <1>2 DEF KillLost, DropSupervisor, TypeOK, Monitors, SupervisionInv, StopInv,
              ShutdownMeansTerminated, NoLostWakeup, ShutdownHasAnEnder, CancelSignalsEveryTask,
              PastSignal, SupervisorFree, domainVars, stopVars
<1>3. CASE CompletionNext
  BY <1>1, <1>2, <1>3, StepKinds, GenStepSupervision, StopperStepSupervision
<1>4. CASE UNCHANGED cvars
  BY <1>1, <1>4 DEF cvars
<1>5. QED
  BY <1>3, <1>4

LEMMA SupervisionInvariant == CompletionSpec => []SupervisionInv
<1>1. CompletionInit => SupervisionInv
  BY DEF CompletionInit, DomainInit, SupervisionInv, StopInv, ShutdownMeansTerminated,
         NoLostWakeup, ShutdownHasAnEnder, CancelSignalsEveryTask, PastSignal
<1>2. CompletionInv => TypeOK
  BY DEF CompletionInv
<1>3. QED
  BY <1>1, <1>2, SupervisionStep, CompletionInvariant, PTL DEF CompletionSpec

\* However many runtimes are lost: a returned shutdown() or terminate() means a
\* Terminated domain, none of their callers waits for a notification that was
\* missed, one that shuts down has somebody to end it (or an unfinished entry in
\* its table), and a returned cancel() has signalled every managed task.
THEOREM StopsDespiteLoss ==
  CompletionSpec => [](/\ ShutdownMeansTerminated /\ NoLostWakeup
                       /\ ShutdownHasAnEnder /\ CancelSignalsEveryTask)
<1>1. SupervisionInv => /\ ShutdownMeansTerminated /\ NoLostWakeup
                        /\ ShutdownHasAnEnder /\ CancelSignalsEveryTask
  BY DEF SupervisionInv
<1>2. QED
  BY <1>1, SupervisionInvariant, PTL

\* Only a supervising task that was lost before its first poll leaves an entry that
\* nobody will take out of the table.
THEOREM OnlyUnpolledStay == CompletionSpec => []OnlyUnpolledStayInTheTable
<1>1. CompletionInv /\ SupervisionInv => OnlyUnpolledStayInTheTable
  BY DEF CompletionInv, TypeOK, PublicationInv, SupervisionInv, OnlyUnpolledStayInTheTable
<1>2. QED
  BY <1>1, CompletionInvariant, SupervisionInvariant, PTL

-----------------------------------------------------------------------------
\* Verdicts: what is settled stays, and who has left the table is settled.
LEMMA GenStepVerdict ==
  ASSUME CompletionInv, NEW g \in Gens, NEW h \in Gens, Verdict(h) # "none",
         CreatorStep(g) \/ TaskRuns(g) \/ (\E r \in Results : BodyReturns(g, r)) \/ Supervised(g),
         UNCHANGED faultVars
  PROVE  Verdict(h)' = Verdict(h)
<1> USE DEF CompletionInv, TypeOK, PublicationInv, HandleInv, Verdict, Monitors, domainVars,
            faultVars
<1>1. CASE CreatorStep(g)
  BY <1>1 DEF CreatorStep, Create, Register, Refuse, Supervise, Start
<1>2. CASE TaskRuns(g) \/ \E r \in Results : BodyReturns(g, r)
  BY <1>2 DEF TaskRuns, BeginPoll, EndPoll, Kill, BodyReturns
<1>3. CASE Finish(g) /\ g \in polled \ closed
  BY <1>3 DEF Finish
<1>4. CASE Cleanup(g) \/ Unlist(g) \/ NotifyQuiescent(g)
  BY <1>4 DEF Cleanup, Unlist, NotifyQuiescent
\* A supervising task that publishes has said nothing yet, nor was it dropped.
<1>5. CASE Publish(g)
  <2>1. Verdict(g) = "none"
    BY <1>5 DEF Publish
  <2>2. QED
    BY <1>5, <2>1 DEF Publish
<1>6. CASE TaskFinished(g)
  BY <1>6 DEF TaskFinished
<1>7. QED
  BY <1>1, <1>2, <1>3, <1>4, <1>5, <1>6 DEF Supervised

LEMMA StopperStepVerdict ==
  ASSUME NEW s \in Stoppers, StopperStep(s) \/ \E m \in Calls : Call(s, m), UNCHANGED faultVars,
         NEW h \in Gens
  PROVE  Verdict(h)' = Verdict(h)
BY DEF StopperStep, Call, Lock, Snapshot, Signal, CancelDone, SnapshotAborts, Abort, AbortDone,
       Subscribe, Check, Poll, Awake, Verdict, genVars, faultVars

LEMMA LossStepVerdict ==
  ASSUME CompletionInv, NEW g \in Gens, NEW h \in Gens, Verdict(h) # "none",
         \/ Release(g) \/ Lose(g) \/ KillLost(g) \/ FirstPoll(g)
         \/ DropSupervisor(g) \/ DropUnpolled(g) \/ CloseSender(g)
  PROVE  Verdict(h)' = Verdict(h)
<1> USE DEF CompletionInv, TypeOK, PublicationInv, Verdict, Monitors, genVars, dvars, faultVars
<1>1. CASE Release(g)
  BY <1>1 DEF Release, EntryDrop
<1>2. CASE Lose(g) \/ FirstPoll(g) \/ KillLost(g)
  BY <1>2 DEF Lose, FirstPoll, KillLost
<1>3. CASE DropSupervisor(g)
  BY <1>3 DEF DropSupervisor
<1>4. CASE DropUnpolled(g)
  BY <1>4 DEF DropUnpolled
<1>5. CASE CloseSender(g)
  BY <1>5 DEF CloseSender
<1>6. QED
  BY <1>1, <1>2, <1>3, <1>4, <1>5

\* Every generation has one stable terminal outcome, losses included: what an
\* observer would be told once, it is told for ever.
THEOREM OneStableOutcome == CompletionSpec => VerdictIsFinal
<1>1. ASSUME CompletionInv, [CompletionNext]_cvars, NEW h \in Gens, Verdict(h) # "none"
      PROVE  Verdict(h)' = Verdict(h)
  <2>1. CASE UNCHANGED <<dvars, faultVars>>
    BY <2>1 DEF dvars, genVars, faultVars, Verdict
  <2>2. ASSUME NEW o \in Observers, ObserverStep(o)
        PROVE  UNCHANGED <<dvars, faultVars>> \/ \E g \in Gens : CreatorStep(g) /\ UNCHANGED faultVars
    BY <2>2 DEF ObserverStep, Watch, Spawned, Borrow, Changed, Wait, Forget, CloneCompletion,
                Observe, Run, CreatorStep
  <2>3. CASE CompletionNext
    BY <1>1, <2>1, <2>2, <2>3, GenStepVerdict, StopperStepVerdict, LossStepVerdict
       DEF CompletionNext, SupervisorStep
  <2>4. QED
    BY <1>1, <2>1, <2>3 DEF cvars
<1>2. CompletionInv /\ [CompletionNext]_cvars
        => [\A g \in Gens : Verdict(g) # "none" => Verdict(g)' = Verdict(g)]_cvars
  BY <1>1
<1>3. QED
  BY <1>2, CompletionInvariant, PTL DEF CompletionSpec, VerdictIsFinal

\* Terminated leaves no observer in the dark: an empty table means that every
\* supervising task has published or is gone.
THEOREM TerminatedSettlesAll == CompletionSpec => []TerminatedIsSettled
<1>1. ASSUME CompletionInv, SupervisionInv, domainPhase = "Terminated",
             NEW g \in Gens, creation[g] = "registered"
      PROVE  Verdict(g) # "none"
  <2>1. monitor[g] \in {"notify", "closed"}
    BY <1>1 DEF SupervisionInv
  <2>2. outcome[g] = "none" => g \in lost
    BY <1>1, <2>1 DEF CompletionInv, PublicationInv
  <2>3. QED
    BY <2>1, <2>2 DEF Verdict
<1>2. CompletionInv /\ SupervisionInv => TerminatedIsSettled
  BY <1>1 DEF TerminatedIsSettled
<1>3. QED
  BY <1>2, CompletionInvariant, SupervisionInvariant, PTL
=============================================================================
