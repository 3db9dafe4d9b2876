----------------------------- MODULE Completion -----------------------------
(***************************************************************************)
(* Who observes how a generation ends (src/src/reference.rs): completion   *)
(* observers and their clones, finished(), and ResourceRuntime::run        *)
(* (src/src/runtime.rs), on the watch channel that module Domain's         *)
(* supervising tasks publish to; and what becomes of them, and of the      *)
(* domain, when the async runtime that a generation's two tasks run on is  *)
(* shut down under them, which drops both tasks where they stand.          *)
(***************************************************************************)
EXTENDS Domain

CONSTANTS
  Observers,     \* futures that wait for an outcome
  Faults,        \* when an async runtime may be lost: before or after the
                 \* first poll of the supervising task, or never
  None

ASSUME FaultsAssumption == Faults \subseteq {"unpolled", "polled"}
ASSUME ObserverAssumption == None \notin Gens

VARIABLES
  lost,          \* generations whose async runtime has been shut down
  polled,        \* whose supervising task has built its TaskFinalizer
  closed,        \* whose watch sender has been dropped
  released,      \* whose entry has been dropped with its last lease
  opc,           \* where each observer is
  how,           \* "completion", or a call that keeps a lease: "finished", "run"
  of,            \* the generation it observes
  got            \* what it returned

faultVars == <<lost, polled, closed, released>>
obsVars == <<opc, how, of, got>>
cvars == <<dvars, faultVars, obsVars>>

CompletionTypeOK ==
  /\ lost \subseteq Gens /\ polled \subseteq Gens /\ closed \subseteq Gens /\ released \subseteq Gens
  /\ opc \in [Observers -> {"idle", "spawn", "held", "borrow", "changed", "returned"}]
  /\ how \in [Observers -> {"completion", "finished", "run"}]
  /\ of \in [Observers -> Gens \cup {None}]
  /\ \A o \in Observers : opc[o] # "idle" => of[o] \in Gens
  /\ got \in [Observers -> Outcomes \cup {"none", "Acquire"}]
  /\ \A o \in Observers : opc[o] = "returned" => got[o] # "none"

CompletionInit ==
  /\ DomainInit
  /\ lost = {} /\ polled = {} /\ closed = {} /\ released = {}
  /\ opc = [o \in Observers |-> "idle"]
  /\ how = [o \in Observers |-> "completion"]
  /\ of = [o \in Observers |-> None]
  /\ got = [o \in Observers |-> "none"]

-----------------------------------------------------------------------------
Waiting(o) == opc[o] \in {"spawn", "borrow", "changed"}

\* finished() borrows a lease while it waits, run() owns the root's.
Leases(o, g) == Waiting(o) /\ of[o] = g /\ how[o] \in {"finished", "run"}

To(o, l) == opc' = [opc EXCEPT ![o] = l]
Becomes(o, h, g, l) ==
  /\ opc[o] = "idle"
  /\ how' = [how EXCEPT ![o] = h] /\ of' = [of EXCEPT ![o] = g]
  /\ To(o, l)
  /\ UNCHANGED got
Answer(o, r) == To(o, "returned") /\ got' = [got EXCEPT ![o] = r] /\ UNCHANGED <<how, of>>

\* ResourceRef::completion() and finished(), on somebody's lease.
Observe(o, g, h) ==
  /\ monitor[g] # "none" /\ g \notin released
  /\ \/ h = "completion" /\ Becomes(o, h, g, "held")
     \/ h = "finished" /\ Becomes(o, h, g, "borrow")
  /\ UNCHANGED <<dvars, faultVars>>

\* A clone needs no lease.
CloneCompletion(o, p) ==
  /\ opc[p] = "held"
  /\ Becomes(o, "completion", of[p], "held")
  /\ UNCHANGED <<dvars, faultVars>>

Wait(o) ==
  /\ opc[o] = "held"
  /\ To(o, "borrow")
  /\ UNCHANGED <<dvars, faultVars, how, of, got>>

\* ResourceRuntime::run: cx.spawn() creates the root; if the domain refuses it,
\* run() reports RunError::Acquire, otherwise it waits for finished().
Run(o, g) ==
  /\ Create(g)
  /\ Becomes(o, "run", g, "spawn")
  /\ UNCHANGED faultVars

Spawned(o) ==
  /\ opc[o] = "spawn" /\ of[o] \in gate
  /\ IF creation[of[o]] = "refused" THEN Answer(o, "Acquire")
     ELSE To(o, "borrow") /\ UNCHANGED <<how, of, got>>
  /\ UNCHANGED <<dvars, faultVars>>

\* Mutant of Borrow: the value is taken without a look whether there is one.
BorrowUnchecked(o) ==
  /\ opc[o] = "borrow"
  /\ Answer(o, outcome[of[o]])
  /\ UNCHANGED <<dvars, faultVars>>

\* One round of wait()'s loop: the value, if there is one, ...
Borrow(o) ==
  /\ opc[o] = "borrow"
  /\ IF outcome[of[o]] # "none" THEN Answer(o, outcome[of[o]])
     ELSE To(o, "changed") /\ UNCHANGED <<how, of, got>>
  /\ UNCHANGED <<dvars, faultVars>>

\* Mutant of Changed: the dropped sender is looked at before the version.
ChangedClosedFirst(o) ==
  /\ opc[o] = "changed"
  /\ \/ of[o] \in closed /\ Answer(o, "Aborted")
     \/ of[o] \notin closed /\ outcome[of[o]] # "none" /\ To(o, "borrow") /\ UNCHANGED <<how, of, got>>
  /\ UNCHANGED <<dvars, faultVars>>

\* Mutant of Changed: a dropped sender is not an answer.
ChangedValueOnly(o) ==
  /\ opc[o] = "changed" /\ outcome[of[o]] # "none"
  /\ To(o, "borrow")
  /\ UNCHANGED <<dvars, faultVars, how, of, got>>

\* ... and changed(), which resolves when a value has been sent since the
\* receiver was made, or else when the sender is gone.
Changed(o) ==
  /\ opc[o] = "changed"
  /\ \/ outcome[of[o]] # "none" /\ To(o, "borrow") /\ UNCHANGED <<how, of, got>>
     \/ outcome[of[o]] = "none" /\ of[o] \in closed /\ Answer(o, "Aborted")
  /\ UNCHANGED <<dvars, faultVars>>

\* The future, or the observer, is dropped.
Forget(o) ==
  /\ opc[o] \in {"held", "borrow", "changed"}
  /\ To(o, "idle")
  /\ UNCHANGED <<dvars, faultVars, how, of, got>>

\* The last lease goes.  Other holders than the observers may do so any time.
Release(g) ==
  /\ g \notin released /\ \A o \in Observers : ~Leases(o, g)
  /\ EntryDrop(g)
  /\ released' = released \cup {g}
  /\ UNCHANGED <<lost, polled, closed, obsVars>>

-----------------------------------------------------------------------------
\* The supervising task is polled for the first time: its TaskFinalizer is a
\* local of the task's body.
FirstPoll(g) ==
  /\ monitor[g] = "await" /\ g \notin polled \cup lost
  /\ polled' = polled \cup {g}
  /\ UNCHANGED <<dvars, lost, closed, released, obsVars>>

\* The async runtime of a generation's tasks is shut down.  Nothing of the
\* supervising task is lost once its only await is behind it.
Lose(g) ==
  /\ monitor[g] = "await" /\ g \notin lost
  /\ (IF g \in polled THEN "polled" ELSE "unpolled") \in Faults
  /\ lost' = lost \cup {g}
  /\ UNCHANGED <<dvars, polled, closed, released, obsVars>>

\* The managed task is dropped between two polls ...
KillLost(g) ==
  /\ g \in lost /\ task[g] \in {"gated", "body"}
  /\ task' = [task EXCEPT ![g] = "Aborted"]
  /\ UNCHANGED <<domainVars, creation, phase, gate, aborted, monitor, outcome, live, stopVars,
                 faultVars, obsVars>>

\* Mutant of DropSupervisor: task_finished is a call at the end of the body.
DropSupervisorNoGuard(g) ==
  /\ g \in lost \cap polled /\ monitor[g] = "await" /\ g \notin closed
  /\ closed' = closed \cup {g}
  /\ UNCHANGED <<dvars, lost, polled, released, obsVars>>

\* Mutant of DropSupervisor: the guard is not bound to a local, so that it goes
\* at the await whether or not the task is lost.
DropSupervisorUnbound(g) ==
  /\ g \in polled /\ monitor[g] = "await"
  /\ monitor' = [monitor EXCEPT ![g] = "final"]
  /\ UNCHANGED <<domainVars, creation, phase, gate, aborted, task, outcome, live, stopVars,
                 faultVars, obsVars>>

\* ... and the supervising task at its await: TaskFinalizer::drop runs, but not
\* finish(), the cleanup, the publication or the unlisting.
DropSupervisor(g) ==
  /\ g \in lost \cap polled /\ monitor[g] = "await"
  /\ monitor' = [monitor EXCEPT ![g] = "final"]
  /\ UNCHANGED <<domainVars, creation, phase, gate, aborted, task, outcome, live, stopVars,
                 faultVars, obsVars>>

\* A supervising task that is dropped before its first poll has no finalizer.
DropUnpolled(g) ==
  /\ g \in lost \ (polled \cup closed) /\ monitor[g] = "await"
  /\ closed' = closed \cup {g}
  /\ UNCHANGED <<dvars, lost, polled, released, obsVars>>

\* The sender is captured by the supervising task and dropped after its locals.
CloseSender(g) ==
  /\ monitor[g] = "closed" /\ g \notin closed
  /\ closed' = closed \cup {g}
  /\ UNCHANGED <<dvars, lost, polled, released, obsVars>>

-----------------------------------------------------------------------------
TaskRuns(g) == (BeginPoll(g) /\ g \notin lost) \/ EndPoll(g) \/ Kill(g)

Supervised(g) ==
  \/ Finish(g) /\ g \in polled \ closed
  \/ Cleanup(g) \/ Publish(g) \/ Unlist(g) \/ TaskFinished(g) \/ NotifyQuiescent(g)

SupervisorStep(g) ==
  \/ Supervised(g) /\ UNCHANGED <<faultVars, obsVars>>
  \/ FirstPoll(g) \/ DropSupervisor(g) \/ DropUnpolled(g) \/ CloseSender(g)

Watch(o) == Spawned(o) \/ Borrow(o) \/ Changed(o)

ObserverStep(o) ==
  \/ Watch(o) \/ Wait(o) \/ Forget(o)
  \/ \E p \in Observers : CloneCompletion(o, p)
  \/ \E g \in Gens : Run(o, g) \/ \E h \in {"completion", "finished"} : Observe(o, g, h)

CompletionNext ==
  \/ \E o \in Observers : ObserverStep(o)
  \/ \E g \in Gens :
       \/ Release(g) \/ Lose(g) \/ KillLost(g) \/ SupervisorStep(g)
       \/ /\ CreatorStep(g) \/ TaskRuns(g) \/ \E o \in Results : BodyReturns(g, o)
          /\ UNCHANGED <<faultVars, obsVars>>
  \/ /\ \E s \in Stoppers : StopperStep(s) \/ \E m \in Calls : Call(s, m)
     /\ UNCHANGED <<faultVars, obsVars>>

CompletionSpec == CompletionInit /\ [][CompletionNext]_cvars

\* As in Domain; a lost runtime drops its tasks, and the observers' own futures
\* are polled when they are ready.
CompletionFair ==
  /\ CompletionSpec
  /\ \A o \in Observers : WF_cvars(Watch(o)) /\ WF_cvars(Wait(o))
  /\ \A g \in Gens :
       LET Frame == UNCHANGED <<faultVars, obsVars>> IN
       /\ WF_cvars((Register(g) \/ Refuse(g)) /\ Frame)
       /\ WF_cvars((Supervise(g) \/ Start(g)) /\ Frame)
       /\ WF_cvars(TaskRuns(g) /\ Frame)
       /\ WF_cvars(KillLost(g)) /\ WF_cvars(SupervisorStep(g))
       /\ WF_cvars(Cancelled(g) /\ (\E o \in Results : BodyReturns(g, o)) /\ Frame)
  /\ \A s \in Stoppers : WF_cvars(StopperStep(s) /\ UNCHANGED <<faultVars, obsVars>>)

-----------------------------------------------------------------------------
\* "All clones see the same immutable outcome" (README.md:208): whenever they
\* were made, however the publication, the drop of the sender and the loss of
\* the runtime interleave with their loops.
ObserversAgree ==
  \A o, p \in Observers :
    opc[o] = "returned" /\ opc[p] = "returned" /\ of[o] = of[p] => got[o] = got[p]

\* An observer says what the supervising task published, after the task has
\* ended and the control has finished; it says Aborted without that only of a
\* generation whose tasks were lost, which will never publish anything.
ObserversTellTheOutcome ==
  \A o \in Observers :
    LET g == of[o] IN
    opc[o] = "returned" /\ got[o] # "Acquire" =>
      \/ got[o] = outcome[g] /\ task[g] = outcome[g] /\ phase[g] = "Finished"
      \/ /\ got[o] = "Aborted" /\ outcome[g] = "none"
         /\ g \in lost \cap closed /\ monitor[g] \in {"await", "closed"}

\* Every observer of a generation that is cancelled or lost returns, although a
\* lost one publishes nothing.
ObserverReturns ==
  \A o \in Observers, g \in Gens :
    Waiting(o) /\ of[o] = g /\ (Cancelled(g) \/ g \in lost) ~> ~(Waiting(o) /\ of[o] = g)

\* The drop guard of the supervising task tells the domain of a lost one: every
\* call of shutdown() and terminate() returns, unless a supervising task was
\* lost before its first poll had built the guard.
StopSurvivesLoss ==
  \A s \in Stoppers :
    spc[s] = "lock" ~> spc[s] = "returned" \/ \E g \in Gens : g \in lost \ polled

\* Exactly such a one keeps its place in the table for good (run
\* completion_unpolled): any other entry still has its supervising task, or that
\* task's drop guard, to take it out.
OnlyUnpolledStayInTheTable ==
  \A g \in tasks :
    /\ monitor[g] \notin {"notify", "closed"}
    /\ g \in closed => g \in lost \ polled

-----------------------------------------------------------------------------
\* What a user is told of a generation in the end: what its supervising task
\* published, or Aborted once that task was dropped without having done so.
Verdict(g) ==
  IF outcome[g] # "none" THEN outcome[g]
  ELSE IF g \in lost /\ (monitor[g] \in {"final", "notify", "closed"} \/ g \in closed)
       THEN "Aborted" ELSE "none"

\* "Every managed generation produces one stable terminal outcome" (README.md:255):
\* once something is settled that an observer will be told, nothing that happens
\* later, to the tasks, the runtime or the domain, makes it another answer.
VerdictIsFinal ==
  [][\A g \in Gens : Verdict(g) # "none" => Verdict(g)' = Verdict(g)]_cvars

\* A domain that says it is Terminated leaves no observer in the dark: whatever
\* was lost, each of its generations has published its outcome, or its supervising
\* task is gone and every observer will find the channel closed (TaskFinalizer,
\* domain.rs:240; wait(), reference.rs:120).
TerminatedIsSettled ==
  domainPhase = "Terminated" =>
    \A g \in Gens : creation[g] = "registered" => Verdict(g) # "none"

\* What WeakResourceRef::upgrade (reference.rs:150) and get() ask of a generation:
\* an entry somebody leases, an accepting domain and an Active control.
Grantable(g) == monitor[g] # "none" /\ g \notin released /\ Accepting /\ phase[g] = "Active"

\* "Returns None while the identity is absent, still starting, cancelling,
\* finished" (context.rs:96), "Weak discovery returns only active generations"
\* (README.md:254): one whose termination an observer has reported, or whose
\* run() has returned, is not handed out any more.
FinishedIsNotGranted ==
  \A o \in Observers : opc[o] = "returned" => ~Grantable(of[o])

-----------------------------------------------------------------------------
\* The inductive strengthening: what the supervising task has behind it, and
\* that a sender is dropped only by a task that will not publish any more.
PublicationInv ==
  \A g \in Gens :
    /\ monitor[g] \in {"cleanup", "send", "unlist"} \/ outcome[g] # "none" =>
         phase[g] = "Finished" /\ task[g] \in Outcomes
    /\ outcome[g] # "none" => outcome[g] = task[g] /\ monitor[g] \notin {"none", "await", "cleanup", "send"}
    /\ monitor[g] = "unlist" => outcome[g] # "none"
    /\ monitor[g] \in {"final", "notify", "closed"} /\ outcome[g] = "none" => g \in lost
    /\ g \in closed => monitor[g] = "closed" \/ (monitor[g] = "await" /\ g \in lost \ polled)
    /\ g \in lost \cup polled \cup released => monitor[g] # "none"
    /\ creation[g] = "unborn" => task[g] = "none"

\* Who has a handle got it of a generation that is supervised, and
\* refused ones are refused for good.
HandleInv ==
  /\ \A o \in Observers :
       /\ opc[o] = "held" => how[o] = "completion"
       /\ opc[o] \in {"held", "borrow", "changed"} => monitor[of[o]] # "none"
       /\ opc[o] = "returned" /\ got[o] = "Acquire" => creation[of[o]] = "refused"
  /\ \A g \in Gens :
       /\ monitor[g] # "none" => creation[g] = "registered"
       /\ g \in gate => monitor[g] # "none" \/ creation[g] = "refused"

\* What the callers that stop the domain rely on, and no loss disturbs: the
\* table of module Domain's strengthening, and the callers' part of it.
SupervisionInv ==
  /\ \A g \in Gens :
       /\ g \in tasks <=> creation[g] = "registered" /\ monitor[g] \notin {"notify", "closed"}
       /\ monitor[g] # "none" => creation[g] = "registered"
  /\ StopInv
  /\ domainPhase = "Terminated" => tasks = {}
  /\ ShutdownMeansTerminated
  /\ NoLostWakeup
  /\ ShutdownHasAnEnder
  /\ CancelSignalsEveryTask

CompletionInv ==
  /\ TypeOK /\ CompletionTypeOK
  /\ PublicationInv /\ HandleInv
  /\ \A s \in Stoppers : spc[s] \notin {"idle", "lock"} => domainPhase # "Running"
  /\ \A s \in Stoppers : \A g \in todo[s] : creation[g] = "registered"
  /\ ObserversTellTheOutcome
=============================================================================
