------------------------------- MODULE Domain -------------------------------
(***************************************************************************)
(* A resource domain: its phase, its supervisor's table of managed tasks   *)
(* and the callers of cancel(), shutdown() and terminate()                 *)
(* (src/src/domain.rs), with each generation's managed task, start gate    *)
(* and supervising task (ResourceContext::create in src/src/context.rs).   *)
(*                                                                         *)
(* Who creates generations and who holds leases on them is left open here: *)
(* Create, Supervise, Start and EntryDrop may happen whenever the domain   *)
(* allows it.  Module Acquisition says when the code performs them.        *)
(***************************************************************************)
CONSTANTS
  Gens,          \* the generations that can ever be created
  Stoppers,      \* the callers of cancel(), shutdown() and terminate()
  Calls,         \* which of the three calls they make
  Results        \* how the tasks may end of their own accord

ASSUME CallsAssumption == Calls \subseteq {"cancel", "shutdown", "terminate"}
ASSUME ResultsAssumption == Results \subseteq {"Completed", "Failed", "Panicked"}

VARIABLES
  domainPhase,   \* Domain::phase
  shutdownToken, \* Domain::shutdown has been cancelled
  tasks,         \* the generations in Supervisor::tasks
  woken,         \* the callers whose Notified future has been notified
  creation,      \* how far create() has taken each generation
  phase,         \* Control::phase of each generation (module Control)
  gate,          \* generations whose start sender was used or dropped
  aborted,       \* generations on whose task abort() was called
  task,          \* the managed task, or how its JoinHandle resolved
  monitor,       \* the supervising task of each generation
  outcome,       \* what its watch channel holds
  live,          \* the generations in Registry::live
  spc,           \* where each caller is
  call,          \* what it called
  todo           \* its snapshot of the supervisor: controls, then abort handles

domainVars == <<domainPhase, shutdownToken, tasks, woken>>
genVars == <<creation, phase, gate, aborted, task, monitor, outcome, live>>
stopVars == <<spc, call, todo>>
dvars == <<domainVars, genVars, stopVars>>

Outcomes == {"Completed", "Failed", "Panicked", "Aborted"}
Phases == {"Starting", "Active", "Cancelling", "Finished"}
Monitors == {"none", "await", "cleanup", "send", "unlist", "final", "notify", "closed"}

TypeOK ==
  /\ domainPhase \in {"Running", "ShuttingDown", "Terminated"}
  /\ shutdownToken \in BOOLEAN
  /\ tasks \subseteq {g \in Gens : creation[g] = "registered"}
  /\ woken \subseteq Stoppers
  /\ creation \in [Gens -> {"unborn", "spawned", "refused", "registered"}]
  /\ phase \in [Gens -> Phases]
  /\ gate \subseteq Gens /\ aborted \subseteq Gens /\ live \subseteq Gens
  /\ task \in [Gens -> {"none", "gated", "polling", "body"} \cup Outcomes]
  /\ monitor \in [Gens -> Monitors]
  /\ outcome \in [Gens -> {"none"} \cup Outcomes]
  /\ spc \in [Stoppers -> {"idle", "lock", "locked", "signal", "snapshot", "abort",
                           "subscribe", "check", "poll", "await", "returned"}]
  /\ call \in [Stoppers -> {"cancel", "shutdown", "terminate"}]
  /\ todo \in [Stoppers -> SUBSET Gens]

DomainInit ==
  /\ domainPhase = "Running" /\ shutdownToken = FALSE
  /\ tasks = {} /\ woken = {}
  /\ creation = [g \in Gens |-> "unborn"]
  /\ phase = [g \in Gens |-> "Starting"]
  /\ gate = {} /\ aborted = {} /\ live = {}
  /\ task = [g \in Gens |-> "none"]
  /\ monitor = [g \in Gens |-> "none"]
  /\ outcome = [g \in Gens |-> "none"]
  /\ spc = [s \in Stoppers |-> "idle"]
  /\ call = [s \in Stoppers |-> "cancel"]
  /\ todo = [s \in Stoppers |-> {}]

-----------------------------------------------------------------------------
Accepting == domainPhase = "Running"

\* The supervisor's mutex is held across steps only inside Domain::cancel,
\* between its compare-exchange and its snapshot.
SupervisorFree == \A s \in Stoppers : spc[s] # "locked"

\* Control::cancel and Control::finish as one step each; module Control has
\* their atomic accesses.
CancelPhase(p) == IF p \in {"Starting", "Active"} THEN "Cancelling" ELSE p

\* What the managed task sees through ResourceContext::cancelled().
Cancelled(g) == shutdownToken \/ phase[g] = "Cancelling"

-----------------------------------------------------------------------------
\* create(), after build: the control, the entry and the gated task come into
\* being.  From here a worker may poll the task.
Create(g) ==
  /\ creation[g] = "unborn"
  /\ creation' = [creation EXCEPT ![g] = "spawned"]
  /\ task' = [task EXCEPT ![g] = "gated"]
  /\ UNCHANGED <<domainVars, phase, gate, aborted, monitor, outcome, live, stopVars>>

\* Mutant of Register: the second is_accepting(), under the lock, is missing.
RegisterUnchecked(g) ==
  /\ creation[g] = "spawned" /\ SupervisorFree
  /\ creation' = [creation EXCEPT ![g] = "registered"]
  /\ phase' = [phase EXCEPT ![g] = "Active"]
  /\ tasks' = tasks \cup {g}
  /\ UNCHANGED <<domainPhase, shutdownToken, woken, gate, aborted, task, monitor,
                 outcome, live, stopVars>>

\* Domain::register succeeds: under the supervisor's lock, with activate().
Register(g) ==
  /\ creation[g] = "spawned" /\ SupervisorFree /\ Accepting
  /\ creation' = [creation EXCEPT ![g] = "registered"]
  /\ phase' = [phase EXCEPT ![g] = "Active"]
  /\ tasks' = tasks \cup {g}
  /\ UNCHANGED <<domainPhase, shutdownToken, woken, gate, aborted, task, monitor,
                 outcome, live, stopVars>>

\* Domain::register refuses; create() aborts the task and cancels the control.
Refuse(g) ==
  /\ creation[g] = "spawned" /\ ~Accepting
  /\ creation' = [creation EXCEPT ![g] = "refused"]
  /\ aborted' = aborted \cup {g}
  /\ phase' = [phase EXCEPT ![g] = CancelPhase(@)]
  /\ UNCHANGED <<domainVars, gate, task, monitor, outcome, live, stopVars>>

\* The generation is listed as live and its supervising task is spawned.
Supervise(g) ==
  /\ creation[g] = "registered" /\ monitor[g] = "none"
  /\ live' = live \cup {g}
  /\ monitor' = [monitor EXCEPT ![g] = "await"]
  /\ UNCHANGED <<domainVars, creation, phase, gate, aborted, task, outcome, stopVars>>

\* The start sender is used; a refused create() drops it, with the same effect
\* on the gate, which ignores how the receiver resolved.
Start(g) ==
  /\ g \notin gate
  /\ monitor[g] # "none" \/ creation[g] = "refused"
  /\ gate' = gate \cup {g}
  /\ UNCHANGED <<domainVars, creation, phase, aborted, task, monitor, outcome, live, stopVars>>

\* The last lease is gone and Entry::drop cancels the control.
EntryDrop(g) ==
  /\ creation[g] = "registered" /\ monitor[g] # "none"
  /\ phase' = [phase EXCEPT ![g] = CancelPhase(@)]
  /\ UNCHANGED <<domainVars, creation, gate, aborted, task, monitor, outcome, live, stopVars>>

-----------------------------------------------------------------------------
\* The managed task.  A worker begins a poll unless the task was aborted; what
\* the poll finds at the gate is decided later, and an abort in between takes
\* effect only when the poll ends.
BeginPoll(g) ==
  /\ task[g] = "gated" /\ g \notin aborted
  /\ task' = [task EXCEPT ![g] = "polling"]
  /\ UNCHANGED <<domainVars, creation, phase, gate, aborted, monitor, outcome, live, stopVars>>

EndPoll(g) ==
  /\ task[g] = "polling"
  /\ task' = [task EXCEPT ![g] = IF g \in gate THEN "body" ELSE "gated"]
  /\ UNCHANGED <<domainVars, creation, phase, gate, aborted, monitor, outcome, live, stopVars>>

\* The resource's own task returns Ok, Err, or panics.
BodyReturns(g, o) ==
  /\ task[g] = "body" /\ o \in Results
  /\ task' = [task EXCEPT ![g] = o]
  /\ UNCHANGED <<domainVars, creation, phase, gate, aborted, monitor, outcome, live, stopVars>>

\* An abort takes effect between two polls.
Kill(g) ==
  /\ task[g] \in {"gated", "body"} /\ g \in aborted
  /\ task' = [task EXCEPT ![g] = "Aborted"]
  /\ UNCHANGED <<domainVars, creation, phase, gate, aborted, monitor, outcome, live, stopVars>>

-----------------------------------------------------------------------------
\* Mutant of Finish: the task is not joined.
FinishEarly(g) ==
  /\ monitor[g] = "await"
  /\ phase' = [phase EXCEPT ![g] = "Finished"]
  /\ monitor' = [monitor EXCEPT ![g] = "cleanup"]
  /\ UNCHANGED <<domainVars, creation, gate, aborted, task, outcome, live, stopVars>>

\* The supervising task: join, finish the control, clean the registry up,
\* publish the outcome, unlist, and let TaskFinalizer::drop tell the domain.
Finish(g) ==
  /\ monitor[g] = "await" /\ task[g] \in Outcomes
  /\ phase' = [phase EXCEPT ![g] = "Finished"]
  /\ monitor' = [monitor EXCEPT ![g] = "cleanup"]
  /\ UNCHANGED <<domainVars, creation, gate, aborted, task, outcome, live, stopVars>>

Cleanup(g) ==
  /\ monitor[g] = "cleanup"
  /\ monitor' = [monitor EXCEPT ![g] = "send"]
  /\ UNCHANGED <<domainVars, creation, phase, gate, aborted, task, outcome, live, stopVars>>

Publish(g) ==
  /\ monitor[g] = "send"
  /\ outcome' = [outcome EXCEPT ![g] = task[g]]
  /\ monitor' = [monitor EXCEPT ![g] = "unlist"]
  /\ UNCHANGED <<domainVars, creation, phase, gate, aborted, task, live, stopVars>>

Unlist(g) ==
  /\ monitor[g] = "unlist"
  /\ live' = live \ {g}
  /\ monitor' = [monitor EXCEPT ![g] = "final"]
  /\ UNCHANGED <<domainVars, creation, phase, gate, aborted, task, outcome, stopVars>>

\* The callers that hold a Notified future when notify_waiters() runs.
ListeningOncePolled == {s \in Stoppers : spc[s] = "await"}  \* mutant: as if from the first poll
Listening == {s \in Stoppers : spc[s] \in {"check", "poll", "await"}}

\* Mutant of TaskFinished: the table is not looked at.
TaskFinishedEarly(g) ==
  /\ monitor[g] = "final" /\ SupervisorFree
  /\ tasks' = tasks \ {g}
  /\ IF ~Accepting
     THEN /\ domainPhase' = "Terminated"
          /\ monitor' = [monitor EXCEPT ![g] = "notify"]
     ELSE /\ monitor' = [monitor EXCEPT ![g] = "closed"]
          /\ UNCHANGED domainPhase
  /\ UNCHANGED <<shutdownToken, woken, creation, phase, gate, aborted, task, outcome,
                 live, stopVars>>

\* Mutant of TaskFinished: the drop guard publishes Aborted on its way out, lest
\* an outcome be missing, without a look whether there is one.
TaskFinishedPublishes(g) ==
  /\ monitor[g] = "final" /\ SupervisorFree
  /\ tasks' = tasks \ {g}
  /\ outcome' = [outcome EXCEPT ![g] = "Aborted"]
  /\ IF ~Accepting /\ tasks' = {}
     THEN /\ domainPhase' = "Terminated"
          /\ monitor' = [monitor EXCEPT ![g] = "notify"]
     ELSE /\ monitor' = [monitor EXCEPT ![g] = "closed"]
          /\ UNCHANGED domainPhase
  /\ UNCHANGED <<shutdownToken, woken, creation, phase, gate, aborted, task, live, stopVars>>

\* Domain::task_finished: the last task out terminates a domain that shuts down.
TaskFinished(g) ==
  /\ monitor[g] = "final" /\ SupervisorFree
  /\ tasks' = tasks \ {g}
  /\ IF ~Accepting /\ tasks' = {}
     THEN /\ domainPhase' = "Terminated"
          /\ monitor' = [monitor EXCEPT ![g] = "notify"]
     ELSE /\ monitor' = [monitor EXCEPT ![g] = "closed"]
          /\ UNCHANGED domainPhase
  /\ UNCHANGED <<shutdownToken, woken, creation, phase, gate, aborted, task, outcome,
                 live, stopVars>>

\* ... and wakes the waiting callers after it released the lock.
NotifyQuiescent(g) ==
  /\ monitor[g] = "notify"
  /\ woken' = woken \cup Listening
  /\ monitor' = [monitor EXCEPT ![g] = "closed"]
  /\ UNCHANGED <<domainPhase, shutdownToken, tasks, creation, phase, gate, aborted,
                 task, outcome, live, stopVars>>

-----------------------------------------------------------------------------
Goto(s, l) == spc' = [spc EXCEPT ![s] = l]

Call(s, m) ==
  /\ spc[s] = "idle" /\ m \in Calls
  /\ call' = [call EXCEPT ![s] = m]
  /\ Goto(s, "lock")
  /\ UNCHANGED <<domainVars, genVars, todo>>

\* Domain::cancel takes the lock and moves a running domain to ShuttingDown.
Lock(s) ==
  /\ spc[s] = "lock" /\ SupervisorFree
  /\ domainPhase' = IF Accepting THEN "ShuttingDown" ELSE domainPhase
  /\ Goto(s, "locked")
  /\ UNCHANGED <<shutdownToken, tasks, woken, genVars, call, todo>>

\* Mutant of Controls: only the first caller signals the tasks.
ControlsOnce == IF shutdownToken THEN {} ELSE tasks
Controls == tasks

\* Mutant of Snapshot: cancel() leaves an idle domain to the last task.
SnapshotOnly(s) ==
  /\ spc[s] = "locked"
  /\ todo' = [todo EXCEPT ![s] = tasks]
  /\ shutdownToken' = TRUE
  /\ Goto(s, "signal")
  /\ UNCHANGED <<domainPhase, woken, tasks, genVars, call>>

\* Still under the lock: the domain's token, the snapshot of the controls, and
\* the end of a domain that has no task; then the lock is released.
Snapshot(s) ==
  /\ spc[s] = "locked"
  /\ todo' = [todo EXCEPT ![s] = IF domainPhase = "Terminated" THEN {} ELSE Controls]
  /\ IF domainPhase # "Terminated" /\ tasks = {}
     THEN domainPhase' = "Terminated" /\ woken' = woken \cup Listening
     ELSE UNCHANGED <<domainPhase, woken>>
  /\ shutdownToken' = TRUE
  /\ Goto(s, "signal")
  /\ UNCHANGED <<tasks, genVars, call>>

\* control.cancel() for each control of the snapshot, outside the lock.
Signal(s, g) ==
  /\ spc[s] = "signal" /\ g \in todo[s]
  /\ phase' = [phase EXCEPT ![g] = CancelPhase(@)]
  /\ todo' = [todo EXCEPT ![s] = @ \ {g}]
  /\ UNCHANGED <<domainVars, creation, gate, aborted, task, monitor, outcome, live, spc, call>>

\* Mutant of AfterCancel: the tasks are not waited for.
AfterCancelReturn(m) == IF m = "terminate" THEN "snapshot" ELSE "returned"
\* Mutant of AfterCancel: terminate() forgets to abort.
AfterCancelNoAbort(m) == IF m = "cancel" THEN "returned" ELSE "subscribe"
AfterCancel(m) ==
  IF m = "cancel" THEN "returned" ELSE IF m = "shutdown" THEN "subscribe" ELSE "snapshot"

CancelDone(s) ==
  /\ spc[s] = "signal" /\ todo[s] = {}
  /\ Goto(s, AfterCancel(call[s]))
  /\ UNCHANGED <<domainVars, genVars, call, todo>>

\* Domain::terminate collects the abort handles under the lock ...
SnapshotAborts(s) ==
  /\ spc[s] = "snapshot" /\ SupervisorFree
  /\ todo' = [todo EXCEPT ![s] = tasks]
  /\ Goto(s, "abort")
  /\ UNCHANGED <<domainVars, genVars, call>>

\* ... aborts outside it ...
Abort(s, g) ==
  /\ spc[s] = "abort" /\ g \in todo[s]
  /\ aborted' = aborted \cup {g}
  /\ todo' = [todo EXCEPT ![s] = @ \ {g}]
  /\ UNCHANGED <<domainVars, creation, phase, gate, task, monitor, outcome, live, spc, call>>

\* ... and goes on as shutdown(), which cancels once more.
AbortDone(s) ==
  /\ spc[s] = "abort" /\ todo[s] = {}
  /\ call' = [call EXCEPT ![s] = "shutdown"]
  /\ Goto(s, "lock")
  /\ UNCHANGED <<domainVars, genVars, todo>>

\* Domain::shutdown creates its Notified future before it reads the phase.
Subscribe(s) ==
  /\ spc[s] = "subscribe"
  /\ woken' = woken \ {s}
  /\ Goto(s, "check")
  /\ UNCHANGED <<domainPhase, shutdownToken, tasks, genVars, call, todo>>

Check(s) ==
  /\ spc[s] = "check"
  /\ Goto(s, IF domainPhase = "Terminated" THEN "returned" ELSE "poll")
  /\ UNCHANGED <<domainVars, genVars, call, todo>>

Poll(s) ==
  /\ spc[s] = "poll"
  /\ Goto(s, "await")
  /\ UNCHANGED <<domainVars, genVars, call, todo>>

Awake(s) ==
  /\ spc[s] = "await" /\ s \in woken
  /\ Goto(s, "subscribe")
  /\ UNCHANGED <<domainVars, genVars, call, todo>>

-----------------------------------------------------------------------------
TaskStep(g) == BeginPoll(g) \/ EndPoll(g) \/ Kill(g) \/ \E o \in Results : BodyReturns(g, o)

MonitorStep(g) ==
  \/ Finish(g) \/ Cleanup(g) \/ Publish(g) \/ Unlist(g)
  \/ TaskFinished(g) \/ NotifyQuiescent(g)

StopperStep(s) ==
  \/ Lock(s) \/ Snapshot(s) \/ CancelDone(s) \/ SnapshotAborts(s) \/ AbortDone(s)
  \/ Subscribe(s) \/ Check(s) \/ Poll(s) \/ Awake(s)
  \/ \E g \in Gens : Signal(s, g) \/ Abort(s, g)

CreatorStep(g) == Create(g) \/ Register(g) \/ Refuse(g) \/ Supervise(g) \/ Start(g)

DomainNext ==
  \/ \E g \in Gens : CreatorStep(g) \/ EntryDrop(g) \/ TaskStep(g) \/ MonitorStep(g)
  \/ \E s \in Stoppers : StopperStep(s) \/ \E m \in Calls : Call(s, m)

DomainSpec == DomainInit /\ [][DomainNext]_dvars

\* What the runtime gives: code between two awaits runs on, ready tasks are
\* polled, an aborted task dies at its next yield.  Nobody has to create a
\* generation, drop a lease or stop the domain, and a body need not return.
Scheduling ==
  /\ \A g \in Gens :
       /\ WF_dvars(Register(g) \/ Refuse(g)) /\ WF_dvars(Supervise(g)) /\ WF_dvars(Start(g))
       /\ WF_dvars(BeginPoll(g)) /\ WF_dvars(EndPoll(g)) /\ WF_dvars(Kill(g))
       /\ WF_dvars(MonitorStep(g))
  /\ \A s \in Stoppers : WF_dvars(StopperStep(s))

\* Cooperation: a task that sees its cancellation returns (README.md:217).
Cooperation ==
  \A g \in Gens : WF_dvars(Cancelled(g) /\ \E o \in Results : BodyReturns(g, o))

StubbornSpec == DomainSpec /\ Scheduling

-----------------------------------------------------------------------------
\* Every call of shutdown() or terminate() returns ...
StopReturns == \A s \in Stoppers : spc[s] = "lock" ~> spc[s] = "returned"

\* ... if the tasks cooperate (README.md:217), ...
CooperativeStopReturns == Cooperation => StopReturns

\* ... and terminate() even if no task ever reacts to its cancellation.
TerminateReturns ==
  \A s \in Stoppers : spc[s] = "lock" /\ call[s] = "terminate" ~> spc[s] = "returned"

\* "shutdown().await signals cancellation and waits for every task"
\* (README.md:225): when the domain is Terminated, or a call of shutdown() or
\* terminate() returned, every generation the domain ever managed has published
\* its outcome, left the live table and been finished.
TerminatedIsQuiescent ==
  domainPhase = "Terminated" \/ (\E s \in Stoppers : spc[s] = "returned" /\ call[s] # "cancel") =>
    \A g \in Gens : creation[g] = "registered" =>
      /\ monitor[g] \in {"notify", "closed"} /\ g \notin tasks
      /\ phase[g] = "Finished" /\ outcome[g] # "none" /\ g \notin live

\* A call of shutdown() or terminate() returns only into a quiescent domain.
ShutdownMeansTerminated ==
  \A s \in Stoppers : spc[s] = "returned" /\ call[s] # "cancel" => domainPhase = "Terminated"

\* A shutdown cannot hang on a lost wakeup: whoever waits in a Terminated
\* domain has been notified, or the task that ended it is about to notify
\* (the Notified future is created before the phase is read, domain.rs:371).
NoLostWakeup ==
  domainPhase = "Terminated" =>
    \A s \in Stoppers : spc[s] \in {"poll", "await"} =>
      s \in woken \/ \E g \in Gens : monitor[g] = "notify"

\* Nor on a domain that nobody will ever terminate: one that is shutting down
\* has a managed task left, or cancel() holds the lock and is about to look.
ShutdownHasAnEnder ==
  domainPhase = "ShuttingDown" => tasks # {} \/ ~SupervisorFree

PastSignal == {"snapshot", "abort", "subscribe", "check", "poll", "await", "returned"}

\* cancel() "signals all managed tasks" (runtime.rs:48), whoever calls it and
\* however the calls interleave: once one of them has returned, no managed
\* generation can be acquired and every managed task sees its cancellation.
CancelSignalsEveryTask ==
  (\E s \in Stoppers : spc[s] \in PastSignal)
    => shutdownToken /\ \A g \in tasks : phase[g] \in {"Cancelling", "Finished"}

\* A generation is managed only by a domain that accepted it: none joins the
\* table once a shutdown began, so a snapshot of the table misses nobody.
NoLateRegistration ==
  [][\A g \in Gens : g \in tasks' /\ g \notin tasks => domainPhase = "Running"]_dvars

\* "The task starts after the generation has been registered in its domain"
\* (resource.rs:35; README.md:107).
TaskStartsAfterRegistration ==
  \A g \in Gens : task[g] = "body" => creation[g] = "registered"

\* How far a task may start too early (run domain_start): only that of a refused
\* generation, which its creator has aborted because the domain stops, ...
OnlyRefusedStartEarly ==
  \A g \in Gens : task[g] \in {"body"} \cup Results /\ creation[g] # "registered" =>
    creation[g] = "refused" /\ g \in aborted /\ ~Accepting

\* ... and only in a poll that had begun before: one that is at the gate between
\* two polls is dropped there.
RefusedAtTheGateEnds ==
  [][\A g \in Gens : task[g] = "gated" /\ creation[g] = "refused" =>
       task'[g] \in {"gated", "Aborted"}]_dvars

-----------------------------------------------------------------------------
\* What the domain's users see of a generation: it is established when it is
\* registered, ends when its control is past Active, and has settled when its
\* outcome is published.
LifeOf(g) ==
  IF creation[g] # "registered" THEN "unborn"
  ELSE IF outcome[g] # "none" THEN "settled"
  ELSE IF phase[g] = "Active" THEN "active" ELSE "ending"

Life == INSTANCE Lifecycle
          WITH domain <- domainPhase, life <- [g \in Gens |-> LifeOf(g)], result <- outcome

\* The domain keeps the promises of module Lifecycle, whatever its tasks and its
\* callers do ...
KeepsLifecycle == Life!LifeSpec

\* ... and, if the tasks cooperate, ends once it was told to stop.
KeepsLifecycleLive == Cooperation => Life!Progress

-----------------------------------------------------------------------------
\* The inductive strengthening.  A generation is in the table exactly from its
\* registration until its supervising task takes it out, and what that task
\* did before is settled; nobody is inside cancel() in a running domain, so the
\* table only shrinks under a snapshot, and what is no longer to be signalled
\* has been signalled or has finished.
GenInv ==
  \A g \in Gens :
    /\ g \in tasks <=> creation[g] = "registered" /\ monitor[g] \notin {"notify", "closed"}
    /\ monitor[g] # "none" => creation[g] = "registered"
    /\ monitor[g] \notin {"none", "await"} => phase[g] = "Finished" /\ task[g] \in Outcomes
    /\ monitor[g] \in {"unlist", "final", "notify", "closed"} <=> outcome[g] # "none"
    /\ monitor[g] \in {"final", "notify", "closed"} => g \notin live

StopInv ==
  \A s \in Stoppers :
    /\ spc[s] \notin {"idle", "lock"} => domainPhase # "Running"
    /\ spc[s] \in PastSignal \cup {"signal"} => shutdownToken
    /\ spc[s] = "signal" => \A g \in tasks \ todo[s] : phase[g] \in {"Cancelling", "Finished"}
    /\ \A g \in todo[s] : creation[g] = "registered"

IInv ==
  /\ TypeOK
  /\ GenInv /\ StopInv
  /\ domainPhase = "Terminated" => tasks = {}
  /\ ShutdownMeansTerminated
  /\ NoLostWakeup
  /\ ShutdownHasAnEnder
  /\ CancelSignalsEveryTask

\* Who can be past the gate: the gate of a generation opens once it is supervised
\* or refused, and a refused one has been aborted.
GateInv ==
  \A g \in Gens :
    /\ g \in gate \/ task[g] \in {"body"} \cup Results
         => monitor[g] # "none" \/ creation[g] = "refused"
    /\ creation[g] = "refused" => g \in aborted /\ ~Accepting
=============================================================================
