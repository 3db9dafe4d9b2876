---------------------------- MODULE Dependencies ----------------------------
(***************************************************************************)
(* The dependency graph of a domain: who holds the leases                  *)
(* (src/src/reference.rs).  Managed tasks and interfaces hold leases on    *)
(* other generations, and so does code outside the domain; a task gives    *)
(* its leases back when it ends, an interface when its entry is dropped,   *)
(* and an entry is dropped with the last lease on it.  The generations     *)
(* themselves are those of module Domain.                                  *)
(***************************************************************************)
EXTENDS Domain, FiniteSets

CONSTANTS
  Outside,       \* the code that is no managed task
  None,
  Edges          \* <<p, g>>: the code of generation p ever stores leases on g

ASSUME OutsideAssumption == Outside \notin Gens /\ None \notin Gens \cup {Outside}
ASSUME EdgesAssumption == Edges \subseteq Gens \X Gens

VARIABLES
  held,          \* the generations that a task, or the outside, has leases on
  kept,          \* the generations that an interface has leases on
  maker,         \* who is inside create() for a generation
  dropped        \* the generations whose entry has been dropped

leaseVars == <<held, kept, maker, dropped>>
depVars == <<dvars, leaseVars>>

Holders == Gens \cup {Outside}

DepTypeOK ==
  /\ held \in [Holders -> SUBSET Gens]
  /\ kept \in [Gens -> SUBSET Gens]
  /\ maker \in [Gens -> Holders \cup {None}]
  /\ dropped \subseteq {g \in Gens : kept[g] = {}}

DepInit ==
  /\ DomainInit
  /\ held = [h \in Holders |-> {}]
  /\ kept = [g \in Gens |-> {}]
  /\ maker = [g \in Gens |-> None]
  /\ dropped = {}

-----------------------------------------------------------------------------
Depends(p, g) == g \in held[p] \cup kept[p]

\* The strong count of the entry is not zero.
Leased(g) ==
  \/ maker[g] # None \/ g \in held[Outside]
  \/ \E p \in Gens : Depends(p, g)

Runs(h) == h \in {Outside} \cup {g \in Gens : task[g] = "body"}
Stores(h, g) == h = Outside \/ <<h, g>> \in Edges
Busy(h) == \E g \in Gens : maker[g] = h

\* Mutant of Reaches: a task keeps its own interface alive.
ReachesOwn(h, g) == g \in held[h] \/ g = h
\* The interfaces that h can reach: through a lease, and a task its own.
Reaches(h, g) == g \in held[h] \/ (g = h /\ g \notin dropped)

\* What h can clone: its own leases and those it finds in interfaces.
Clonable(h, x) == x \in held[h] \/ \E g \in Gens : Reaches(h, g) /\ x \in kept[g]

Hold(h, x) == held' = [held EXCEPT ![h] = @ \cup {x}]

-----------------------------------------------------------------------------
\* create(): what build() made of its input is in the task and the interface,
\* and the entry's first lease is a local of create().
Make(h, g) ==
  /\ Runs(h) /\ ~Busy(h) /\ Stores(h, g) /\ Create(g)
  /\ maker' = [maker EXCEPT ![g] = h]
  /\ LET Given == {x \in Gens : Clonable(h, x) /\ Stores(g, x)} IN
     \E T \in SUBSET Given, F \in SUBSET Given :
       held' = [held EXCEPT ![g] = T] /\ kept' = [kept EXCEPT ![g] = F]
  /\ UNCHANGED dropped

\* A refused create() drops the entry; the task goes when its abort takes effect.
MakeRefused(g) ==
  /\ Refuse(g)
  /\ maker' = [maker EXCEPT ![g] = None]
  /\ kept' = [kept EXCEPT ![g] = {}]
  /\ dropped' = dropped \cup {g}
  /\ UNCHANGED held

\* ... and one that succeeds hands its lease to its caller.
Made(g) ==
  /\ Start(g)
  /\ IF maker[g] = None THEN UNCHANGED <<held, maker>>
     ELSE Hold(maker[g], g) /\ maker' = [maker EXCEPT ![g] = None]
  /\ UNCHANGED <<kept, dropped>>

\* Mutant of Acquire: the weak reference is taken for granted.
AcquireByControl(h, g) ==
  /\ Runs(h) /\ Stores(h, g)
  /\ monitor[g] # "none" /\ Accepting /\ phase[g] = "Active"
  /\ Hold(h, g)
  /\ UNCHANGED <<dvars, kept, maker, dropped>>

\* get(), status(), all(), an upgrade, a second get_or_spawn(): the weak entry
\* can be upgraded and Domain::try_acquire agrees.
Acquire(h, g) ==
  /\ Runs(h) /\ Stores(h, g)
  /\ monitor[g] # "none" /\ Leased(g) /\ Accepting /\ phase[g] = "Active"
  /\ Hold(h, g)
  /\ UNCHANGED <<dvars, kept, maker, dropped>>

\* ResourceRef::clone(), of a lease that an interface holds.
Clone(h, x) ==
  /\ Runs(h) /\ Stores(h, x) /\ Clonable(h, x)
  /\ Hold(h, x)
  /\ UNCHANGED <<dvars, kept, maker, dropped>>

\* A lease is stored in an interface, or sent to the task behind it.
Keep(h, g, x) ==
  /\ Runs(h) /\ Reaches(h, g) /\ Clonable(h, x) /\ Stores(g, x)
  /\ kept' = [kept EXCEPT ![g] = @ \cup {x}]
  /\ UNCHANGED <<dvars, held, maker, dropped>>

Send(h, g, x) ==
  /\ Runs(h) /\ g \in held[h] /\ Clonable(h, x) /\ Stores(g, x)
  /\ task[g] \notin Outcomes
  /\ Hold(g, x)
  /\ UNCHANGED <<dvars, kept, maker, dropped>>

\* A lease is given up.
Release(h, x) ==
  /\ Runs(h) /\ x \in held[h]
  /\ held' = [held EXCEPT ![h] = @ \ {x}]
  /\ UNCHANGED <<dvars, kept, maker, dropped>>

Discard(h, g, x) ==
  /\ Runs(h) /\ Reaches(h, g) /\ x \in kept[g]
  /\ kept' = [kept EXCEPT ![g] = @ \ {x}]
  /\ UNCHANGED <<dvars, held, maker, dropped>>

\* Mutant of Unhold: the finished future is not dropped.
UnholdNothing(g) == UNCHANGED held
\* The future of a task is dropped before its JoinHandle resolves.
Unhold(g) == held' = [held EXCEPT ![g] = {}]

TaskReturns(g, o) ==
  /\ BodyReturns(g, o) /\ ~Busy(g)
  /\ Unhold(g)
  /\ UNCHANGED <<kept, maker, dropped>>

TaskKilled(g) ==
  /\ Kill(g) /\ ~Busy(g)
  /\ Unhold(g)
  /\ UNCHANGED <<kept, maker, dropped>>

\* Mutant of EntryGone: the leases that interfaces hold are not counted.
EntryGoneKept(g) ==
  /\ g \notin dropped /\ maker[g] = None /\ \A h \in Holders : g \notin held[h]
  /\ EntryDrop(g)
  /\ dropped' = dropped \cup {g}
  /\ kept' = [kept EXCEPT ![g] = {}]
  /\ UNCHANGED <<held, maker>>

\* The last lease is gone: Entry::drop cancels the control, and the interface
\* is dropped with the leases it holds.
EntryGone(g) ==
  /\ g \notin dropped /\ ~Leased(g)
  /\ EntryDrop(g)
  /\ dropped' = dropped \cup {g}
  /\ kept' = [kept EXCEPT ![g] = {}]
  /\ UNCHANGED <<held, maker>>

-----------------------------------------------------------------------------
Unleased == UNCHANGED leaseVars

LeaseStep(h) ==
  \E x \in Gens :
    \/ Acquire(h, x) \/ Clone(h, x) \/ Release(h, x)
    \/ \E g \in Gens : Keep(h, g, x) \/ Send(h, g, x) \/ Discard(h, g, x)

DepNext ==
  \/ \E h \in Holders : LeaseStep(h) \/ \E g \in Gens : Make(h, g)
  \/ \E g \in Gens :
       \/ MakeRefused(g) \/ Made(g) \/ TaskKilled(g) \/ EntryGone(g)
       \/ \E o \in Results : TaskReturns(g, o)
       \/ Unleased /\ (Register(g) \/ Supervise(g) \/ BeginPoll(g) \/ EndPoll(g) \/ MonitorStep(g))
  \/ Unleased /\ \E s \in Stoppers : StopperStep(s) \/ \E m \in Calls : Call(s, m)

DepSpec == DepInit /\ [][DepNext]_depVars

\* As in Domain: code runs on between two awaits, and Entry::drop is such code.
\* Nobody has to give up a lease while its task runs.
DepFair ==
  /\ DepSpec
  /\ \A g \in Gens :
       /\ WF_depVars((Register(g) /\ Unleased) \/ MakeRefused(g))
       /\ WF_depVars(Supervise(g) /\ Unleased) /\ WF_depVars(Made(g))
       /\ WF_depVars(BeginPoll(g) /\ Unleased) /\ WF_depVars(EndPoll(g) /\ Unleased)
       /\ WF_depVars(TaskKilled(g)) /\ WF_depVars(MonitorStep(g) /\ Unleased)
       /\ WF_depVars(EntryGone(g))
       /\ WF_depVars(Cancelled(g) /\ \E o \in Results : TaskReturns(g, o))
  /\ \A s \in Stoppers : WF_depVars(StopperStep(s) /\ Unleased)

-----------------------------------------------------------------------------
\* "Every ResourceRef is one strong lease" (README.md:251): while anybody, a
\* task, an interface or the outside, has a lease on a generation, its entry
\* stays and only the end of the domain cancels it; so a strong cycle lives on.
DependencyAlive ==
  \A g \in Gens : Leased(g) => g \notin dropped /\ (phase[g] = "Cancelling" => ~Accepting)

\* "Existing references never move" and weak ones do not revive: a generation
\* without leases never has one again, although it may still be Active and
\* listed until Entry::drop gets to its control.
NoResurrection ==
  [][\A g \in Gens : monitor[g] # "none" /\ ~Leased(g) => ~Leased(g)']_depVars

\* "Task termination releases owned dependencies" (README.md:259): who sees an
\* outcome, a generation unlisted or a Terminated domain finds no lease left in
\* the tasks that are over.
OutcomeReleasesDependencies ==
  \A g \in Gens :
    outcome[g] # "none" \/ (creation[g] = "registered" /\ domainPhase = "Terminated")
      => held[g] = {}

\* No path of leases leads to g from the outside, and none from a cycle of
\* leases: S is closed under who holds a lease and has no cycle.
Acyclic(S) == \A C \in SUBSET S \ {{}} : \E p \in C : \A x \in C : ~Depends(p, x)
Unreachable(g) ==
  \E S \in SUBSET Gens :
    /\ g \in S /\ Acyclic(S)
    /\ \A x \in S : /\ maker[x] = None /\ x \notin held[Outside]
                    /\ \A p \in Gens : Depends(p, x) => p \in S

\* "... and propagates reclamation", with "strong dependency cycles" as the only
\* exception (README.md:259-260): down any chain of tasks and interfaces, whoever
\* is no longer reachable is cancelled, dropped and supervised to its end.
UnreachableIsReclaimed ==
  \A g \in Gens :
    monitor[g] # "none" /\ Unreachable(g)
      ~> (g \in dropped /\ monitor[g] = "closed") \/ ~Unreachable(g)

-----------------------------------------------------------------------------
\* The inductive strengthening: where leases can be before and after the life
\* of an entry and of a task.
LeaseInv ==
  \A g \in Gens :
    /\ g \in dropped => ~Leased(g) /\ kept[g] = {} /\ (monitor[g] # "none" \/ creation[g] = "refused")
    /\ (\E h \in Holders : g \in held[h]) \/ (\E p \in Gens : g \in kept[p]) => monitor[g] # "none"
    /\ creation[g] = "unborn" => maker[g] = None /\ kept[g] = {}
    /\ maker[g] # None => creation[g] \in {"spawned", "registered"} /\ g \notin gate
    /\ maker[g] \in Gens => task[maker[g]] = "body"
    /\ g \in gate => monitor[g] # "none" \/ creation[g] = "refused"
    /\ monitor[g] = "none" /\ creation[g] \in {"spawned", "registered"} => maker[g] # None
    /\ creation[g] = "refused" => g \in dropped
    /\ phase[g] = "Cancelling" => g \in dropped \/ ~Accepting
    /\ task[g] \in Outcomes \cup {"none"} => held[g] = {}
    /\ creation[g] = "unborn" <=> task[g] = "none"
    /\ creation[g] = "unborn" => monitor[g] = "none"

DepInv == IInv /\ DepTypeOK /\ LeaseInv /\ DependencyAlive
=============================================================================
