----------------------------- MODULE Acquisition -----------------------------
(***************************************************************************)
(* How generations are acquired: the registry of one resource type         *)
(* (Registry and RegistrySlot in src/src/domain.rs), the calls of          *)
(* ResourceContext that claim, construct and discover generations          *)
(* (src/src/context.rs), and the leases they hand out                      *)
(* (src/src/reference.rs), on top of the domain of module Domain.          *)
(*                                                                         *)
(* A caller is a place that runs one acquisition and then holds at most    *)
(* the one lease it returned.  A step is what nobody can observe in parts: *)
(* one critical section, one atomic access, or code that touches only its  *)
(* own locals; locks that are held across several steps are kept.          *)
(***************************************************************************)
EXTENDS Domain, Naturals

CONSTANTS
  Callers,       \* futures and threads that acquire
  Keys,          \* the keys of one canonical resource type
  Slots,         \* the RegistrySlots that can ever be allocated (a bound)
  Ops,           \* the calls they make
  None

Canonical == {"get_or_spawn", "try_get_or_spawn", "spawn"}

ASSUME OpsAssumption == Ops \subseteq Canonical \cup {"unique", "get", "upgrade", "clone"}

\* What a cleanup closure captures: a key, the slot it was reserved in, and the
\* number of the reservation.
Tickets == [key : Keys, slot : Slots, num : Nat]

ASSUME NoneAssumption == None \notin Gens \cup Keys \cup Slots \cup Tickets

VARIABLES
  entries,       \* Registry::entries: the slot of each key, or None
  slot,          \* RegistrySlot::state, with the numeric generation of the slot
  pc,            \* where each caller is
  loc,           \* its call: the operation, the key, and the slot and the number it works on
  ref,           \* the generation it holds a strong reference to, or None
  home           \* what each generation's cleanup closure captured, or None

regVars == <<entries, slot>>
callVars == <<pc, loc, ref>>
avars == <<regVars, callVars, home>>
vars == <<dvars, avars>>

Local(o, k, s, n) == [op |-> o, key |-> k, slot |-> s, num |-> n]
Idle == Local("none", None, None, 0)
Unused == [state |-> "unused", num |-> 0, gen |-> None]

Locations ==
  {"idle", "claim", "claimed", "occupied", "listen", "create", "build", "register",
   "refused", "supervise", "accept", "reject", "publish", "announce", "start",
   "guard", "guardNotify", "fetch", "probe", "probed", "weak", "holding"}

SlotStates == [state : {"unused", "Starting", "Active"}, num : Nat, gen : Gens \cup {None}]
Locals == [op : Ops \cup {"none"}, key : Keys \cup {None}, slot : Slots \cup {None}, num : Nat]

AcquisitionTypeOK ==
  /\ entries \in [Keys -> Slots \cup {None}]
  /\ slot \in [Slots -> SlotStates]
  /\ \A s \in Slots : slot[s].state = "Active" => slot[s].gen # None
  /\ pc \in [Callers -> Locations]
  /\ loc \in [Callers -> Locals]
  /\ ref \in [Callers -> Gens \cup {None}]
  /\ home \in [Gens -> Tickets \cup {None}]

Init ==
  /\ DomainInit
  /\ entries = [k \in Keys |-> None]
  /\ slot = [s \in Slots |-> Unused]
  /\ pc = [c \in Callers |-> "idle"]
  /\ loc = [c \in Callers |-> Idle]
  /\ ref = [c \in Callers |-> None]
  /\ home = [g \in Gens |-> None]

-----------------------------------------------------------------------------
\* The strong count of a generation's entry is not zero.
Leased(g) == \E c \in Callers : ref[c] = g

TryAcquireAny(g) == Accepting   \* mutant of TryAcquire: the control is not asked
TryAcquire(g) == Accepting /\ phase[g] = "Active"

\* A claim holds the map entry and the slot while it decides about a
\* generation it upgraded; get() and status() hold the slot only.
EntryFree(k) == \A c \in Callers : ~(pc[c] = "claimed" /\ loc[c].key = k)
SlotFree(s) == \A c \in Callers : ~(pc[c] \in {"claimed", "probed"} /\ loc[c].slot = s)

\* remove_if_same needs the map entry, and the slot when it is the same slot.
CanRemove(k, s) == EntryFree(k) /\ (entries[k] = s => SlotFree(s))

SameSlot(k, s, n) == entries[k] = s   \* mutant of Same: has_generation() is missing
Same(k, s, n) == entries[k] = s /\ slot[s].num = n
RemoveIfSame(k, s, n) ==
  entries' = IF Same(k, s, n) THEN [entries EXCEPT ![k] = None] ELSE entries

Jump(c, l) == pc' = [pc EXCEPT ![c] = l]
Return(c) == Jump(c, "idle") /\ loc' = [loc EXCEPT ![c] = Idle]
ReturnLease(c) == Jump(c, "holding") /\ loc' = [loc EXCEPT ![c] = Idle]
Aim(c, s, n) == loc' = [loc EXCEPT ![c] = Local(loc[c].op, loc[c].key, s, n)]
Take(c, g) == ref' = [ref EXCEPT ![c] = g]
Release(c) == Take(c, None)

\* slot.changed.notify(usize::MAX), by a caller that goes on at l.
NotifyListeners(c, l) ==
  pc' = [d \in Callers |->
           IF d = c THEN l
           ELSE IF pc[d] = "listen" /\ loc[d].slot = loc[c].slot THEN "claim" ELSE pc[d]]

-----------------------------------------------------------------------------
\* A call that passes its first accept check (one that fails it returns).
Begin(c, o, k) ==
  /\ pc[c] = "idle" /\ o \in Canonical /\ Accepting
  /\ Jump(c, "claim")
  /\ loc' = [loc EXCEPT ![c] = Local(o, k, None, 0)]
  /\ UNCHANGED <<dvars, regVars, ref, home>>

BeginUnique(c) ==
  /\ pc[c] = "idle" /\ "unique" \in Ops
  /\ Jump(c, "create")
  /\ loc' = [loc EXCEPT ![c] = Local("unique", None, None, 0)]
  /\ UNCHANGED <<dvars, regVars, ref, home>>

BeginGet(c, k) ==
  /\ pc[c] = "idle" /\ "get" \in Ops
  /\ Jump(c, "fetch")
  /\ loc' = [loc EXCEPT ![c] = Local("get", k, None, 0)]
  /\ UNCHANGED <<dvars, regVars, ref, home>>

-----------------------------------------------------------------------------
\* Registry::claim.  No slot under the key: a new slot, owned by the caller.
Reserve(c, s) ==
  /\ slot[s] = Unused
  /\ slot' = [slot EXCEPT ![s] = [state |-> "Starting", num |-> 1, gen |-> None]]
  /\ entries' = [entries EXCEPT ![loc[c].key] = s]
  /\ Aim(c, s, 1)
  /\ Jump(c, "create")

ClaimVacant(c) ==
  /\ pc[c] = "claim" /\ EntryFree(loc[c].key) /\ entries[loc[c].key] = None
  /\ \/ ~Accepting /\ Return(c) /\ UNCHANGED regVars
     \/ Accepting /\ \E s \in Slots : Reserve(c, s)
  /\ UNCHANGED <<dvars, ref, home>>

\* The slot as the claim finds it under both locks.
Finds(c, state) ==
  LET s == entries[loc[c].key] IN
  /\ pc[c] = "claim" /\ EntryFree(loc[c].key)
  /\ s # None /\ SlotFree(s) /\ slot[s].state = state

Own(c) ==
  LET s == entries[loc[c].key] IN
  /\ slot' = [slot EXCEPT ![s] = [state |-> "Starting", num |-> slot[s].num + 1, gen |-> None]]
  /\ Aim(c, s, slot[s].num + 1)
  /\ Jump(c, "create")
  /\ UNCHANGED entries

\* Mutant of ClaimStarting: the caller starts a construction of its own.
ClaimStartingAgain(c) == Finds(c, "Starting") /\ Own(c) /\ UNCHANGED <<dvars, ref, home>>

\* Somebody constructs: get_or_spawn leaves with a listener made under the
\* locks, the others with Occupied.
ClaimStarting(c) ==
  /\ Finds(c, "Starting")
  /\ \/ /\ loc[c].op = "get_or_spawn"
        /\ Aim(c, entries[loc[c].key], 0)
        /\ Jump(c, "listen")
     \/ /\ loc[c].op # "get_or_spawn"
        /\ Return(c)
  /\ UNCHANGED <<dvars, regVars, ref, home>>

\* The registered generation is upgraded; the locks are kept.
ClaimUpgrade(c) ==
  LET s == entries[loc[c].key] IN
  /\ Finds(c, "Active") /\ Leased(slot[s].gen)
  /\ Take(c, slot[s].gen)
  /\ Aim(c, s, 0)
  /\ Jump(c, "claimed")
  /\ UNCHANGED <<dvars, regVars, home>>

\* It has no lease left: the caller takes the slot over with the next number.
ClaimDead(c) ==
  /\ Finds(c, "Active") /\ ~Leased(slot[entries[loc[c].key]].gen)
  /\ \/ ~Accepting /\ Return(c) /\ UNCHANGED regVars
     \/ Accepting /\ Own(c)
  /\ UNCHANGED <<dvars, ref, home>>

\* try_acquire decides about the upgraded generation; a refused upgrade is
\* dropped before the slot is taken over.
ClaimDecide(c) ==
  /\ pc[c] = "claimed"
  /\ \/ /\ TryAcquire(ref[c])
        /\ IF loc[c].op = "spawn" THEN Jump(c, "occupied") /\ UNCHANGED loc ELSE ReturnLease(c)
        /\ UNCHANGED <<regVars, ref>>
     \/ /\ ~TryAcquire(ref[c])
        /\ Release(c)
        /\ IF Accepting THEN Own(c) ELSE Return(c) /\ UNCHANGED regVars
  /\ UNCHANGED <<dvars, home>>

\* spawn returns Occupied and drops the reference it upgraded to find out.
DropOccupied(c) ==
  /\ pc[c] = "occupied"
  /\ Release(c) /\ Return(c)
  /\ UNCHANGED <<dvars, regVars, home>>

-----------------------------------------------------------------------------
\* An error unwinds through the construction guard of a canonical call.
Fail(c) == IF loc[c].op = "unique" THEN Return(c) ELSE Jump(c, "guard") /\ UNCHANGED loc

\* A future that is dropped at an await: its listener goes, and so does its
\* construction.  A woken listener that was not polled again is at "claim".
Abandon(c) ==
  /\ \/ pc[c] = "listen" /\ Return(c)
     \/ pc[c] = "claim" /\ loc[c].op = "get_or_spawn" /\ Return(c)
     \/ pc[c] = "build" /\ Fail(c)
  /\ UNCHANGED <<dvars, regVars, ref, home>>

\* create(): the accept check in front of the resource's own build().
CreateCheck(c) ==
  /\ pc[c] = "create"
  /\ IF Accepting THEN Jump(c, "build") /\ UNCHANGED loc ELSE Fail(c)
  /\ UNCHANGED <<dvars, regVars, ref, home>>

BuildPanics(c) ==
  /\ pc[c] = "build"
  /\ Fail(c)
  /\ UNCHANGED <<dvars, regVars, ref, home>>

\* build() returns the interface and the task: the generation, its first lease
\* and the cleanup closure of a canonical one.
BuildReturns(c, g) ==
  /\ pc[c] = "build"
  /\ Create(g)
  /\ Take(c, g)
  /\ home' = [home EXCEPT ![g] =
       IF loc[c].op = "unique" THEN None
       ELSE [key |-> loc[c].key, slot |-> loc[c].slot, num |-> loc[c].num]]
  /\ Jump(c, "register")
  /\ UNCHANGED <<regVars, loc>>

RegisterOrRefuse(c) ==
  /\ pc[c] = "register"
  /\ \/ Register(ref[c]) /\ Jump(c, "supervise")
     \/ Refuse(ref[c]) /\ Jump(c, "refused")
  /\ UNCHANGED <<regVars, loc, ref, home>>

\* A refused create() returns: its start sender, its lease and the closure go.
DropRefused(c) ==
  /\ pc[c] = "refused"
  /\ Start(ref[c])
  /\ Release(c)
  /\ home' = [home EXCEPT ![ref[c]] = None]
  /\ Fail(c)
  /\ UNCHANGED regVars

SuperviseNew(c) ==
  /\ pc[c] = "supervise"
  /\ Supervise(ref[c])
  /\ Jump(c, IF loc[c].op = "unique" THEN "start" ELSE "accept")
  /\ UNCHANGED <<regVars, loc, ref, home>>

\* finish_canonical_creation checks the domain once more before it publishes.
AcceptCheck(c) ==
  /\ pc[c] = "accept"
  /\ Jump(c, IF Accepting THEN "publish" ELSE "reject")
  /\ UNCHANGED <<dvars, regVars, loc, ref, home>>

\* Mutants of RejectNew: it does not return, or not through the guard.
RejectAndPublish(c) ==
  /\ pc[c] = "reject"
  /\ Start(ref[c])
  /\ Release(c)
  /\ Jump(c, "publish")
  /\ UNCHANGED <<regVars, loc, home>>

RejectUnguarded(c) ==
  /\ pc[c] = "reject"
  /\ Start(ref[c])
  /\ Release(c)
  /\ Return(c)
  /\ UNCHANGED <<regVars, home>>

\* The domain stops: the task is let go and the only lease is dropped.
RejectNew(c) ==
  /\ pc[c] = "reject"
  /\ Start(ref[c])
  /\ Release(c)
  /\ Jump(c, "guard")
  /\ UNCHANGED <<regVars, loc, home>>

PublishActive(c) ==
  /\ pc[c] = "publish" /\ SlotFree(loc[c].slot)
  /\ slot' = [slot EXCEPT ![loc[c].slot] =
                [state |-> "Active", num |-> loc[c].num, gen |-> ref[c]]]
  /\ Jump(c, "announce")
  /\ UNCHANGED <<dvars, entries, loc, ref, home>>

\* The guard is disarmed and the listeners are notified.
Announce(c) ==
  /\ pc[c] = "announce"
  /\ NotifyListeners(c, "start")
  /\ UNCHANGED <<dvars, regVars, loc, ref, home>>

StartTask(c) ==
  /\ pc[c] = "start"
  /\ Start(ref[c])
  /\ ReturnLease(c)
  /\ UNCHANGED <<regVars, ref, home>>

\* Mutant of GuardRemove: the reservation stays in the map.
GuardLeaves(c) ==
  /\ pc[c] = "guard"
  /\ Jump(c, "guardNotify")
  /\ UNCHANGED <<dvars, regVars, loc, ref, home>>

\* CanonicalConstructionGuard::drop takes the reservation back ...
GuardRemove(c) ==
  /\ pc[c] = "guard" /\ CanRemove(loc[c].key, loc[c].slot)
  /\ RemoveIfSame(loc[c].key, loc[c].slot, loc[c].num)
  /\ Jump(c, "guardNotify")
  /\ UNCHANGED <<dvars, slot, loc, ref, home>>

\* Mutant of GuardNotify: nobody is told.
GuardSilent(c) ==
  /\ pc[c] = "guardNotify"
  /\ Return(c)
  /\ UNCHANGED <<dvars, regVars, ref, home>>

\* ... and wakes the listeners.
GuardNotify(c) ==
  /\ pc[c] = "guardNotify"
  /\ NotifyListeners(c, "idle")
  /\ loc' = [loc EXCEPT ![c] = Idle]
  /\ UNCHANGED <<dvars, regVars, ref, home>>

-----------------------------------------------------------------------------
\* get() and status(): the slot is fetched under the map's lock ...
Fetch(c) ==
  LET s == entries[loc[c].key] IN
  /\ pc[c] = "fetch" /\ EntryFree(loc[c].key)
  /\ IF s = None THEN Return(c)
     ELSE Jump(c, "probe") /\ Aim(c, s, 0)
  /\ UNCHANGED <<dvars, regVars, ref, home>>

\* ... and read later under its own: by then it may be detached, or hold
\* another generation.
Probe(c) ==
  LET st == slot[loc[c].slot] IN
  /\ pc[c] = "probe" /\ SlotFree(loc[c].slot)
  /\ IF st.state = "Active" /\ Leased(st.gen)
     THEN Take(c, st.gen) /\ Jump(c, "probed") /\ UNCHANGED loc
     ELSE Return(c) /\ UNCHANGED ref
  /\ UNCHANGED <<dvars, regVars, home>>

\* all() and WeakResourceRef::upgrade() upgrade without the registry.
UpgradeWeak(c, g) ==
  /\ pc[c] = "idle" /\ "upgrade" \in Ops
  /\ monitor[g] # "none" /\ Leased(g)
  /\ Take(c, g) /\ Jump(c, "weak")
  /\ UNCHANGED <<dvars, regVars, loc, home>>

\* The upgraded generation is handed out if it can be acquired.
Hand(c) ==
  /\ pc[c] \in {"probed", "weak"}
  /\ IF TryAcquire(ref[c]) THEN ReturnLease(c) /\ UNCHANGED ref ELSE Return(c) /\ Release(c)
  /\ UNCHANGED <<dvars, regVars, home>>

\* ResourceRef: clone and drop.
CloneRef(c, d) ==
  /\ pc[c] = "holding" /\ pc[d] = "idle" /\ "clone" \in Ops
  /\ Take(d, ref[c]) /\ Jump(d, "holding")
  /\ UNCHANGED <<dvars, regVars, loc, home>>

DropRef(c) ==
  /\ pc[c] = "holding"
  /\ Release(c) /\ Jump(c, "idle")
  /\ UNCHANGED <<dvars, regVars, loc, home>>

\* Mutant of LastLeaseDropped: any dropped lease cancels.
AnyLeaseDropped(g) == phase[g] \in {"Starting", "Active"} /\ EntryDrop(g) /\ UNCHANGED avars

\* Mutant of LastLeaseDropped: only a generation that has not started is cancelled.
StartingLeaseDropped(g) == ~Leased(g) /\ phase[g] = "Starting" /\ EntryDrop(g) /\ UNCHANGED avars

\* Entry::drop, in the thread whose drop brought the strong count to zero.
\* A cancellation that finds nothing to do is left out.
LastLeaseDropped(g) ==
  /\ ~Leased(g) /\ phase[g] \in {"Starting", "Active"}
  /\ EntryDrop(g)
  /\ UNCHANGED avars

\* Mutant of CleanUp: the closure is not called.
CleanUpNothing(g) == Cleanup(g) /\ UNCHANGED avars

\* Mutant of CleanUp: a slot that still shows Starting is left to its constructor.
CleanUpActive(g) ==
  /\ Cleanup(g)
  /\ IF home[g] = None THEN UNCHANGED <<entries, home>>
     ELSE /\ CanRemove(home[g].key, home[g].slot)
          /\ IF slot[home[g].slot].state = "Starting" THEN UNCHANGED entries
             ELSE RemoveIfSame(home[g].key, home[g].slot, home[g].num)
          /\ home' = [home EXCEPT ![g] = None]
  /\ UNCHANGED <<slot, callVars>>

\* The supervising task runs the cleanup closure; nobody is notified.
CleanUp(g) ==
  /\ Cleanup(g)
  /\ IF home[g] = None THEN UNCHANGED <<entries, home>>
     ELSE /\ CanRemove(home[g].key, home[g].slot)
          /\ RemoveIfSame(home[g].key, home[g].slot, home[g].num)
          /\ home' = [home EXCEPT ![g] = None]
  /\ UNCHANGED <<slot, callVars>>

-----------------------------------------------------------------------------
Request(c) ==
  \/ \E o \in Ops, k \in Keys : Begin(c, o, k)
  \/ BeginUnique(c)
  \/ \E k \in Keys : BeginGet(c, k)
  \/ \E g \in Gens : UpgradeWeak(c, g)
  \/ \E d \in Callers : CloneRef(c, d)
  \/ DropRef(c)

\* What the code does by itself once a call is under way.
Proceed(c) ==
  \/ ClaimVacant(c) \/ ClaimStarting(c) \/ ClaimUpgrade(c) \/ ClaimDead(c)
  \/ ClaimDecide(c) \/ DropOccupied(c)
  \/ CreateCheck(c) \/ RegisterOrRefuse(c) \/ DropRefused(c) \/ SuperviseNew(c)
  \/ AcceptCheck(c) \/ RejectNew(c) \/ PublishActive(c) \/ Announce(c) \/ StartTask(c)
  \/ GuardRemove(c) \/ GuardNotify(c)
  \/ Fetch(c) \/ Probe(c) \/ Hand(c)

Build(c) == BuildPanics(c) \/ \E g \in Gens : BuildReturns(c, g)

\* The supervising task's steps other than the cleanup do not touch the registry.
Settle(g) ==
  \/ CleanUp(g)
  \/ /\ Finish(g) \/ Publish(g) \/ Unlist(g) \/ TaskFinished(g) \/ NotifyQuiescent(g)
     /\ UNCHANGED avars

Next ==
  \/ \E c \in Callers : Request(c) \/ Proceed(c) \/ Build(c) \/ Abandon(c)
  \/ \E g \in Gens : LastLeaseDropped(g) \/ Settle(g) \/ (TaskStep(g) /\ UNCHANGED avars)
  \/ /\ \E s \in Stoppers : StopperStep(s) \/ \E m \in Calls : Call(s, m)
     /\ UNCHANGED avars

Spec == Init /\ [][Next]_vars

\* As in Domain: code between two awaits runs on, ready tasks are polled, the
\* thread that drops the last lease runs Entry::drop, and tasks cooperate.
\* build() returns or panics.  A thread that wants a registry lock gets it in
\* the end if it is free again and again (strong fairness: critical sections
\* are short and parking_lot's locks are eventually fair).  Nobody has to make
\* a request, or to drop a lease it holds.
FairSpec ==
  /\ Spec
  /\ \A c \in Callers : SF_vars(Proceed(c)) /\ WF_vars(Build(c))
  /\ \A g \in Gens :
       /\ WF_vars(LastLeaseDropped(g)) /\ SF_vars(Settle(g))
       /\ WF_vars((BeginPoll(g) \/ EndPoll(g) \/ Kill(g)) /\ UNCHANGED avars)
       /\ WF_vars(Cancelled(g) /\ (\E o \in Results : BodyReturns(g, o)) /\ UNCHANGED avars)
  /\ \A s \in Stoppers : WF_vars(StopperStep(s) /\ UNCHANGED avars)

-----------------------------------------------------------------------------
\* A caller between its claim of a slot and the end of its construction.
Owner(c) ==
  /\ loc[c].op \in Canonical
  /\ pc[c] \in {"create", "build", "register", "refused", "supervise", "accept", "reject",
                "publish", "guard"}

Notifier(c) == loc[c].op \in Canonical /\ (Owner(c) \/ pc[c] \in {"announce", "guardNotify"})

\* A reservation in the map has exactly one constructor, who will publish it or
\* take it back: no abandoned future, panic, refusal or shutdown leaves a key
\* Starting for ever, and no two callers construct it at once.
ReservationHasOneOwner ==
  \A k \in Keys : entries[k] # None /\ slot[entries[k]].state = "Starting" =>
    \E c \in Callers :
      /\ Owner(c) /\ loc[c].slot = entries[k] /\ loc[c].num = slot[entries[k]].num
      /\ \A d \in Callers : Owner(d) /\ loc[d].slot = entries[k] => d = c

\* "Concurrent get_or_spawn calls for one identity converge on a single
\* generation" (README.md:177): while the domain accepts, a canonical generation
\* that is Active and leased is the one its key leads to, so every claim finds
\* it.  The cleanup of an older generation never takes it out of the map.
LeasedIsRegistered ==
  \A g \in Gens :
    Accepting /\ home[g] # None /\ Leased(g) /\ phase[g] = "Active" =>
      /\ entries[home[g].key] = home[g].slot
      /\ slot[home[g].slot].num = home[g].num

\* "Canonical acquisition establishes at most one active generation per
\* identity" (README.md:256), also while the domain stops.
OneActivePerKey ==
  \A g, h \in Gens :
    /\ home[g] # None /\ home[h] # None /\ home[g].key = home[h].key
    /\ Leased(g) /\ Leased(h) /\ phase[g] = "Active" /\ phase[h] = "Active"
    => g = h

\* A waiting get_or_spawn has somebody who will notify its slot.
WaiterHasNotifier ==
  \A c \in Callers : pc[c] = "listen" =>
    \E d \in Callers : Notifier(d) /\ loc[d].slot = loc[c].slot

\* A generation somebody holds a lease on is cancelled only with its domain.
LeaseKeepsAlive ==
  \A g \in Gens : Leased(g) /\ creation[g] = "registered" /\ phase[g] = "Cancelling"
                    => ~Accepting

\* Whoever has seen the outcome of a canonical generation finds its identity
\* free or taken by another: the map no longer leads to it.
OutcomeAfterCleanup ==
  \A g \in Gens, k \in Keys :
    outcome[g] # "none" /\ entries[k] # None =>
      ~(slot[entries[k]].state = "Active" /\ slot[entries[k]].gen = g)

\* After shutdown() or terminate() no key leads to a generation any more, whatever
\* acquisitions were under way: neither one that was published after the domain
\* had stopped (context.rs:291-300) nor one that was cleaned up before it was
\* published (context.rs:382).  What the map still has are reservations, whose
\* constructors have no managed generation and will be refused.
StoppedMapIsReservations ==
  domainPhase = "Terminated" \/ (\E s \in Stoppers : spc[s] = "returned" /\ call[s] # "cancel") =>
    \A k \in Keys : entries[k] # None =>
      /\ slot[entries[k]].state = "Starting"
      /\ \E c \in Callers : /\ Owner(c) /\ loc[c].slot = entries[k]
                           /\ pc[c] \in {"create", "build", "register", "refused", "guard"}

\* A waiting get_or_spawn is woken, whatever becomes of the construction.
WaiterIsWoken == \A c \in Callers : pc[c] = "listen" ~> pc[c] # "listen"

\* A generation without leases is reclaimed: its task ends, it leaves the
\* registry and the supervisor's table.
UnleasedIsReclaimed ==
  \A g \in Gens : monitor[g] # "none" /\ ~Leased(g) ~> monitor[g] = "closed"

-----------------------------------------------------------------------------
\* What the atomic registry sees of the callers and the generations: tickets of
\* those who construct, and of the supervised generations not yet cleaned up.
TicketAt(c) == [key |-> loc[c].key, slot |-> loc[c].slot, num |-> loc[c].num]
Constructors == {TicketAt(c) : c \in {d \in Callers : Owner(d)}}
ToClean == {home[g] : g \in {h \in Gens : home[h] # None /\ creation[h] = "registered"}}
SlotOf(s) == [state |-> slot[s].state, num |-> slot[s].num]
ReplyTo(c, k) == IF Notifier(c) /\ loc[c].key = k THEN "Owner" ELSE "none"

Reg == INSTANCE Registry
         WITH Threads <- Callers, building <- Constructors, closures <- ToClean,
              slot <- [s \in Slots |-> SlotOf(s)],
              reply <- [c \in Callers |-> [k \in Keys |-> ReplyTo(c, k)]]

\* Whatever becomes of calls, builds, tasks and leases, the registry sees one
\* step of its own at a time: reservations, their one publication, and what is
\* given back.  Module RegistryLocks has the locks that make these steps atomic.
KeepsRegistry == Reg!RegistrySpec

-----------------------------------------------------------------------------
\* What the callers see of the generations: one lives from its registration
\* until it is cancelled or finished or has no lease left.
Living(g) == creation[g] = "registered" /\ phase[g] = "Active" /\ Leased(g)
Named(g) == [gen |-> g, key |-> IF home[g] = None THEN None ELSE home[g].key]
Established == {"supervise", "accept", "reject", "publish", "announce", "start"}

Id == INSTANCE Identity
        WITH accepting <- Accepting,
             alive <- {Named(g) : g \in {h \in Gens : Living(h)}},
             spent <- {g \in Gens : creation[g] = "registered"},
             asks <- [c \in Callers |-> loc[c].key],
             made <- [c \in Callers |-> IF pc[c] \in Established THEN ref[c] ELSE None],
             holds <- [c \in Callers |-> IF pc[c] = "holding" THEN ref[c] ELSE None]

\* Whatever is interleaved between the look at the map, the slot and the lease
\* (a slot that was taken over, a generation that died, a domain that stopped):
\* a canonical call returns the one living generation of its own identity, or
\* the one it established, and a generation that ended is never found again
\* (README.md:177; try_acquire, domain.rs:303).
KeepsIdentity == Id!IdSpec

-----------------------------------------------------------------------------
\* The inductive strengthening.
Creating == {"register", "refused", "supervise", "accept", "reject", "publish", "announce",
             "start"}
HasRef == Creating \cup {"claimed", "occupied", "probed", "weak", "holding"}

\* What a caller has at hand at each of its locations.
CallInv ==
  \A c \in Callers :
    /\ ref[c] # None <=> pc[c] \in HasRef
    /\ pc[c] \in {"idle", "weak", "holding"} => loc[c].op = "none"
    /\ pc[c] \in {"fetch", "probe", "probed"} => loc[c].op = "get"
    /\ pc[c] \in {"claim", "claimed", "occupied", "listen", "accept", "reject", "publish",
                  "announce", "guard", "guardNotify"} => loc[c].op \in Canonical
    /\ pc[c] \in {"create", "build", "register", "refused", "supervise", "start"}
         => loc[c].op \in Canonical \cup {"unique"}
    /\ loc[c].op \in Canonical \cup {"get"} => loc[c].key \in Keys
    /\ (loc[c].op \in Canonical /\ pc[c] # "claim") \/ pc[c] \in {"probe", "probed"}
         => loc[c].slot \in Slots

\* What a caller that holds the slot's lock has read there still stands.
LockInv ==
  \A c \in Callers :
    /\ pc[c] \in {"claimed", "probed"}
         => slot[loc[c].slot].state = "Active" /\ slot[loc[c].slot].gen = ref[c]
    /\ pc[c] = "claimed" => entries[loc[c].key] = loc[c].slot

\* The lock of a slot has one holder.
LockExclusive ==
  \A c, d \in Callers :
    pc[c] \in {"claimed", "probed"} /\ pc[d] \in {"claimed", "probed"}
      /\ loc[c].slot = loc[d].slot => c = d

\* A generation under construction belongs to its one creator, and its task is
\* behind the gate; nobody else has a lease on it before it is supervised.
CreatorInv ==
  \A c \in Callers :
    /\ pc[c] = "register" => creation[ref[c]] = "spawned"
    /\ pc[c] = "refused" => creation[ref[c]] = "refused"
    /\ pc[c] = "supervise" => creation[ref[c]] = "registered" /\ monitor[ref[c]] = "none"
    /\ pc[c] \in HasRef \ {"register", "refused", "supervise"} => monitor[ref[c]] # "none"
    /\ pc[c] = "reject" => ~Accepting
    /\ pc[c] \in Creating =>
         /\ ref[c] \notin gate
         /\ loc[c].op = "unique" => home[ref[c]] = None
         /\ \A d \in Callers : pc[d] \in Creating /\ ref[c] = ref[d] => c = d

BirthInv ==
  /\ \A g \in Gens :
       /\ creation[g] = "unborn" => home[g] = None
       /\ creation[g] \in {"unborn", "spawned"}
            => phase[g] = "Starting" /\ g \notin gate \cup aborted
       /\ creation[g] = "refused" => phase[g] # "Active"
       /\ task[g] \in Outcomes \cup {"body"} => g \in gate \cup aborted
       /\ outcome[g] # "none" => monitor[g] \in {"unlist", "final", "notify", "closed"}
  /\ Accepting => aborted = {}

\* A slot belongs to one key, ...
KeyInv ==
  /\ \A k \in Keys : entries[k] # None =>
       /\ slot[entries[k]].state # "unused"
       /\ \A j \in Keys : entries[j] = entries[k] => j = k
  /\ \A c \in Callers : loc[c].slot # None =>
       /\ slot[loc[c].slot].state # "unused"
       /\ \A k \in Keys : entries[k] = loc[c].slot => loc[c].key = k

\* ... a number of a slot to one generation, ...
Cleaned(g) == monitor[g] \notin {"none", "await", "cleanup"}

HomeInv ==
  \A g \in Gens : home[g] # None =>
    /\ slot[home[g].slot].state # "unused"
    /\ home[g].num <= slot[home[g].slot].num
    /\ ~Cleaned(g)
    /\ \A k \in Keys : entries[k] = home[g].slot => home[g].key = k
    /\ \A h \in Gens :
         home[h] # None /\ home[h].slot = home[g].slot /\ home[h].num = home[g].num => h = g

\* ... and an Active slot shows the generation of its number; it is out of the
\* map once that generation has been cleaned up.
ActiveInv ==
  \A s \in Slots :
    /\ slot[s].state = "unused" => slot[s] = Unused
    /\ slot[s].state = "Active" =>
         /\ monitor[slot[s].gen] # "none"
         /\ IF home[slot[s].gen] = None
            THEN Cleaned(slot[s].gen) /\ \A k \in Keys : entries[k] # s
            ELSE home[slot[s].gen].slot = s /\ home[slot[s].gen].num = slot[s].num
         /\ \A g \in Gens : home[g] # None /\ home[g].slot = s /\ home[g].num = slot[s].num
                              => g = slot[s].gen

\* A slot is Starting exactly for the one caller that constructs in it; while
\* the domain accepts the slot stays in the map.
OwnerInv ==
  \A c \in Callers : Owner(c) =>
    /\ slot[loc[c].slot].state = "Starting" /\ slot[loc[c].slot].num = loc[c].num
    /\ Accepting => entries[loc[c].key] = loc[c].slot
    /\ \A d \in Callers : Owner(d) /\ loc[d].slot = loc[c].slot => d = c

StartingInv ==
  \A k \in Keys : entries[k] # None /\ slot[entries[k]].state = "Starting" =>
    \E c \in Callers : Owner(c) /\ loc[c].slot = entries[k]

\* The cleanup closure of a generation under construction is its creator's; no
\* other generation has one for the same number.
TicketOf(c, g) == home[g] # None /\ home[g].slot = loc[c].slot /\ home[g].num = loc[c].num

TicketInv ==
  \A c \in Callers : Owner(c) =>
    /\ \A g \in Gens : TicketOf(c, g) => IF pc[c] = "guard" THEN ~Accepting ELSE ref[c] = g
    /\ pc[c] \in Creating =>
         IF home[ref[c]] = None
         THEN Cleaned(ref[c]) /\ entries[loc[c].key] # loc[c].slot
         ELSE TicketOf(c, ref[c]) /\ home[ref[c]].key = loc[c].key

AcquisitionInv ==
  /\ IInv /\ AcquisitionTypeOK
  /\ CallInv /\ LockInv /\ CreatorInv /\ BirthInv
  /\ KeyInv /\ HomeInv /\ ActiveInv /\ OwnerInv /\ StartingInv /\ TicketInv
  /\ LeasedIsRegistered /\ OneActivePerKey /\ WaiterHasNotifier /\ LeaseKeepsAlive
  /\ OutcomeAfterCleanup

InductiveInv == AcquisitionInv /\ LockExclusive

\* Only a call for an identity has a key at hand.
AskInv == \A c \in Callers : loc[c].op \in {"none", "unique"} => loc[c].key = None
=============================================================================
