# A verification of resourcery in TLA+

`resourcery` is a Rust library that runs *resources*: a typed interface backed by
one managed asynchronous task. A *generation* is one such pair. It lives as long
as somebody holds a strong reference (a *lease*) to it, may be found again under
a key, and is stopped with its *domain*. This directory models the concurrency of
the library: `src/src/lifecycle.rs`, `domain.rs`, `context.rs`, `reference.rs`
and the calls of `runtime.rs` (paths are relative to the directory that holds
`src/` and `tla/`; `src/` is the repository).

## 1. Inventory

| part | state | operations | who else touches it |
|---|---|---|---|
| Control (`lifecycle.rs`) | atomic phase, cancellation token of one generation | `activate`, `finish`, `cancel`, `is_active` | the registering thread, the supervising task, the drop of the last lease, `Domain::cancel` |
| Domain and Supervisor (`domain.rs`) | phase, table of managed tasks, `quiescent` notification, shutdown token | `register`, `task_finished`, `cancel`, `shutdown`, `terminate`, `try_acquire` | every creator, every supervising task, the callers that stop the domain |
| Managed task and supervising task (`context.rs`, `create`) | start gate, abort flag, join handle; watch channel, cleanup closure | poll, return, abort; join, finish, clean up, publish, unlist, finalize | tokio's workers, `terminate` |
| Registry (`domain.rs`, one per resource type) | key -> slot, slot state (`Starting`/`Active` with a number), listeners, live table | `claim`, `remove_if_same`, `slot`, `live_snapshot` | acquiring callers, construction guards, cleanup closures |
| Acquisition (`context.rs`) | locals of each call, the construction guard | `spawn`, `get_or_spawn`, `try_get_or_spawn`, `get`, `status`, `all` | Registry, Domain, Control |
| Leases (`reference.rs`) | strong count of an entry, weak references | clone, drop, `downgrade`, `upgrade`, `Entry::drop` | Control, Domain |
| Completion observers (`reference.rs`) | receiver of the watch channel | `wait` | supervising task |
| Runtime (`runtime.rs`) | the domain | `run`, `cancel`, `shutdown`, `terminate` | Domain |
| Placement, Resource, errors | none | pure key derivation, user code, error values | |

What is hard here:

* four kinds of actors (creators, supervising tasks, dropping threads, stopping
  callers) race on two atomics per generation and domain, with reads that are
  used after the lock or the await that protected them;
* a slot of the registry outlives the generation in it: the cleanup of the old
  generation runs when its successor may already be there;
* futures are dropped at any await, builds panic, the domain stops at any point:
  each path must take the reservation back and wake the waiting callers;
* the last task out, `cancel()` on an idle domain and `shutdown()`'s loop share
  the job of ending a domain and of waking who waits for it;
* aborting a task is asynchronous;
* the registry takes two locks per call, a shard of a concurrent map and a slot,
  and drops leases under them, which may run the `Drop` of an interface;
* tasks and interfaces hold leases on other generations, so the drop of one
  lease may set off a chain of reclamations;
* an async runtime may be lost under the two tasks of a generation: whatever
  nobody's drop does then is never done.

`PROJECT.json` lists every such hazard at its line with the properties that cover
it, or with the reason why none does.

What makes each part correct: a control is cancelled once and never goes back; a
domain ends exactly when its last managed task has been settled, and whoever
waits for that learns it; a reservation has one constructor and always ends; an
identity has at most one active generation, and while the domain accepts it is
the one claims find; the calls of the registry are linearizable and, among
themselves, never wait for each other in a circle; a lease keeps its generation alive, an unleased
generation is reclaimed, and a generation that has ended holds no lease; all
observers of a generation are told the one outcome it had.

## 2. Modules

| module | models | built on |
|---|---|---|
| `Control` | one generation's control word, every atomic access of `activate`, `finish`, `cancel` and `try_acquire` | |
| `Cancellation` | abstract: the control word with calls of one step each | implemented by `Control` |
| `Domain` | domain, supervisor, start gate, managed and supervising tasks, stopping callers | `Control`'s operations as single steps |
| `Lifecycle` | abstract: what a domain promises | implemented by `Domain`, and by `Acquisition` and `Dependencies` on top of it |
| `Registry` | abstract: the registry with calls of one step each | implemented by `RegistryLocks` and by `Acquisition` |
| `RegistryLocks` | the registry's calls under the locks of shards and slots | |
| `Identity` | abstract: which generation an acquisition returns | implemented by `Acquisition` |
| `Acquisition` | registry, canonical and unique acquisition, discovery, leases, cleanup | extends `Domain` and performs its steps |
| `Dependencies` | who holds leases: tasks, interfaces, outside code | extends `Domain` and performs its steps |
| `Completion` | observers of an outcome, `finished()`, `run()`, the loss of an async runtime | extends `Domain`, adds the loss |
| `MCDomain`, `MCAcquisition`, `MCDependencies`, `MCRegistryLocks` | model values and symmetry sets for TLC | |
| `Control_proofs`, `Domain_proofs`, `Completion_proofs`, `Dependencies_proofs`, `RegistryLocks_proofs` | theorems about the module they are named for | TLAPS |
| `Acquisition_invariant`, `Acquisition_proofs`, `Acquisition_refinements` | the inductive invariant of `Acquisition`, action by action; the theorems; the refinements of `Registry` and `Identity` | TLAPS, `Domain_proofs` |

So the composition is a lattice: `Domain` is the core; `Acquisition`,
`Dependencies` and `Completion` each put the part of its environment that they
are about on top of it, and leave the other parts open (any order, any number).
The first two are written with the actions of `Domain`, as the code above the
domain uses its functions, so all that is proved of `Domain` carries over to them,
`Lifecycle` included. `Acquisition` and `RegistryLocks`
meet in `Registry`: what the one relies on the other provides. `Control` and
`Domain` meet in `Cancellation` in the same way.

### Control and Cancellation

`phase` is `Control::phase`, `fires` counts how often `cancel()` cancelled the
token, `pc`/`seen` are the program counter of each thread and the local `current`
of its `cancel()`, `owner` remembers what `activate()` returned, `accepting` is
the phase of the domain as far as `try_acquire()` looks at it. One action per
atomic access: `Activate`, `Finish`, `StopAccepting`; of `cancel()` `Load`,
`GiveUp`, `Exchange`, `Retry` (the exchange fails, perhaps spuriously), `Fire`; of
`try_acquire()` `Ask` and four times `Look`. `Activate` does not ask whether the
domain accepts, although `register` calls it under the supervisor's lock in a
running domain: nothing here depends on it. Memory is sequentially consistent:
the token has its own lock, and only `try_acquire()` relates two atomics
without one.

`Domain` and `Acquisition` use `activate`, `cancel`, `finish` and `try_acquire` as
one step each. `Cancellation` is the control word with such steps, and
`ControlIsAtomic` says that `Control` implements it. `cancel()` takes effect when
its exchange succeeds, or when it observes that there is nothing to take, and
the thread that took the cancellation still owes the token its signal (two steps
there as well; in `Domain` a task sees its cancellation by the phase, which
`CancellationIsSignalled` justifies). For `try_acquire()` the history variable
`been` takes down what one look at both phases would have said at each moment of
the call (`Note`, `Records`). It is in nobody's guard in `Control`, and
`Cancellation` lets a call answer only what is in it.

### Domain

`domainPhase`, `shutdownToken`, `tasks` are the fields of `Domain` and
`Supervisor`; `woken` holds the callers whose `Notified` future was notified. Per
generation: `creation` (how far `create()` is), `phase` (its control), `gate`
(the start sender was used or dropped), `aborted`, `task` (waiting at the gate,
in the middle of a poll at the gate, running the body, or how its join handle
resolved), `monitor` (the supervising task), `outcome` (the watch channel) and
`live` (its entry of the live table). Per stopping caller: `spc`, `call`, `todo`
(its snapshot of controls, then of abort handles).

The supervisor's mutex is held across steps only in `Domain::cancel`, between
`Lock` (the compare-exchange) and `Snapshot` (token, snapshot, end of an idle
domain); everything else that takes it is one step and waits for
`SupervisorFree`. `TaskFinished` releases the lock before `NotifyQuiescent`, as
`task_finished` does. `shutdown()` is `Subscribe` (`notified()`), `Check` (the
phase), `Poll`, `Awake`; tokio's `notify_waiters` reaches the `Notified` futures
that exist, polled or not (`Listening`). The first poll of a managed task is two
steps, `BeginPoll` and `EndPoll`, because an abort in between does not stop it.

Who creates generations and drops leases is left open: `Create`, `Supervise`,
`Start` and `EntryDrop` may happen whenever the domain permits. `Acquisition`
decides when.

### Acquisition

`entries` and `slot` are the registry of one resource type: registries of
different types share nothing but the domain. `pc`, `loc`, `ref` are the call of
each caller: where it is, its operation, key, slot and number, and the strong
reference it holds. `home` is what a generation's cleanup closure captured.

A call runs `Begin` (first accept check), a claim (`ClaimVacant`,
`ClaimStarting`, `ClaimUpgrade` then `ClaimDecide`, `ClaimDead`), and, if it owns
the slot, `CreateCheck`, `BuildReturns`/`BuildPanics`, `RegisterOrRefuse`,
`SuperviseNew`, `AcceptCheck`, `PublishActive`, `Announce`, `StartTask`, or the
error paths through `DropRefused`, `RejectNew` and the construction guard
(`GuardRemove`, `GuardNotify`). `Abandon` drops the future at either of its
awaits. `Fetch`, `Probe`, `Hand` are `get()` and `status()`; `UpgradeWeak`,
`Hand` are `all()` and `WeakResourceRef::upgrade()`.

Two locks are held across steps: a claim that upgraded the registered generation
keeps the map's shard and the slot (`claimed`), a `get()` that did keeps the slot
(`probed`). They matter because the upgraded reference is a lease, and may be the
last one. Every other critical section is one step that waits for the locks it
needs (`EntryFree`, `SlotFree`, `CanRemove`).

`Domain::try_acquire` loads two atomics twice. Here it is one step
(`TryAcquire`), which is what `ControlIsAtomic` permits.

`LastLeaseDropped` is `Entry::drop` in the thread whose drop took the strong
count to zero. It is a step of its own after that drop, so everything may happen
in between; that a second thread upgrades a dead entry is impossible
(`Weak::upgrade`), and the model's `Leased` says so.

`Identity` is what the acquiring callers are promised. `alive` are the generations
that are registered, active and leased, each with its key; `asks`, `made` and
`holds` are what a caller asks for, has established and got. A call for a key
obtains the living generation of that key or establishes one when none lives; a
call that established a generation delivers that one, also if it has died
meanwhile; a generation that is gone is established and obtained by nobody. The
mapping (`Living`, `Named`, `Established`) hides the map, the slots, the numbers
and every intermediate location of a call.

### Lifecycle

The promise of `Domain` to those outside it: a generation is `unborn`, `active`,
`ending` and `settled` with an outcome that never changes; it is established only
while the domain runs; the domain stops once and is `Terminated` only when every
generation ever established has settled. `Progress` adds that a domain which was
told to stop settles everything and then itself. `Domain` implements it under the
mapping `Life`: a generation is established with its registration, ends when its
control is past `Active`, and has settled when its outcome is published.
`Completion` with losses does not implement it: a generation whose async runtime
was lost never ends in this sense, since nobody finishes its control (see the
finding `completion_lost`).

### Registry and RegistryLocks

`Registry` is the registry as the code above it may think of it: a reservation, a
takeover, a publication, the giving back of a ticket and every answer is one
step. A *ticket* is the key, slot and number that a construction guard or a
cleanup closure captured.

`RegistryLocks` has the locks. A call about a key is a frame with a program
counter: `entry` waits for the shard, `entered` holds it, `slot` waits for the
slot, `locked` holds it too, `drop` runs the `Drop` of an interface with these
locks held, `erase` takes the entry out. Claims and removals hold the shard
throughout (dashmap's `entry()` and `remove_if`), `get()` only while it copies
the slot's `Arc`, a publication takes the slot alone. `LookUp` is a `get()` that a
`Drop` makes: a call of its own, by one of the callers in `Nested`, with `of` the
caller whose call it stands in the way of. `Lookups` says which keys the interface
of a key looks up, with no restriction, its own key included. Slots are memory that is used again when nobody
refers to it (`Unreferenced`). Whether a generation can be upgraded or acquired
is left open here; `Acquisition` says when.

`Acquisition` implements the same `Registry` (`KeepsRegistry`): its constructors'
`loc` are the tickets of the reservations, `home` those of the closures of
supervised generations. There one caller, key or slot step is one step of
`Registry` or none.

### Dependencies

`held` are the leases of each task and of the code outside, `kept` those inside
interfaces, `maker` who is inside `create()`, `dropped` the entries whose last
lease has gone. Running code creates generations with some of its leases inside
(`Make`), acquires, clones, stores (`Keep`), sends, takes out (`Discard`) and
drops leases, and reaches only the interfaces it has a lease on, or its own. The
future of a task is dropped before its join handle resolves (`Unhold`), and
`EntryGone` is the cascade: the drop of an entry cancels the control and drops
the interface with the leases in it, which may be the last ones on others.
`Edges` bounds who may store leases on whom.

### Completion

`opc`, `how`, `of`, `got` are the observers: futures of
`ResourceCompletion::wait`, alone, inside `finished()` or inside `run()`. One
round of the loop is `Borrow` (is there a value?) and `Changed` (a value since
the receiver was made, or else the sender is gone). `closed` is the drop of the
sender, at the end of the supervising task or with it.

`Lose` shuts down the async runtime that both tasks of a generation run on, at
any point where the supervising task can be dropped, which is its one await:
`KillLost` drops the managed task, `DropSupervisor` the supervising one with its
`TaskFinalizer`, `DropUnpolled` the supervising one that was never polled and has
none. What would come after the await (finish, cleanup, publication, unlisting)
is then not done. `Faults` says which of the losses an instance has.

## 3. Runs

| run | instance | shows | states |
|---|---|---|---|
| `control` | 3 threads calling `cancel()` and `try_acquire()` | exactly-once cancellation, every call returns; refinement of `Cancellation` | 62 000 |
| `domain_safety` | 2 generations, 2 callers, all three calls, all outcomes | quiescence at termination, no lost wakeup, every task signalled; refinement of `Lifecycle` | 579 000 |
| `domain_stop` | 2 generations, 1 caller of `shutdown()` or `terminate()` | `shutdown()` returns with cooperative tasks, `terminate()` with stubborn ones; the progress of `Lifecycle` | 26 000 |
| `domain_start` | 1 generation, 1 caller | **violated**: a refused task may start | |
| `acquisition_calls` | 2 callers, 2 generations, 2 slots, all seven operations, nobody stops the domain | one constructor per reservation, no orphaned successor, no forgotten waiter under every mixture of calls; refinements of `Registry` and `Identity` | 520 000 |
| `acquisition_stop` | 2 callers of `get_or_spawn`, `get` and `clone`, 2 generations, 2 slots, `terminate()` | stopping in the middle of acquisitions: who is active, what a lease is worth, what is cleaned up before an outcome, what a stopped domain's map holds | 2 204 000 |
| `acquisition_progress` | 2 callers, 1 generation, 2 slots, `shutdown()` or not | a waiting caller is woken, an unleased generation is reclaimed | 61 000 |
| `completion` | 1 generation, 2 observers, `shutdown()`, losses of both kinds | observers agree with the outcome and return, a verdict is final, the shutdown survives a loss and leaves no generation undecided | 195 000 |
| `completion_unpolled` | 1 generation, 1 observer, `terminate()`, losses before the first poll | **violated**: `terminate()` returns | |
| `completion_lost` | 1 generation, 1 observer, `shutdown()`, losses after the first poll | **violated**: a finished generation is not handed out | |
| `dependencies` | 2 generations that may lease each other, `terminate()` or not | leases and lives agree, what no path of leases reaches is reclaimed | 265 000 |
| `registry_locks` | 2 threads, 2 lookups of any keys in `Drop`s, 2 keys in 2 shards, 2 slots, numbers to 2 | calls wait for each other for ever only with a backward lookup under way; refinement of `Registry` | 355 000 |

Bounds. Generations and the slots of `Acquisition` are never reused, so their
number bounds how many constructions (and fresh reservations) a behaviour has;
when they run out the system stops, which is why `CHECK_DEADLOCK` is `FALSE`. In
`registry_locks`, whose slots are reused, it is `FALSE` because the code really
deadlocks there (below). Three threads give
`cancel()` a winner, a loser and a latecomer, and a `try_acquire()` two threads to
interfere with it. Two generations of one key give a
predecessor and a successor; two slots let a key be reserved afresh while the old
slot is still referenced. In `Acquisition` keys interact through nothing but the
domain, so one key is enough; in `RegistryLocks` two keys share threads and the
lookups of `Drop`s, two of which may be under way, so that each of two interfaces
can look the other one, or itself, up; `MaxNum` 2 lets a slot be taken over once.
Two stopping callers cover `cancel()` against `terminate()`. Two generations that
may lease each other make the chains both ways and the cycle of two; leases of a
generation on itself are left to the theorems, which hold for any `Edges`. What
`acquisition_calls` shows of the calls is proved with a domain that stops as well
(`AcquisitionKeepsIdentity`, `ReservationOwned`, `WaitersNotified`). Two
observers of one generation are two clones anywhere in their loops. Larger
instances (a third caller, a third generation) show nothing new in the safety
runs: the theorems of section 4 say it for every size. Symmetry is used in
safety runs only.

### Findings

`domain_start` checks what `resource.rs:35` and `README.md:107` say: a task
starts after its generation was registered. `create()` spawns the gated task
first. When `register` refuses because the domain began to stop, the abort takes
effect only when the current poll ends, and the dropped start sender opens the
gate for that very poll: the task's code runs although the domain never managed
it, and no `shutdown()` waits for it. TLC shows the six steps. The theorems
`EarlyStartIsRefused` and `EarlyStartIsOnePoll` say that this is all there is to
it, for any number of generations and callers: such a task was refused by a
domain that stops, has been aborted, and was inside its poll when that happened;
one that was between two polls never passes the gate.

`completion_unpolled` checks what `runtime.rs:62` says: `terminate()` waits for
quiescence, and returns. The `TaskFinalizer` that reports the end of a task is
built inside the supervising task (`context.rs:366`), at its first poll. A
supervising task that is dropped with its async runtime before that poll reports
nothing: the generation stays in the supervisor's table, and every later
`shutdown()` or `terminate()` waits for ever. A task that was polled once is
reported, which `completion` shows (`StopSurvivesLoss`). `OnlyUnpolledStay` proves
the rest: no other entry of the table is ever without a task or a drop guard that
takes it out.

`completion_lost` checks what `context.rs:96` and guarantee 5 (`README.md:254`) say:
weak discovery does not return a finished generation. A supervising task that is
dropped at its await, with its async runtime, leaves the job to the `TaskFinalizer`,
whose drop (`domain.rs:240`) tells the domain and nothing else: `control.finish()`
(`context.rs:381`), the cleanup and the unlisting are never run. The sender goes
with the task, so every observer is told `Aborted`; but the control stays `Active`,
and whoever has a lease left keeps the generation upgradable. In the trace an
observer has reported the end while `get()` or an upgrade would still return the
generation (`Grantable`), although its task is gone. So a loss breaks the promise
of `Lifecycle` that what ended cannot be acquired, and `Completion` has its own
properties of what survives it: `VerdictIsFinal`, `TerminatedIsSettled`,
`StopSurvivesLoss`, `ObserverReturns`.

The deadlock of the registry. `domain.rs:40` says that the lock order is always
shard, then slot. A claim or a `get()` drops a generation it may not hand out with
the slot locked; if that is the last lease, the `Drop` of the interface runs there,
and it is user code. If it looks up a key whose shard is not a later one, such as
its own, the shard comes after the slot, and the call may wait for itself, or for
another call that waits for it, for ever; nothing in the code rules this out, and
where the map puts a key is not under the user's control. TLC finds such a state
when it checks `registry_locks` for deadlock. The property of the run,
`OnlyBackwardLookUpsBlock`, says that this is the only way: as long as no such
lookup is under way, some call can go on. It is not listed as a finding: the
comment is about the registry's own code, and no text of the repository says what
the `Drop` of an interface may do. The advice to a user is to look nothing up in
one.

### Fairness

`Scheduling` in `Domain`, and the fair specifications of the modules on top,
assume that code between two awaits runs on, that a ready task is polled, that an
aborted task dies at its next yield, and that the thread that dropped the last
lease runs `Entry::drop`: weak fairness, which is what a tokio runtime with
running workers gives. Nobody has to create, to drop a lease or to stop the
domain. A lost async runtime drops its tasks; nothing else runs on it.

That a task which sees its cancellation returns is the contract of
`README.md:217`. In `Domain` it is `Cooperation`, a premise inside the properties
that need it (`CooperativeStopReturns`, `KeepsLifecycleLive`), so the same run
checks `TerminateReturns` without it. `Acquisition`, `Completion` and
`Dependencies` have it in their fairness, and that `build()` returns or panics.
A step of `Acquisition` that needs a registry lock gets strong fairness: the
locks are `parking_lot`'s, released after a few instructions and eventually fair,
but they are taken again and again by others.

## 4. Proofs

`Control_proofs` and `Domain_proofs` prove, for any sets of threads, generations
and callers, the type invariant, every safety invariant and the action property
of the corresponding runs. Each rests on an inductive invariant `IInv` that TLC
checked first. In `Control` the strengthening is that a thread which saw a phase
past cancellation saw the truth for good (`SeenInv`), and what a thread inside
`try_acquire()` has found out so far (`AskInv`: once it has seen the control
active, the generation could be acquired at that moment if the domain still
accepts; a domain that stopped does not accept again, and a control that left
`Active` does not come back). `AtomicControl` is the refinement of `Cancellation`:
the exchange or the give-up of a `cancel()` is its one step, the load that decides
a `try_acquire()` is its answer, and every other access is a stutter up to the
history. `ReturnMeansNotAcquirable` and `PhaseForward` are proved and not
run on their own: `Cancellation` contains them. In `Domain` it says (`GenInv`) that a
generation is in the table exactly from its registration until its supervising
task takes it out, with everything before that settled, and (`StopInv`) that
nobody is inside `cancel()` in a running domain, so the table only shrinks under
a snapshot and what is no longer to be signalled has been signalled. Two facts
are proved and not run on their own, because the runs' properties contain them:
`shutdown()` returns only into a `Terminated` domain, and no generation joins the
table once a shutdown began. `DomainKeepsLifecycle` is the refinement: each
action of `Domain` is one of `Lifecycle`, or a stutter, under `Life`. `GateInv`
(whose gate may be open, whose task may be past it) bounds the finding of
`domain_start`.

`Acquisition_proofs` proves, for any sets of callers, keys, slots and
generations, the type invariant and all safety invariants of the `acquisition`
runs. The module is written with `Domain`'s actions, so its steps are `Domain`'s or
leave the domain alone: the lemma `AcquisitionImplementsDomain` says so, which
carries `Domain_proofs` over (`AcquisitionKeepsLifecycle`) and is no result about
the code in itself. `StoppedMap` puts the two layers
together: when `shutdown()` or `terminate()` has returned, every managed
generation has been cleaned up (`TerminatedQuiescent`), so what the map still has
are reservations (`ActiveInv`, `HomeInv`) whose constructors have no managed
generation (`CreatorInv`, `TicketInv`).

None of these invariants is inductive. `InductiveInv` adds, in named parts:
what a caller has at hand at each location (`CallInv`); that the slot's lock
protects what its holder has read (`LockInv`) and has one holder
(`LockExclusive`); that a generation under construction has one creator and
stays behind its gate (`CreatorInv`, `BirthInv`); and the identity of slots. A
slot belongs to one key (`KeyInv`), a number of a slot to one generation
(`HomeInv`), an `Active` slot shows the generation of its number and is out of
the map once that generation was cleaned up (`ActiveInv`), a `Starting` slot
belongs to one constructor (`OwnerInv`, `StartingInv`), and a cleanup closure
with the constructor's number can only be its own generation's (`TicketInv`).
The last three are why `remove_if_same` may compare the slot and the number
only. TLC checked `InductiveInv` on the instances of the safety runs before
it was proved.

`Acquisition_invariant` has one lemma per action. The steps of a call that
change no slot, lease or ownership are `Quiet`: `QuietInv` shows once that such
a step keeps every part that relates slots, generations and constructors, which
leaves the program counter's parts to each action. The steps that reserve, take
over, publish or free a slot, and those of the domain, are done part by part.

`Acquisition_refinements` proves `Spec => KeepsRegistry` from that invariant. Most
steps are hidden: nobody gets, uses or gives back a reservation or a closure
(`HiddenStep`). What is left is one lemma per visible step: a claim that owns
(the slot is new, so no ticket names it, by `KeyInv`, `OwnerInv`, `HomeInv`), a
registration (its closure's ticket is the constructor's, by `TicketInv`), a
publication, the guard's and the closure's removal (no two constructors and no
two closures have one ticket, by `OwnerInv` and `HomeInv`) and the end of a
constructor's call.

Its second part proves `Spec => KeepsIdentity`. The one addition to the invariant
is `AskInv`: a call without an identity has no key at hand. Four kinds of steps
are visible. A claim, or a `get()`, that acquires what it upgraded obtains the
living generation of its key (`FoundIsAsked`): under the slot's lock the slot
still shows that generation (`LockInv`), the slot is that of its home
(`ActiveInv`), and a slot belongs to one key (`KeyInv`). A registration
establishes a generation, and no other of the key lives then, because after the
step that would be two active ones (`OneActivePerKey` in the next state). The end
of a construction delivers its own generation. What remains ends, drops or shares
a lease, and a lease that is dropped takes nothing away that anybody holds.

`Completion_proofs` proves the types, `ObserversTellTheOutcome`, `VerdictIsFinal`,
`TerminatedIsSettled`, and that any two observers of a generation agree, for any
generations, observers and faults. `CompletionInv` adds what the supervising task
has behind it (`PublicationInv`: an outcome is what the task ended with, a sender
is gone only when nothing will be published) and where handles come from
(`HandleInv`). `ToldTheVerdict` says that what an observer returned is the
generation's verdict, `OneStableOutcome` that a verdict does not change: nothing
is published by a supervising task that is gone.

With losses a step need not be one of `Domain`, so `Domain`'s theorems do not carry
over: a dropped supervising task has settled nothing, and `Domain`'s `GenInv` fails.
`SupervisionInv` is the part of it that survives: the table holds what is
registered and not yet taken out, and the callers' part is untouched, since they
look at the table, the phase and the token only. From it `StopsDespiteLoss` proves
that whatever is lost, no wakeup is missed, a stopping domain has an ender or an
entry left, a returned `cancel()` has signalled every task, and `shutdown()` returns
only into a `Terminated` domain. `TerminatedSettlesAll` adds that such a domain has
a verdict on every generation it ever had: the table is empty, and who left it has
published, or has lost the supervising task with its sender.

`Dependencies_proofs` proves the types, `DependencyAlive`,
`OutcomeReleasesDependencies`, `NoResurrection` and `DependenciesKeepLifecycle`
(through the lemma `DependenciesAreADomain`, as above), for any generations and
edges. `LeaseInv` says where leases can be before an entry is handed
out and after a task has ended.

`RegistryLocks_proofs` proves the types, `OnlyBackwardLookUpsBlock` and the
refinement `LocksSpec => CallsAreAtomic`, for any threads, keys, slots, shards and
lookups. `LocksInv` has the locks (`LockInv`: one holder each), what has been read
under them (`CallInv`), that a slot is referred to for one key only (`KeyInv`), and
the tickets (`BuildInv`, `CleanInv`); `NestInv` says that a lookup belongs to a
`Drop` that stands and that a caller is in one call. The argument for
`OnlyBackwardLookUpsBlock` (`BlocksOnlyBackward`): among the shards of the calls
under way there is a last one. A call in it that waits for the shard waits for a
call in the same shard that is past that point; a call past that point needs at
most its slot; and the holder of that slot, being a call about the same key
(`KeyInv`), is in the last shard too and needs nothing. If no lookup goes
backwards, none of these calls stands because of a lookup, which would be in a
still later shard (`LastStands`).

The theorems assume the named assumptions on the constants and nothing else; no
bound on the number of generations, slots or threads is among them. They say only
that the values are told apart, that the operations are among those modelled, and
(`ShardAssumption`) that there are finitely many shards.

Only model-checked: all liveness (`CancellationIsSignalled`, `CancelReturns`,
`CooperativeStopReturns`, `TerminateReturns`, `KeepsLifecycleLive`,
`WaiterIsWoken`, `UnleasedIsReclaimed`, `ObserverReturns`, `StopSurvivesLoss`,
`UnreachableIsReclaimed`), which is out of the prover's reach. `StopReturns`,
`TaskStartsAfterRegistration` and `FinishedIsNotGranted` are the three claims that
do not hold.

## 5. Not modelled

* `placement.rs`: policies at the level of types and a user's key function. A
  canonical resource has a key (`Singleton`'s is the only one), `Unique` is the
  operation `unique`; that is all of it that has an effect at run time.
* `resource.rs`: the traits of user code. `build()` returns or panics at any
  time, a task does what it wants with its leases.
* `error.rs`, `lib.rs`: values, formatting, re-exports. Which path a call takes
  is kept, the value it reports is not, except outcomes and `RunError::Acquire`.
* Panics inside the `Drop` of an interface and of the cleanup (`catch_unwind` in
  `create`).
* The live table as a data structure: it is locked by itself for one access at a
  time. `Domain`'s `live` is what it contains.
* `Weak<Domain>` failing to upgrade: the `ResourceRuntime` outlives the calls.
* A `build()` that never returns (`context.rs:226`) and a `shutdown()` awaited by
  a managed task of the same domain (`domain.rs:367`): both wait for ever by
  construction, nothing in the documentation promises otherwise, so no property
  speaks about them; `PROJECT.json` lists them as hazards.
* Weak memory: accesses are sequentially consistent. Spurious wakeups of
  listeners: `event_listener` has none.

## 6. What could come next

1. `Dependencies` with losses of async runtimes: leases of a lost generation, and
   who can still reach it (`completion_lost`).
2. Registries of several types in one `Acquisition` instance, to check (rather
   than argue) that they share only the domain.
