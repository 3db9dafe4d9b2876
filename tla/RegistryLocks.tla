---------------------------- MODULE RegistryLocks ----------------------------
(***************************************************************************)
(* The locks of the registry (src/src/domain.rs): the shards of the map of *)
(* entries and the mutex of each slot, taken one after the other by the    *)
(* threads that claim, publish, look up and give back.  A claim or a get() *)
(* that upgraded a generation it may not hand out drops it with its locks  *)
(* held; if that was the last lease, the interface's own Drop runs there,  *)
(* and may look up any key, its own included.  What the domain and the     *)
(* leases answer (is_accepting, upgrade, try_acquire) is left open.        *)
(***************************************************************************)
EXTENDS Integers, FiniteSets

CONSTANTS
  Threads,
  Nested,        \* calls inside calls: bound of the lookups that Drops have under way
  Keys,          \* keys of all resource types
  Slots,
  Shard,         \* key -> number of the shard its entry is in
  Lookups,       \* <<k, l>>: the interface of a generation of k looks l up in its Drop
  MaxNum,        \* bound of the generation numbers of a slot
  None

Callers == Threads \cup Nested

\* There is a last shard.
ASSUME ShardAssumption ==
  /\ Shard \in [Keys -> Int]
  /\ \A K \in SUBSET Keys : K # {} => \E k \in K : \A j \in K : Shard[j] <= Shard[k]
ASSUME LookupsAssumption == Lookups \subseteq Keys \X Keys
ASSUME NoneAssumption == None \notin Slots \cup Callers

VARIABLES
  entries,       \* Registry::entries
  slot,          \* the state and number of each slot
  building,      \* what constructors have reserved: key, slot and number
  built,         \* the same, with the generation at hand
  closures,      \* cleanup closures that were not called yet
  at             \* where each caller is in a call about each key

lvars == <<entries, slot, building, built, closures, at>>

Ticket(k, s, n) == [key |-> k, slot |-> s, num |-> n]

\* A call, and the caller in whose call an interface's Drop makes it, if any.
Frame(o, l, s, n) == [op |-> o, pc |-> l, slot |-> s, num |-> n, of |-> None]
Out == Frame("none", "out", None, 0)

Replies == {"Wait", "Active", "Owner", "ShuttingDown"}
Removing == {"guard", "cleanup"}
Locations == {"out", "entry", "entered", "slot", "locked", "drop", "refused", "erase"} \cup Replies

Tickets == [key : Keys, slot : Slots, num : Nat]
Calls == [op : {"none", "claim", "get", "publish"} \cup Removing, pc : Locations,
          slot : Slots \cup {None}, num : Nat, of : Callers \cup {None}]

LocksTypeOK ==
  /\ entries \in [Keys -> Slots \cup {None}]
  /\ slot \in [Slots -> [state : {"unused", "Starting", "Active"}, num : Nat]]
  /\ building \subseteq Tickets /\ built \subseteq Tickets /\ closures \subseteq Tickets
  /\ at \in [Callers -> [Keys -> Calls]]
  /\ \A t \in Callers, k \in Keys :
       at[t][k].pc \in {"slot", "locked", "drop", "refused", "erase"} => at[t][k].slot \in Slots

LocksInit ==
  /\ entries = [k \in Keys |-> None]
  /\ slot = [s \in Slots |-> [state |-> "unused", num |-> 0]]
  /\ building = {} /\ built = {} /\ closures = {}
  /\ at = [t \in Callers |-> [k \in Keys |-> Out]]

-----------------------------------------------------------------------------
Busy(t, k) == at[t][k].pc \notin {"out"} \cup Replies
Idle(t) == \A k \in Keys : at[t][k] = Out

\* A call stands while an interface's Drop in it is in a call of its own.
InLookUp(t) == \E u \in Callers, l \in Keys : at[u][l].of = t
At(t, k, l) == at[t][k].pc = l /\ ~InLookUp(t)
Is(t, k, o) == at[t][k].op = o
Removes(t, k) == at[t][k].op \in Removing

\* Mutant of HoldsShard: the shard is unlocked before the slot is locked.
HoldsShardAlone(t, k) ==
  at[t][k].op \in {"claim"} \cup Removing /\ at[t][k].pc \in {"entered", "erase"}

\* entry() and remove_if() hold the shard until the call ends; a slot is locked
\* while it is looked at and while a generation found in it is dropped.
HoldsShard(t, k) ==
  /\ at[t][k].op \in {"claim"} \cup Removing
  /\ at[t][k].pc \in {"entered", "slot", "locked", "drop", "refused", "erase"}

\* Mutant of HoldsSlot: remove_if_same() is called with the slot's guard held.
HoldsSlotToRemove(t, k) ==
  \/ at[t][k].pc \in {"locked", "drop", "refused"}
  \/ at[t][k].op \in Removing /\ at[t][k].pc \in {"entry", "entered"}
HoldsSlot(t, k) == at[t][k].pc \in {"locked", "drop", "refused"}

ShardFree(k) == \A t \in Callers, j \in Keys : HoldsShard(t, j) => Shard[j] # Shard[k]
SlotFree(s) == \A t \in Callers, j \in Keys : HoldsSlot(t, j) => at[t][j].slot # s

\* A slot that nobody has a reference to; its memory may be used again.
Unreferenced(s) ==
  /\ \A k \in Keys : entries[k] # s
  /\ \A b \in building \cup built \cup closures : b.slot # s
  /\ \A t \in Callers, k \in Keys : at[t][k].slot # s

Becomes(t, k, f) == at' = [at EXCEPT ![t][k] = f]
Jump(t, k, l) == Becomes(t, k, [at[t][k] EXCEPT !.pc = l])
Leave(t, k) == Becomes(t, k, Out)
Reply(t, k, r) == Becomes(t, k, Frame("claim", r, None, 0))

ticketVars == <<building, built, closures>>
mapVars == <<entries, slot, ticketVars>>

-----------------------------------------------------------------------------
\* A thread calls claim() or get(), ...
Begin(t, k, o) ==
  /\ Idle(t) /\ Becomes(t, k, Frame(o, "entry", None, 0))
  /\ UNCHANGED mapVars

\* ... publishes what it built, ...
BeginPublish(t, b) ==
  /\ Idle(t) /\ b \in built
  /\ built' = built \ {b}
  /\ Becomes(t, b.key, Frame("publish", "slot", b.slot, b.num))
  /\ UNCHANGED <<entries, slot, building, closures>>

\* ... or gives a reservation back: the construction guard, or a cleanup closure.
BeginGuard(t, b) ==
  /\ Idle(t) /\ b \in building \cup built
  /\ building' = building \ {b} /\ built' = built \ {b}
  /\ Becomes(t, b.key, Frame("guard", "entry", b.slot, b.num))
  /\ UNCHANGED <<entries, slot, closures>>

BeginCleanup(t, b) ==
  /\ Idle(t) /\ b \in closures
  /\ closures' = closures \ {b}
  /\ Becomes(t, b.key, Frame("cleanup", "entry", b.slot, b.num))
  /\ UNCHANGED <<entries, slot, building, built>>

\* build() and create(), which take no lock of the registry.
Construct(b) ==
  /\ b \in building
  /\ building' = building \ {b} /\ built' = built \cup {b} /\ closures' = closures \cup {b}
  /\ UNCHANGED <<entries, slot, at>>

\* The caller of a claim goes on with its reply.
Return(t, k) ==
  /\ at[t][k].pc \in Replies /\ Leave(t, k)
  /\ UNCHANGED mapVars

-----------------------------------------------------------------------------
\* Mutant of Fetch: the key is taken for granted.
FetchUnchecked(t, k) ==
  /\ At(t, k, "entry") /\ Is(t, k, "get") /\ ShardFree(k)
  /\ Becomes(t, k, [at[t][k] EXCEPT !.pc = "slot", !.slot = entries[k]])
  /\ UNCHANGED mapVars

\* get() has the shard for the time it takes to copy the slot's Arc.
Fetch(t, k) ==
  /\ At(t, k, "entry") /\ Is(t, k, "get") /\ ShardFree(k)
  /\ IF entries[k] = None THEN Leave(t, k)
     ELSE Becomes(t, k, [at[t][k] EXCEPT !.pc = "slot", !.slot = entries[k]])
  /\ UNCHANGED mapVars

Enter(t, k) ==
  /\ At(t, k, "entry") /\ ~Is(t, k, "get") /\ ShardFree(k)
  /\ Jump(t, k, "entered")
  /\ UNCHANGED mapVars

Owns(t, k, s, n) ==
  /\ slot' = [slot EXCEPT ![s] = [state |-> "Starting", num |-> n]]
  /\ building' = building \cup {Ticket(k, s, n)}
  /\ Reply(t, k, "Owner")
  /\ UNCHANGED <<built, closures>>

ClaimVacant(t, k) ==
  /\ At(t, k, "entered") /\ Is(t, k, "claim") /\ entries[k] = None
  /\ \/ Reply(t, k, "ShuttingDown") /\ UNCHANGED mapVars
     \/ \E s \in Slots :
          /\ Unreferenced(s)
          /\ entries' = [entries EXCEPT ![k] = s]
          /\ Owns(t, k, s, 1)

ClaimOccupied(t, k) ==
  /\ At(t, k, "entered") /\ Is(t, k, "claim") /\ entries[k] # None
  /\ Becomes(t, k, Frame("claim", "slot", entries[k], 0))
  /\ UNCHANGED mapVars

\* remove_if_same() looks at the slot's number only if the key still leads there.
RemoveSame(t, k) ==
  /\ At(t, k, "entered") /\ Removes(t, k)
  /\ IF entries[k] = at[t][k].slot THEN Jump(t, k, "slot") ELSE Leave(t, k)
  /\ UNCHANGED mapVars

LockSlot(t, k) ==
  /\ At(t, k, "slot") /\ SlotFree(at[t][k].slot)
  /\ Jump(t, k, "locked")
  /\ UNCHANGED mapVars

Looks(t, k, o, st) == At(t, k, "locked") /\ Is(t, k, o) /\ slot[at[t][k].slot].state = st

ClaimStarting(t, k) ==
  /\ Looks(t, k, "claim", "Starting") /\ Reply(t, k, "Wait")
  /\ UNCHANGED mapVars

\* The generation is acquired, is upgraded but refused, or has no lease left.
ClaimActive(t, k) ==
  /\ Looks(t, k, "claim", "Active")
  /\ Reply(t, k, "Active") \/ Jump(t, k, "drop") \/ Jump(t, k, "refused")
  /\ UNCHANGED mapVars

ClaimRefused(t, k) ==
  /\ At(t, k, "refused")
  /\ \/ Reply(t, k, "ShuttingDown") /\ UNCHANGED mapVars
     \/ LET s == at[t][k].slot IN
        /\ slot[s].num < MaxNum /\ Owns(t, k, s, slot[s].num + 1)
        /\ UNCHANGED entries

GetStarting(t, k) ==
  /\ Looks(t, k, "get", "Starting") /\ Leave(t, k)
  /\ UNCHANGED mapVars

GetActive(t, k) ==
  /\ Looks(t, k, "get", "Active")
  /\ Leave(t, k) \/ Jump(t, k, "drop")
  /\ UNCHANGED mapVars

\* The Drop of an interface calls get(), any number of times, and ends.
LookUp(t, k, u, l) ==
  /\ At(t, k, "drop") /\ <<k, l>> \in Lookups /\ Idle(u)
  /\ Becomes(u, l, [Frame("get", "entry", None, 0) EXCEPT !.of = t])
  /\ UNCHANGED mapVars

DropDone(t, k) ==
  /\ At(t, k, "drop")
  /\ IF Is(t, k, "get") THEN Leave(t, k) ELSE Jump(t, k, "refused")
  /\ UNCHANGED mapVars

PublishSlot(t, k) ==
  /\ At(t, k, "locked") /\ Is(t, k, "publish")
  /\ slot' = [slot EXCEPT ![at[t][k].slot] = [state |-> "Active", num |-> at[t][k].num]]
  /\ Leave(t, k)
  /\ UNCHANGED <<entries, ticketVars>>

\* has_generation() unlocks the slot again, then remove_if() takes the entry out.
Compare(t, k) ==
  /\ At(t, k, "locked") /\ Removes(t, k)
  /\ IF slot[at[t][k].slot].num = at[t][k].num THEN Jump(t, k, "erase") ELSE Leave(t, k)
  /\ UNCHANGED mapVars

Erase(t, k) ==
  /\ At(t, k, "erase")
  /\ entries' = [entries EXCEPT ![k] = None]
  /\ Leave(t, k)
  /\ UNCHANGED <<slot, ticketVars>>

-----------------------------------------------------------------------------
CallStep(t, k) ==
  \/ Fetch(t, k) \/ Enter(t, k) \/ LockSlot(t, k)
  \/ ClaimVacant(t, k) \/ ClaimOccupied(t, k) \/ ClaimStarting(t, k) \/ ClaimActive(t, k)
  \/ ClaimRefused(t, k) \/ GetStarting(t, k) \/ GetActive(t, k)
  \/ PublishSlot(t, k) \/ RemoveSame(t, k) \/ Compare(t, k) \/ Erase(t, k)

LocksNext ==
  \/ \E t \in Callers, k \in Keys :
       \/ CallStep(t, k) \/ DropDone(t, k) \/ Return(t, k)
       \/ \E u \in Nested, l \in Keys : LookUp(t, k, u, l)
  \/ \E t \in Threads :
       \/ \E k \in Keys, o \in {"claim", "get"} : Begin(t, k, o)
       \/ \E b \in building \cup built \cup closures :
            BeginPublish(t, b) \/ BeginGuard(t, b) \/ BeginCleanup(t, b)
  \/ \E b \in building : Construct(b)

LocksSpec == LocksInit /\ [][LocksNext]_lvars

-----------------------------------------------------------------------------
CanGoOn(t, k) ==
  /\ Busy(t, k) /\ At(t, k, at[t][k].pc)
  /\ at[t][k].pc = "entry" => ShardFree(k)
  /\ at[t][k].pc = "slot" => SlotFree(at[t][k].slot)

\* An interface's Drop, run by a call about k, looks up a key that is not in a
\* later shard than k: the shard comes after the slot there.
BackwardLookUp ==
  \E t, u \in Callers, k, l \in Keys :
    at[u][l].of = t /\ at[t][k].pc = "drop" /\ Shard[l] <= Shard[k]

\* "The lock order is always map entry/shard first, then slot state"
\* (domain.rs:40), which the lookups of a Drop break: they are the only way in
\* which calls may wait for each other's locks for ever.  Unless one of them goes
\* backwards right now, some call that is under way can go on.
OnlyBackwardLookUpsBlock ==
  ~BackwardLookUp /\ (\E t \in Callers, k \in Keys : Busy(t, k)) =>
    \E t \in Callers, k \in Keys : CanGoOn(t, k)

\* "Canonical ownership is linearized while the map entry is guarded"
\* (domain.rs:39): the calls have the effect of one step of the atomic registry.
Called(t, k) == Ticket(k, at[t][k].slot, at[t][k].num)
TicketsOf(ops) ==
  UNION {{Called(t, k) : k \in {j \in Keys : at[t][j].op \in ops}} : t \in Callers}

Reservations == building \cup built \cup TicketsOf({"publish", "guard"})
Cleanups == closures \cup TicketsOf({"cleanup"})
Answer == [t \in Callers |-> [k \in Keys |->
             IF at[t][k].pc \in Replies THEN at[t][k].pc ELSE "none"]]

Atomic == INSTANCE Registry
            WITH Threads <- Callers, building <- Reservations, closures <- Cleanups, reply <- Answer

CallsAreAtomic == Atomic!RegistrySpec

-----------------------------------------------------------------------------
\* The inductive strengthening: where each kind of call can be, ...
FrameOK(f) ==
  /\ f.op = "none" <=> f.pc = "out"
  /\ f.pc \in {"out"} \cup Replies => f.slot = None
  /\ f.pc \in Replies => f.op = "claim"
  /\ f.op = "claim" => f.pc \in {"entry", "entered", "slot", "locked", "drop", "refused"} \cup Replies
  /\ f.op = "get" => f.pc \in {"entry", "slot", "locked", "drop"}
  /\ f.op = "publish" => f.pc \in {"slot", "locked"}
  /\ f.op \in Removing => f.pc \in {"entry", "entered", "slot", "locked", "erase"} /\ f.slot \in Slots

\* ... what it has read with its locks held still stands, ...
ReadOK(k, f) ==
  /\ f.op \in {"claim"} \cup Removing /\ f.pc \in {"slot", "locked", "drop", "refused", "erase"}
       => entries[k] = f.slot
  /\ f.pc \in {"drop", "refused"} => slot[f.slot].state = "Active"
  /\ f.pc = "erase" => slot[f.slot].num = f.num

CallInv == \A t \in Callers, k \in Keys : FrameOK(at[t][k]) /\ ReadOK(k, at[t][k])

\* ... and each lock has one holder.
LockInv ==
  \A t, u \in Callers, j, k \in Keys :
    \/ t = u /\ j = k
    \/ /\ HoldsShard(t, j) /\ HoldsShard(u, k) => Shard[j] # Shard[k]
       /\ HoldsSlot(t, j) /\ HoldsSlot(u, k) => at[t][j].slot # at[u][k].slot

\* Whoever refers to a slot does so for the same key.
Refers(k, s) ==
  \/ entries[k] = s
  \/ \E b \in building \cup built \cup closures : b.key = k /\ b.slot = s
  \/ \E t \in Callers : at[t][k].slot = s
KeyInv == \A s \in Slots, j, k \in Keys : Refers(j, s) /\ Refers(k, s) => j = k

\* A ticket is held once, in a set or in a call; a constructor's is for the
\* slot's number and keeps it Starting, and has no cleanup until it has built.
Publishing(t, k) == at[t][k].op \in {"publish", "guard"}
Cleaning(t, k) == at[t][k].op = "cleanup"

Reserved(b) == slot[b.slot].state = "Starting" /\ slot[b.slot].num = b.num
BuildInv ==
  /\ \A b \in building \cup built : Reserved(b)
  /\ \A t \in Callers, k \in Keys : Publishing(t, k) =>
       /\ Reserved(Called(t, k)) /\ at[t][k].slot \in Slots
       /\ Called(t, k) \notin building \cup built
       /\ \A u \in Callers : Publishing(u, k) /\ at[u][k].slot = at[t][k].slot => u = t
  /\ building \cap (built \cup closures) = {}

CleanInv ==
  /\ \A b \in closures : b.num <= slot[b.slot].num
  /\ \A t \in Callers, k \in Keys : Cleaning(t, k) =>
       /\ at[t][k].num <= slot[at[t][k].slot].num
       /\ Called(t, k) \notin building \cup closures
       /\ \A u \in Callers : Cleaning(u, k) /\ Called(u, k) = Called(t, k) => u = t

\* A lookup belongs to a Drop that stands, and a caller is in one call.
NestInv ==
  /\ \A u \in Callers, l \in Keys :
       at[u][l].of # None =>
         at[u][l].op = "get" /\ \E k \in Keys : at[at[u][l].of][k].pc = "drop"
  /\ \A t \in Callers, j, k \in Keys : at[t][j] # Out /\ at[t][k] # Out => j = k

LocksInv ==
  LocksTypeOK /\ CallInv /\ LockInv /\ KeyInv /\ BuildInv /\ CleanInv
=============================================================================
