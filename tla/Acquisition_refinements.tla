---------------------- MODULE Acquisition_refinements ----------------------
(***************************************************************************)
(* Module Acquisition implements the atomic registry of module Registry,   *)
(* which module RegistryLocks implements with the locks of the code, and   *)
(* it keeps the promises of module Identity to the callers.                *)
(***************************************************************************)
EXTENDS Acquisition_proofs

\* The helpers every step is written with.
USE OpsAssumption, NoneAssumption
    DEF SlotStates, Locals, Tickets, Canonical, Locations, Local, Aim, Idle, Unused, Jump,
        Return, ReturnLease, Take, Release, Fail, regVars, callVars, avars

\* A supervised generation whose cleanup closure has not run.
Counts(g) == home[g] # None /\ creation[g] = "registered"

\* Membership, said with quantifiers the provers can use.
LEMMA InConstructors ==
  ASSUME NEW b
  PROVE  /\ b \in Constructors <=> \E c \in Callers : Owner(c) /\ b = TicketAt(c)
         /\ b \in Constructors' <=> \E c \in Callers : Owner(c)' /\ b = TicketAt(c)'
BY DEF Constructors

LEMMA InToClean ==
  ASSUME NEW b
  PROVE  /\ b \in ToClean <=> \E g \in Gens : Counts(g) /\ b = home[g]
         /\ b \in ToClean' <=> \E g \in Gens : Counts(g)' /\ b = home'[g]
BY DEF ToClean, Counts

SlotMap == [s \in Slots |-> SlotOf(s)]
ReplyMap == [c \in Callers |-> [k \in Keys |-> ReplyTo(c, k)]]

\* The two functions change at one place.
LEMMA SlotBecomes ==
  ASSUME NEW s \in Slots, NEW v, SlotOf(s)' = v,
         \A r \in Slots \ {s} : SlotOf(r)' = SlotOf(r)
  PROVE  SlotMap' = [SlotMap EXCEPT ![s] = v]
<1> DEFINE now(r) == SlotOf(r)
           next(r) == SlotOf(r)'
<1>1. next(s) = v /\ \A r \in Slots \ {s} : next(r) = now(r)
  OBVIOUS
<1> HIDE DEF now, next
<1>2. [r \in Slots |-> next(r)] = [[r \in Slots |-> now(r)] EXCEPT ![s] = v]
  BY <1>1
<1> QED BY <1>2 DEF now, next, SlotMap

LEMMA ReplyBecomes ==
  ASSUME NEW c \in Callers, NEW k \in Keys, NEW v, ReplyTo(c, k)' = v,
         \A d \in Callers, j \in Keys : ~(d = c /\ j = k) => ReplyTo(d, j)' = ReplyTo(d, j)
  PROVE  ReplyMap' = [ReplyMap EXCEPT ![c][k] = v]
<1> DEFINE now(d, j) == ReplyTo(d, j)
           next(d, j) == ReplyTo(d, j)'
<1>1. next(c, k) = v /\ \A d \in Callers, j \in Keys : ~(d = c /\ j = k) => next(d, j) = now(d, j)
  OBVIOUS
<1> HIDE DEF now, next
<1>2. [d \in Callers |-> [j \in Keys |-> next(d, j)]]
        = [[d \in Callers |-> [j \in Keys |-> now(d, j)]] EXCEPT ![c][k] = v]
  BY <1>1
<1> QED BY <1>2 DEF now, next, ReplyMap

-----------------------------------------------------------------------------
\* Nobody gets, uses or gives back a reservation or a closure.
SameOwners == \A c \in Callers : (Owner(c)' <=> Owner(c)) /\ (Owner(c) => TicketAt(c)' = TicketAt(c))
SameNotifiers ==
  \A c \in Callers : (Notifier(c)' <=> Notifier(c)) /\ (Notifier(c) => loc'[c].key = loc[c].key)
SameClosures == \A g \in Gens : (Counts(g)' <=> Counts(g)) /\ (Counts(g) => home'[g] = home[g])

LEMMA OwnersSame == ASSUME SameOwners PROVE Constructors' = Constructors
<1>1. \A b : b \in Constructors' <=> b \in Constructors
  BY InConstructors DEF SameOwners
<1> QED BY <1>1

LEMMA ClosuresSame == ASSUME SameClosures PROVE ToClean' = ToClean
<1>1. \A b : b \in ToClean' <=> b \in ToClean
  BY InToClean DEF SameClosures
<1> QED BY <1>1

LEMMA NotifiersSame == ASSUME SameNotifiers PROVE ReplyMap' = ReplyMap
<1>1. \A c \in Callers, k \in Keys : ReplyTo(c, k)' = ReplyTo(c, k)
  BY DEF SameNotifiers, ReplyTo
<1> QED BY <1>1 DEF ReplyMap

LEMMA SlotsSame == ASSUME UNCHANGED slot PROVE SlotMap' = SlotMap
BY DEF SlotMap, SlotOf

LEMMA HiddenStep ==
  ASSUME UNCHANGED <<entries, slot>>, SameOwners, SameNotifiers, SameClosures
  PROVE  UNCHANGED Reg!regVars
BY OwnersSame, ClosuresSame, NotifiersSame, SlotsSame DEF Reg!regVars, SlotMap, ReplyMap

\* Steps that leave the calls alone, or change a call that is no constructor's.
LEMMA OutsideHidden ==
  ASSUME UNCHANGED <<avars, creation>> PROVE UNCHANGED Reg!regVars
BY HiddenStep DEF SameOwners, SameNotifiers, SameClosures, Owner, Notifier, TicketAt, Counts

LEMMA RequestHidden ==
  ASSUME InductiveInv, NEW c \in Callers, Request(c) \/ Abandon(c)
  PROVE  UNCHANGED Reg!regVars
<1> USE DEF InductiveInv, AcquisitionInv, AcquisitionTypeOK, CallInv, dvars, genVars
<1>1. UNCHANGED <<entries, slot>> /\ SameClosures
  BY DEF Request, Begin, BeginUnique, BeginGet, UpgradeWeak, CloneRef, DropRef, Abandon,
         SameClosures, Counts
<1>2. SameOwners /\ SameNotifiers
  <2>1. CASE Abandon(c)
    BY <2>1 DEF Abandon, SameOwners, SameNotifiers, Owner, Notifier, TicketAt
  <2>2. CASE Request(c)
    BY <2>2 DEF Request, Begin, BeginUnique, BeginGet, UpgradeWeak, CloneRef, DropRef,
                SameOwners, SameNotifiers, Owner, Notifier, TicketAt
  <2> QED BY <2>1, <2>2
<1> QED BY <1>1, <1>2, HiddenStep

LEMMA ProceedHidden ==
  ASSUME InductiveInv, NEW c \in Callers,
         \/ ClaimStarting(c) \/ ClaimUpgrade(c) \/ DropOccupied(c) \/ CreateCheck(c)
         \/ AcceptCheck(c) \/ Fetch(c) \/ Probe(c) \/ Hand(c) \/ BuildPanics(c)
  PROVE  UNCHANGED Reg!regVars
<1> USE DEF InductiveInv, AcquisitionInv, AcquisitionTypeOK, CallInv, dvars, genVars
<1>1. UNCHANGED <<entries, slot>> /\ SameClosures
  BY DEF ClaimStarting, ClaimUpgrade, DropOccupied, CreateCheck, AcceptCheck, Fetch, Probe, Hand,
         BuildPanics, SameClosures, Counts
<1>2. SameOwners /\ SameNotifiers
  <2>1. CASE ClaimStarting(c) \/ ClaimUpgrade(c)
    BY <2>1 DEF ClaimStarting, ClaimUpgrade, Finds, SameOwners, SameNotifiers, Owner, Notifier, TicketAt
  <2>2. CASE DropOccupied(c) \/ CreateCheck(c) \/ AcceptCheck(c) \/ BuildPanics(c)
    BY <2>2 DEF DropOccupied, CreateCheck, AcceptCheck, BuildPanics,
                SameOwners, SameNotifiers, Owner, Notifier, TicketAt
  <2>3. CASE Fetch(c) \/ Probe(c) \/ Hand(c)
    BY <2>3 DEF Fetch, Probe, Hand, SameOwners, SameNotifiers, Owner, Notifier, TicketAt
  <2> QED BY <2>1, <2>2, <2>3
<1> QED BY <1>1, <1>2, HiddenStep

\* A generation is created, supervised, started, refused: its constructor stays one.
LEMMA CreatorHidden ==
  ASSUME InductiveInv, NEW c \in Callers,
         \/ \E g \in Gens : BuildReturns(c, g)
         \/ pc[c] = "register" /\ Refuse(ref[c]) /\ Jump(c, "refused") /\ UNCHANGED <<regVars, loc, ref, home>>
         \/ DropRefused(c) \/ SuperviseNew(c) \/ RejectNew(c) \/ StartTask(c)
  PROVE  UNCHANGED Reg!regVars
<1> USE DEF InductiveInv, AcquisitionInv, AcquisitionTypeOK, dvars, domainVars, genVars
<1>1. SameOwners /\ SameNotifiers /\ UNCHANGED <<entries, slot>>
  BY DEF CallInv, BuildReturns, DropRefused, SuperviseNew, RejectNew, StartTask, SameOwners, SameNotifiers,
         Owner, Notifier, TicketAt
<1>2. SameClosures
  <2>1. CASE \E g \in Gens : BuildReturns(c, g)
    BY <2>1 DEF BuildReturns, Create, IInv, TypeOK, SameClosures, Counts
  <2>2. CASE pc[c] = "register" /\ Refuse(ref[c]) /\ UNCHANGED home
    BY <2>2 DEF Refuse, IInv, TypeOK, SameClosures, Counts
  <2>3. CASE DropRefused(c)
    <3>1. creation[ref[c]] = "refused" /\ UNCHANGED creation
      BY <2>3 DEF DropRefused, Start, CreatorInv
    <3> QED BY <2>3, <3>1 DEF DropRefused, SameClosures, Counts
  <2>4. CASE SuperviseNew(c) \/ RejectNew(c) \/ StartTask(c)
    BY <2>4 DEF SuperviseNew, Supervise, RejectNew, StartTask, Start, SameClosures, Counts
  <2> QED BY <2>1, <2>2, <2>3, <2>4
<1> QED BY <1>1, <1>2, HiddenStep

-----------------------------------------------------------------------------
\* A caller owns the reservation of slot s with number n.
LEMMA OwnsRegistry ==
  ASSUME InductiveInv, NEW c \in Callers, NEW s \in Slots, NEW n \in Nat,
         pc[c] \in {"claim", "claimed"}, Aim(c, s, n), Jump(c, "create"),
         slot' = [slot EXCEPT ![s] = [state |-> "Starting", num |-> n, gen |-> None]],
         UNCHANGED <<creation, home>>
  PROVE  Reg!Owns(c, loc[c].key, s, n)
<1> USE DEF InductiveInv, AcquisitionInv, AcquisitionTypeOK, CallInv
<1>1. PICK k \in Keys : k = loc[c].key /\ loc[c].op \in Canonical
  OBVIOUS
<1>2. SlotMap' = [SlotMap EXCEPT ![s] = [state |-> "Starting", num |-> n]]
  <2>1. SlotOf(s)' = [state |-> "Starting", num |-> n]
    BY DEF SlotOf
  <2>2. \A r \in Slots \ {s} : SlotOf(r)' = SlotOf(r)
    BY DEF SlotOf
  <2> QED BY <2>1, <2>2, SlotBecomes
<1>3. Owner(c)' /\ TicketAt(c)' = Reg!Ticket(k, s, n) /\ ~Owner(c) /\ ~Notifier(c) /\ Notifier(c)'
      /\ loc'[c].key = k
  BY <1>1 DEF Owner, Notifier, TicketAt, Reg!Ticket
<1>4. \A d \in Callers \ {c} : /\ Owner(d)' <=> Owner(d)
                               /\ Notifier(d)' <=> Notifier(d)
                               /\ TicketAt(d)' = TicketAt(d)
                               /\ loc'[d].key = loc[d].key
  BY DEF Owner, Notifier, TicketAt
<1>5. Constructors' = Constructors \cup {Reg!Ticket(k, s, n)}
  <2>1. \A b : b \in Constructors' <=> b \in Constructors \/ b = Reg!Ticket(k, s, n)
    BY InConstructors, <1>3, <1>4
  <2> QED BY <2>1
<1>6. ReplyTo(c, k) = "none" /\ ReplyTo(c, k)' = "Owner"
  BY <1>3 DEF ReplyTo
<1>7. \A d \in Callers, j \in Keys : ~(d = c /\ j = k) => ReplyTo(d, j)' = ReplyTo(d, j)
  BY <1>3, <1>4 DEF ReplyTo
<1>8. ReplyMap' = [ReplyMap EXCEPT ![c][k] = "Owner"] /\ ReplyMap[c][k] = "none"
  <2>1. ReplyMap' = [ReplyMap EXCEPT ![c][k] = "Owner"]
    BY <1>6, <1>7, ReplyBecomes
  <2>2. ReplyMap[c][k] = "none"
    BY <1>6 DEF ReplyMap
  <2> QED BY <2>1, <2>2
<1>9. ToClean' = ToClean
  BY ClosuresSame DEF SameClosures, Counts
<1> QED BY <1>1, <1>2, <1>5, <1>8, <1>9 DEF Reg!Owns, Reg!Answers, SlotMap, ReplyMap

\* The claims: a reservation, a takeover, or nothing the registry sees.
LEMMA ClaimRegistry ==
  ASSUME InductiveInv, NEW c \in Callers, ClaimVacant(c) \/ ClaimDead(c) \/ ClaimDecide(c)
  PROVE  [Reg!RegistryNext]_(Reg!regVars)
<1> USE DEF InductiveInv, AcquisitionInv, AcquisitionTypeOK, CallInv, dvars, genVars
<1> DEFINE k == loc[c].key
<1>1. k \in Keys /\ loc[c].op \in Canonical /\ pc[c] \in {"claim", "claimed"}
  BY DEF ClaimVacant, ClaimDead, Finds, ClaimDecide
<1>2. CASE \E s \in Slots : entries[k] = None /\ Reserve(c, s) /\ UNCHANGED <<creation, home>>
  <2>1. PICK s \in Slots : entries[k] = None /\ Reserve(c, s) /\ UNCHANGED <<creation, home>>
    BY <1>2
  <2>2. Reg!Owns(c, k, s, 1) /\ entries' = [entries EXCEPT ![k] = s]
    BY <1>1, <2>1, OwnsRegistry DEF Reserve
  <2>3. slot[s].state = "unused" /\ \A j \in Keys : entries[j] # s
    BY <2>1 DEF Reserve, KeyInv
  <2>4. \A b \in Constructors \cup ToClean : b.slot # s
    <3>1. \A b \in Constructors : b.slot # s
      BY <2>3, InConstructors DEF OwnerInv, TicketAt
    <3>2. \A b \in ToClean : b.slot # s
      BY <2>3, InToClean DEF HomeInv, Counts
    <3> QED BY <3>1, <3>2
  <2>5. Reg!Reserve(c, k, s)
    BY <2>1, <2>2, <2>3, <2>4 DEF Reg!Reserve
  <2> QED BY <1>1, <2>5 DEF Reg!RegistryNext
<1>3. CASE /\ entries[k] # None /\ slot[entries[k]].state = "Active"
           /\ Own(c) /\ UNCHANGED <<creation, home>>
  <2> DEFINE s == entries[k]
  <2>1. s \in Slots /\ slot[s].num + 1 \in Nat
    BY <1>1, <1>3
  <2>2. Reg!Owns(c, k, s, slot[s].num + 1) /\ UNCHANGED entries
    BY <1>1, <1>3, <2>1, OwnsRegistry DEF Own
  <2>3. SlotMap[s].state = "Active" /\ SlotMap[s].num = slot[s].num
    BY <1>3, <2>1 DEF SlotMap, SlotOf
  <2>4. Reg!TakeOver(c, k)
    BY <1>3, <2>2, <2>3 DEF Reg!TakeOver, SlotMap
  <2> QED BY <1>1, <2>4 DEF Reg!RegistryNext
<1>4. CASE /\ UNCHANGED <<entries, slot, creation, home>>
           /\ \/ Return(c) \/ ReturnLease(c)
              \/ Jump(c, "occupied") /\ UNCHANGED loc
  <2>1. SameOwners /\ SameNotifiers /\ SameClosures
    BY <1>1, <1>4 DEF SameOwners, SameNotifiers, SameClosures, Owner, Notifier, TicketAt, Counts
  <2> QED BY <1>4, <2>1, HiddenStep
<1>5. CASE ClaimVacant(c)
  BY <1>2, <1>4, <1>5 DEF ClaimVacant
<1>6. CASE ClaimDead(c)
  BY <1>3, <1>4, <1>6 DEF ClaimDead, Finds
<1>7. CASE ClaimDecide(c)
  <2>1. entries[k] # None /\ slot[entries[k]].state = "Active"
    BY <1>1, <1>7 DEF ClaimDecide, LockInv
  <2>2. CASE Own(c)
    BY <1>3, <1>7, <2>1, <2>2 DEF ClaimDecide
  <2>3. CASE ~Own(c)
    BY <1>4, <1>7, <2>3 DEF ClaimDecide
  <2> QED BY <2>2, <2>3
<1> QED BY <1>5, <1>6, <1>7

\* A registered canonical generation brings its cleanup closure.
LEMMA RegisterRegistry ==
  ASSUME InductiveInv, NEW c \in Callers, RegisterOrRefuse(c)
  PROVE  [Reg!RegistryNext]_(Reg!regVars)
<1> USE DEF InductiveInv, AcquisitionInv, AcquisitionTypeOK, CallInv, dvars, domainVars, genVars
<1>1. CASE Refuse(ref[c]) /\ Jump(c, "refused") /\ UNCHANGED <<regVars, loc, ref, home>>
  BY <1>1, CreatorHidden DEF RegisterOrRefuse
<1>2. CASE Register(ref[c]) /\ Jump(c, "supervise") /\ UNCHANGED <<regVars, loc, ref, home>>
  <2>1. PICK g \in Gens :
          /\ g = ref[c] /\ pc[c] = "register" /\ creation[g] = "spawned" /\ ~Counts(g)
          /\ creation' = [creation EXCEPT ![g] = "registered"]
    BY <1>2 DEF RegisterOrRefuse, Register, HasRef, Creating, Counts
  <2>2. SameOwners /\ SameNotifiers
    BY <1>2, <2>1 DEF SameOwners, SameNotifiers, Owner, Notifier, TicketAt
  <2>3. \A h \in Gens \ {g} : (Counts(h)' <=> Counts(h)) /\ home'[h] = home[h]
    BY <1>2, <2>1 DEF Counts, IInv, TypeOK
  <2>4. Counts(g)' <=> home[g] # None
    BY <1>2, <2>1 DEF Counts, IInv, TypeOK
  <2>5. CASE home[g] = None
    <3>1. SameClosures
      BY <2>1, <2>3, <2>4, <2>5 DEF SameClosures
    <3> QED BY <1>2, <2>2, <3>1, HiddenStep
  <2>6. CASE home[g] # None
    <3>1. loc[c].op \in Canonical /\ Owner(c)
      BY <2>1, <2>6 DEF CreatorInv, Creating, Owner
    <3>2. home[g] = TicketAt(c)
      BY <2>1, <2>6, <3>1 DEF TicketInv, TicketOf, TicketAt, Creating
    <3>3. \A b : b \in ToClean' <=> b \in ToClean \/ b = TicketAt(c)
      BY <1>2, <2>1, <2>3, <2>4, <2>6, <3>2, InToClean
    <3>4. ToClean' = ToClean \cup {TicketAt(c)}
      BY <3>3
    <3>5. TicketAt(c) \in Constructors
      BY <3>1, InConstructors
    <3>6. Constructors' = Constructors /\ ReplyMap' = ReplyMap /\ SlotMap' = SlotMap /\ entries' = entries
      BY <1>2, <2>2, OwnersSame, NotifiersSame, SlotsSame
    <3>7. Reg!Construct(TicketAt(c))
      BY <3>4, <3>5, <3>6 DEF Reg!Construct, SlotMap, ReplyMap
    <3> QED BY <3>5, <3>7 DEF Reg!RegistryNext
  <2> QED BY <2>5, <2>6
<1> QED BY <1>1, <1>2 DEF RegisterOrRefuse

-----------------------------------------------------------------------------
\* A caller that stops being a constructor takes its ticket away.
LEMMA OwnerLeaves ==
  ASSUME InductiveInv, NEW c \in Callers, Owner(c), ~Owner(c)',
         \A d \in Callers \ {c} : (Owner(d)' <=> Owner(d)) /\ TicketAt(d)' = TicketAt(d)
  PROVE  TicketAt(c) \in Constructors /\ Constructors' = Constructors \ {TicketAt(c)}
<1>1. \A d \in Callers \ {c} : Owner(d) => TicketAt(d) # TicketAt(c)
  BY DEF InductiveInv, AcquisitionInv, OwnerInv, TicketAt
<1>2. \A b : b \in Constructors' <=> b \in Constructors /\ b # TicketAt(c)
  BY <1>1, InConstructors
<1> QED BY <1>2, InConstructors

LEMMA PublishRegistry ==
  ASSUME InductiveInv, NEW c \in Callers, PublishActive(c)
  PROVE  [Reg!RegistryNext]_(Reg!regVars)
<1> USE DEF InductiveInv, AcquisitionInv, AcquisitionTypeOK, CallInv, dvars, genVars, PublishActive
<1> DEFINE s == loc[c].slot
<1>1. Owner(c) /\ ~Owner(c)' /\ Notifier(c) /\ s \in Slots
  BY DEF Owner, Notifier
<1>2. \A d \in Callers \ {c} : (Owner(d)' <=> Owner(d)) /\ TicketAt(d)' = TicketAt(d)
  BY DEF Owner, TicketAt
<1>3. TicketAt(c) \in Constructors /\ Constructors' = Constructors \ {TicketAt(c)}
  BY <1>1, <1>2, OwnerLeaves
<1>4. SameNotifiers /\ SameClosures
  BY DEF SameNotifiers, SameClosures, Notifier, Owner, Counts
<1>5. SlotMap[s].state = "Starting" /\ SlotMap[s].num = loc[c].num
  BY <1>1 DEF OwnerInv, SlotMap, SlotOf
<1>6. SlotMap' = [SlotMap EXCEPT ![s].state = "Active"]
  <2>1. SlotOf(s)' = [SlotMap[s] EXCEPT !.state = "Active"]
    BY <1>1, <1>5 DEF SlotMap, SlotOf
  <2>2. \A r \in Slots \ {s} : SlotOf(r)' = SlotOf(r)
    BY DEF SlotOf
  <2> QED BY <1>1, <2>1, <2>2, SlotBecomes
<1>7. ToClean' = ToClean /\ ReplyMap' = ReplyMap /\ entries' = entries
  BY <1>4, ClosuresSame, NotifiersSame
<1>8. TicketAt(c).slot = s /\ TicketAt(c).num = loc[c].num
  BY DEF TicketAt
<1>9. Reg!Publish(TicketAt(c))
  BY <1>3, <1>5, <1>6, <1>7, <1>8 DEF Reg!Publish, SlotMap, ReplyMap
<1> QED BY <1>3, <1>9 DEF Reg!RegistryNext

\* The key is freed exactly when it still shows the ticket.
LEMMA RemoveRegistry ==
  ASSUME AcquisitionTypeOK, NEW k \in Keys, NEW s \in Slots, NEW n,
         RemoveIfSame(k, s, n)
  PROVE  entries' = IF entries[k] = s /\ SlotMap[s].num = n
                    THEN [entries EXCEPT ![k] = None] ELSE entries
BY DEF RemoveIfSame, Same, SlotMap, SlotOf

LEMMA GuardRegistry ==
  ASSUME InductiveInv, NEW c \in Callers, GuardRemove(c)
  PROVE  [Reg!RegistryNext]_(Reg!regVars)
<1> USE DEF InductiveInv, AcquisitionInv, AcquisitionTypeOK, CallInv, dvars, genVars, GuardRemove
<1>1. Owner(c) /\ ~Owner(c)' /\ loc[c].slot \in Slots /\ loc[c].key \in Keys
  BY DEF Owner
<1>2. \A d \in Callers \ {c} : (Owner(d)' <=> Owner(d)) /\ TicketAt(d)' = TicketAt(d)
  BY DEF Owner, TicketAt
<1>3. TicketAt(c) \in Constructors /\ Constructors' = Constructors \ {TicketAt(c)}
  BY <1>1, <1>2, OwnerLeaves
<1>4. SameNotifiers /\ SameClosures
  BY DEF SameNotifiers, SameClosures, Notifier, Owner, Counts
<1>5. ToClean' = ToClean /\ ReplyMap' = ReplyMap /\ SlotMap' = SlotMap
  BY <1>4, ClosuresSame, NotifiersSame, SlotsSame
<1>6. /\ TicketAt(c).slot = loc[c].slot /\ TicketAt(c).num = loc[c].num
      /\ TicketAt(c).key = loc[c].key
  BY DEF TicketAt
<1>7. Reg!GiveBack(TicketAt(c))
  BY <1>1, <1>3, <1>5, <1>6, RemoveRegistry DEF Reg!GiveBack, SlotMap, ReplyMap
<1> QED BY <1>3, <1>7 DEF Reg!RegistryNext

LEMMA CleanUpRegistry ==
  ASSUME InductiveInv, NEW g \in Gens, CleanUp(g)
  PROVE  [Reg!RegistryNext]_(Reg!regVars)
<1> USE DEF InductiveInv, AcquisitionInv, AcquisitionTypeOK, dvars, genVars, CleanUp
<1>1. SameOwners /\ SameNotifiers /\ UNCHANGED <<slot, creation>>
  BY DEF SameOwners, SameNotifiers, Owner, Notifier, TicketAt, Cleanup
<1>2. CASE home[g] = None
  <2>1. SameClosures /\ UNCHANGED entries
    BY <1>1, <1>2 DEF SameClosures, Counts
  <2> QED BY <1>1, <2>1, HiddenStep
<1>3. CASE home[g] # None
  <2>1. Counts(g) /\ ~Counts(g)' /\ home[g] \in Tickets
    <3>1. creation[g] = "registered"
      BY DEF Cleanup, IInv, TypeOK, GenInv
    <3> QED BY <1>3, <3>1 DEF Counts
  <2>2. \A h \in Gens \ {g} : /\ Counts(h)' <=> Counts(h)
                              /\ home'[h] = home[h]
                              /\ Counts(h) => home[h] # home[g]
    BY <1>1, <1>3 DEF Counts, HomeInv
  <2>3. \A b : b \in ToClean' <=> b \in ToClean /\ b # home[g]
    BY <2>1, <2>2, InToClean
  <2>4. home[g] \in ToClean /\ ToClean' = ToClean \ {home[g]}
    BY <2>1, <2>3, InToClean
  <2>5. Constructors' = Constructors /\ ReplyMap' = ReplyMap /\ SlotMap' = SlotMap
    BY <1>1, OwnersSame, NotifiersSame, SlotsSame
  <2>6. RemoveIfSame(home[g].key, home[g].slot, home[g].num)
    BY <1>3
  <2>7. Reg!GiveBack(home[g])
    BY <2>1, <2>4, <2>5, <2>6, RemoveRegistry DEF Reg!GiveBack, SlotMap, ReplyMap
  <2> QED BY <2>4, <2>7 DEF Reg!RegistryNext
<1> QED BY <1>2, <1>3

\* The constructor is done with its reply when it has woken the listeners.
LEMMA NotifyRegistry ==
  ASSUME InductiveInv, NEW c \in Callers, Announce(c) \/ GuardNotify(c)
  PROVE  [Reg!RegistryNext]_(Reg!regVars)
<1> USE DEF InductiveInv, AcquisitionInv, AcquisitionTypeOK, CallInv, dvars, genVars
<1>1. PICK k \in Keys : k = loc[c].key
  BY DEF Announce, GuardNotify
<1>2. /\ pc[c] \in {"announce", "guardNotify"} /\ loc[c].op \in Canonical
      /\ pc'[c] \in {"start", "idle"}
      /\ \A d \in Callers \ {c} : /\ loc'[d] = loc[d]
                                  /\ pc'[d] = pc[d] \/ (pc[d] = "listen" /\ pc'[d] = "claim")
      /\ UNCHANGED <<entries, slot, creation, home>>
  BY DEF Announce, GuardNotify, NotifyListeners
<1>3. Notifier(c) /\ ~Notifier(c)'
  BY <1>1, <1>2 DEF Notifier, Owner
<1>4. \A d \in Callers \ {c} : (Notifier(d)' <=> Notifier(d)) /\ loc'[d].key = loc[d].key
  BY <1>1, <1>2 DEF Notifier, Owner
<1>5. SameOwners /\ SameClosures
  BY <1>1, <1>2 DEF SameOwners, SameClosures, Owner, TicketAt, Counts
<1>6. ReplyTo(c, k) = "Owner" /\ ReplyTo(c, k)' = "none"
  BY <1>1, <1>3 DEF ReplyTo
<1>7. \A d \in Callers, j \in Keys : ~(d = c /\ j = k) => ReplyTo(d, j)' = ReplyTo(d, j)
  BY <1>1, <1>3, <1>4 DEF ReplyTo
<1>8. ReplyMap' = [ReplyMap EXCEPT ![c][k] = "none"] /\ ReplyMap[c][k] = "Owner"
  BY <1>1, <1>2, <1>6, <1>7, ReplyBecomes DEF ReplyMap
<1>9. /\ Constructors' = Constructors /\ ToClean' = ToClean
      /\ SlotMap' = SlotMap /\ entries' = entries
  BY <1>2, <1>5, OwnersSame, ClosuresSame, SlotsSame
<1>10. Reg!Use(c, k)
  BY <1>8, <1>9 DEF Reg!Use, SlotMap, ReplyMap
<1> QED BY <1>2, <1>10 DEF Reg!RegistryNext

-----------------------------------------------------------------------------
LEMMA StepKeepsRegistry ==
  ASSUME InductiveInv, [Next]_vars PROVE [Reg!RegistryNext]_(Reg!regVars)
<1> USE DEF dvars, domainVars, genVars, stopVars
<1>1. CASE UNCHANGED vars
  BY <1>1, OutsideHidden DEF vars
<1>2. ASSUME NEW c \in Callers, Request(c) \/ Abandon(c)
      PROVE  [Reg!RegistryNext]_(Reg!regVars)
  BY <1>2, RequestHidden
<1>3. ASSUME NEW c \in Callers, Build(c)
      PROVE  [Reg!RegistryNext]_(Reg!regVars)
  BY <1>3, ProceedHidden, CreatorHidden DEF Build
<1>4. ASSUME NEW c \in Callers, Proceed(c)
      PROVE  [Reg!RegistryNext]_(Reg!regVars)
  BY <1>4, ProceedHidden, CreatorHidden, ClaimRegistry, RegisterRegistry, PublishRegistry,
     GuardRegistry, NotifyRegistry DEF Proceed
<1>5. ASSUME NEW g \in Gens, LastLeaseDropped(g) \/ Settle(g) \/ (TaskStep(g) /\ UNCHANGED avars)
      PROVE  [Reg!RegistryNext]_(Reg!regVars)
  <2>1. CASE CleanUp(g)
    BY <2>1, CleanUpRegistry
  <2>2. CASE ~CleanUp(g)
    <3>1. UNCHANGED avars /\ UNCHANGED creation
      BY <1>5, <2>2 DEF LastLeaseDropped, EntryDrop, Settle, Finish, Publish, Unlist, TaskFinished,
                        NotifyQuiescent, TaskStep, BeginPoll, EndPoll, BodyReturns, Kill
    <3> QED BY <3>1, OutsideHidden
  <2> QED BY <2>1, <2>2
<1>6. ASSUME NEW s \in Stoppers, StopperStep(s) \/ \E m \in Calls : Call(s, m), UNCHANGED avars
      PROVE  [Reg!RegistryNext]_(Reg!regVars)
  <2>1. UNCHANGED creation
    BY <1>6 DEF StopperStep, Call, Lock, Snapshot, Signal, CancelDone, SnapshotAborts, Abort,
                AbortDone, Subscribe, Check, Poll, Awake
  <2> QED BY <1>6, <2>1, OutsideHidden
<1> QED BY <1>1, <1>2, <1>3, <1>4, <1>5, <1>6 DEF Next

LEMMA InitRegistry == Init => Reg!RegistryInit
<1> SUFFICES ASSUME Init PROVE Reg!RegistryInit
  OBVIOUS
<1> USE DEF Init
<1>1. Constructors = {}
  BY InConstructors DEF Owner
<1>2. ToClean = {}
  BY InToClean DEF Counts
<1>3. \A s \in Slots : SlotOf(s) = [state |-> "unused", num |-> 0]
  BY DEF SlotOf
<1>4. \A c \in Callers, k \in Keys : ReplyTo(c, k) = "none"
  BY DEF ReplyTo, Notifier, Owner
<1> QED BY <1>1, <1>2, <1>3, <1>4 DEF Reg!RegistryInit

\* Claims, constructions, publications, guards and cleanup closures, for any
\* number of callers, keys and generations and through every panic, refusal and
\* shutdown, do to the map and the slots what the atomic registry does.
THEOREM AcquisitionKeepsRegistry == Spec => KeepsRegistry
<1>1. InductiveInv /\ [Next]_vars => [Reg!RegistryNext]_(Reg!regVars)
  BY StepKeepsRegistry
<1>2. QED
  BY <1>1, InitRegistry, Invariance, PTL DEF Spec, KeepsRegistry, Reg!RegistrySpec

-----------------------------------------------------------------------------
\* Module Identity.  What its variables show of one caller and one generation.
AskOf(c) == loc[c].key
MadeOf(c) == IF pc[c] \in Established THEN ref[c] ELSE None
HoldOf(c) == IF pc[c] = "holding" THEN ref[c] ELSE None

Alive == {Named(g) : g \in {h \in Gens : Living(h)}}
Spent == {g \in Gens : creation[g] = "registered"}
AskMap == [c \in Callers |-> AskOf(c)]
MadeMap == [c \in Callers |-> MadeOf(c)]
HoldMap == [c \in Callers |-> HoldOf(c)]

\* What a step may leave alone: a caller, a generation, the domain.
CallerSame(c) == AskOf(c)' = AskOf(c) /\ MadeOf(c)' = MadeOf(c) /\ HoldOf(c)' = HoldOf(c)
OthersSame(c) == \A d \in Callers \ {c} : CallerSame(d)
LivesSame(g) == (Living(g)' <=> Living(g)) /\ (Living(g) => home'[g] = home[g])
RestLives(g) == \A h \in Gens \ {g} : LivesSame(h)
WorldSame ==
  /\ Accepting' = Accepting
  /\ \A g \in Gens : creation'[g] = "registered" <=> creation[g] = "registered"

LEMMA AskInvKept == InductiveInv /\ AskInv /\ [Next]_vars => AskInv'
<1> SUFFICES ASSUME InductiveInv, AskInv, [Next]_vars PROVE AskInv'
  OBVIOUS
<1> USE DEF InductiveInv, AcquisitionInv, AcquisitionTypeOK, CallInv, AskInv
<1>1. ASSUME UNCHANGED loc PROVE AskInv'
  BY <1>1
<1>2. ASSUME NEW c \in Callers, Return(c) \/ ReturnLease(c) \/ loc' = [loc EXCEPT ![c] = Idle]
      PROVE  AskInv'
  <2>1. loc' = [loc EXCEPT ![c] = Idle]
    BY <1>2 DEF Return, ReturnLease
  <2>2. QED
    BY <2>1 DEF Idle, Local
<1>3. ASSUME NEW c \in Callers, NEW s, NEW n, Aim(c, s, n) PROVE AskInv'
  BY <1>3 DEF Aim, Local
<1>4. ASSUME NEW c \in Callers, Request(c) PROVE AskInv'
  BY <1>4 DEF Request, Begin, BeginUnique, BeginGet, UpgradeWeak, CloneRef, DropRef
<1> HIDE DEF Aim, Return, ReturnLease, AskInv, InductiveInv, Idle
<1>5. ASSUME NEW c \in Callers, Abandon(c) \/ Build(c) PROVE AskInv'
  BY <1>1, <1>2, <1>5 DEF Abandon, Build, BuildPanics, BuildReturns, Fail
<1>6. ASSUME NEW c \in Callers, Proceed(c) PROVE AskInv'
  <2>1. CASE ClaimVacant(c) \/ ClaimStarting(c) \/ ClaimUpgrade(c) \/ ClaimDead(c)
             \/ ClaimDecide(c) \/ DropOccupied(c)
    BY <2>1, <1>1, <1>2, <1>3 DEF ClaimVacant, Reserve, ClaimStarting, ClaimUpgrade, ClaimDead,
       ClaimDecide, DropOccupied, Own
  <2>2. CASE CreateCheck(c) \/ RegisterOrRefuse(c) \/ DropRefused(c) \/ SuperviseNew(c)
             \/ AcceptCheck(c) \/ RejectNew(c) \/ PublishActive(c) \/ Announce(c) \/ StartTask(c)
    BY <2>2, <1>1, <1>2 DEF CreateCheck, RegisterOrRefuse, DropRefused, SuperviseNew,
       AcceptCheck, RejectNew, PublishActive, Announce, StartTask, Fail
  <2>3. CASE GuardRemove(c) \/ GuardNotify(c) \/ Fetch(c) \/ Probe(c) \/ Hand(c)
    BY <2>3, <1>1, <1>2, <1>3 DEF GuardRemove, GuardNotify, Fetch, Probe, Hand
  <2>4. QED
    BY <1>6, <2>1, <2>2, <2>3 DEF Proceed
<1>7. ASSUME NEW g \in Gens, LastLeaseDropped(g) \/ Settle(g) PROVE AskInv'
  BY <1>1, <1>7 DEF LastLeaseDropped, Settle, CleanUp
<1>8. QED
  BY <1>1, <1>4, <1>5, <1>6, <1>7 DEF Next, vars

-----------------------------------------------------------------------------
\* Membership in the set of living generations, and how it changes.
LEMMA InAlive ==
  ASSUME NEW a
  PROVE  /\ a \in Alive <=> \E g \in Gens : Living(g) /\ a = Named(g)
         /\ a \in Alive' <=> \E g \in Gens : Living(g)' /\ a = Named(g)'
BY DEF Alive

LEMMA AliveSame == ASSUME \A g \in Gens : LivesSame(g) PROVE Alive' = Alive
<1>1. \A a : a \in Alive' <=> a \in Alive
  BY InAlive DEF LivesSame, Named
<1>2. QED
  BY <1>1

LEMMA AliveGone ==
  ASSUME NEW g \in Gens, ~Living(g)', RestLives(g)
  PROVE  Alive' = {a \in Alive : a.gen # g}
<1>1. \A h \in Gens : Named(h).gen = h
  BY DEF Named
<1>2. \A a : a \in Alive' <=> a \in Alive /\ a.gen # g
  BY <1>1, InAlive DEF RestLives, LivesSame, Named
<1>3. QED
  BY <1>2

\* One caller moves.
LEMMA CallerMoves ==
  ASSUME NEW c \in Callers, NEW a, NEW m, NEW h,
         AskOf(c)' = a, MadeOf(c)' = m, HoldOf(c)' = h, OthersSame(c)
  PROVE  /\ AskMap' = [AskMap EXCEPT ![c] = a]
         /\ MadeMap' = [MadeMap EXCEPT ![c] = m]
         /\ HoldMap' = [HoldMap EXCEPT ![c] = h]
<1> DEFINE ask(d) == AskOf(d)
           ask1(d) == AskOf(d)'
           made1(d) == MadeOf(d)'
           hold1(d) == HoldOf(d)'
           made(d) == MadeOf(d)
           hold(d) == HoldOf(d)
<1>1. /\ ask1(c) = a /\ made1(c) = m /\ hold1(c) = h
      /\ \A d \in Callers \ {c} : ask1(d) = ask(d) /\ made1(d) = made(d) /\ hold1(d) = hold(d)
  BY DEF OthersSame, CallerSame
<1> HIDE DEF ask, ask1, made, made1, hold, hold1
<1>2. /\ [d \in Callers |-> ask1(d)] = [[d \in Callers |-> ask(d)] EXCEPT ![c] = a]
      /\ [d \in Callers |-> made1(d)] = [[d \in Callers |-> made(d)] EXCEPT ![c] = m]
      /\ [d \in Callers |-> hold1(d)] = [[d \in Callers |-> hold(d)] EXCEPT ![c] = h]
  BY <1>1
<1>3. QED
  BY <1>2 DEF ask, ask1, made, made1, hold, hold1, AskMap, MadeMap, HoldMap

LEMMA CallersStay ==
  ASSUME \A c \in Callers : CallerSame(c)
  PROVE  UNCHANGED <<AskMap, MadeMap, HoldMap>>
BY DEF CallerSame, AskMap, MadeMap, HoldMap

LEMMA SpentSame == ASSUME WorldSame PROVE Spent' = Spent
BY DEF WorldSame, Spent

\* The variables of module Identity, so that its actions can be expanded.
LEMMA IdVars == Id!idVars = <<Accepting, Alive, Spent, AskMap, MadeMap, HoldMap>>
BY DEF Id!idVars, Alive, Spent, AskMap, MadeMap, HoldMap, AskOf, MadeOf, HoldOf

LEMMA IdHidden ==
  ASSUME WorldSame, \A g \in Gens : LivesSame(g), \A c \in Callers : CallerSame(c)
  PROVE  UNCHANGED Id!idVars
<1>1. UNCHANGED <<Accepting, Alive, Spent, AskMap, MadeMap, HoldMap>>
  BY AliveSame, CallersStay, SpentSame DEF WorldSame
<1>2. QED
  BY <1>1 DEF Id!idVars, Alive, Spent, AskMap, MadeMap, HoldMap, AskOf, MadeOf, HoldOf

-----------------------------------------------------------------------------
\* Who has a lease, and so what lives, when a caller takes or drops one.
LEMMA LeasesStay ==
  ASSUME UNCHANGED <<creation, phase, ref, home>> PROVE \A g \in Gens : LivesSame(g)
BY DEF LivesSame, Living, Leased

LEMMA LeaseTaken ==
  ASSUME AcquisitionTypeOK, NEW c \in Callers, NEW g \in Gens, ref[c] = None, Take(c, g), Leased(g),
         UNCHANGED <<creation, phase, home>>
  PROVE  \A h \in Gens : LivesSame(h)
<1>1. \A h \in Gens : Leased(h)' <=> Leased(h)
  BY DEF AcquisitionTypeOK, Leased
<1>2. QED
  BY <1>1 DEF LivesSame, Living

LEMMA LeaseDropped ==
  ASSUME AcquisitionTypeOK, NEW c \in Callers, Release(c), UNCHANGED <<creation, phase>>,
         \A g \in Gens : home'[g] = home[g] \/ creation[g] # "registered"
  PROVE  \/ \A g \in Gens : LivesSame(g)
         \/ \E g \in Gens : ~Leased(g)' /\ RestLives(g)
<1>1. \A h \in Gens : h # ref[c] => (Leased(h)' <=> Leased(h))
  BY DEF AcquisitionTypeOK, Leased
<1>2. \A h \in Gens : h # ref[c] \/ Leased(h)' => LivesSame(h)
  BY <1>1 DEF LivesSame, Living, Leased
<1>3. QED
  BY <1>2 DEF RestLives

-----------------------------------------------------------------------------
\* A caller whose field does not change leaves the function as it is.
LEMMA CallerKeeps ==
  ASSUME NEW c \in Callers, OthersSame(c)
  PROVE  /\ AskOf(c)' = AskOf(c) => AskMap' = AskMap
         /\ MadeOf(c)' = MadeOf(c) => MadeMap' = MadeMap
         /\ HoldOf(c)' = HoldOf(c) => HoldMap' = HoldMap
BY DEF OthersSame, CallerSame, AskMap, MadeMap, HoldMap

LEMMA CallerShows ==
  ASSUME NEW c \in Callers
  PROVE  /\ AskMap[c] = AskOf(c) /\ MadeMap[c] = MadeOf(c) /\ HoldMap[c] = HoldOf(c)
         /\ MadeMap'[c] = MadeOf(c)' /\ HoldMap'[c] = HoldOf(c)'
BY DEF AskMap, MadeMap, HoldMap

\* The actions of module Identity, from what a step does to one caller and one
\* generation.
LEMMA IdAsks ==
  ASSUME NEW c \in Callers, NEW k \in Keys, WorldSame, \A g \in Gens : LivesSame(g), OthersSame(c),
         AskOf(c) = None, AskOf(c)' = k,
         MadeOf(c) = None, MadeOf(c)' = None, HoldOf(c) = None, HoldOf(c)' = None
  PROVE  Id!IdNext
<1>1. /\ AskMap[c] = None /\ MadeMap[c] = None /\ HoldMap[c] = None
      /\ AskMap' = [AskMap EXCEPT ![c] = k]
      /\ UNCHANGED <<Accepting, Alive, Spent, MadeMap, HoldMap>>
  BY CallerMoves, CallerKeeps, CallerShows, AliveSame, SpentSame DEF WorldSame
<1>2. Id!Asks(c, k)
  BY <1>1 DEF Id!Asks, Id!Empty, Alive, Spent, AskMap, MadeMap, HoldMap, AskOf, MadeOf, HoldOf
<1>3. QED
  BY <1>2 DEF Id!IdNext

LEMMA IdLetsGo ==
  ASSUME NEW c \in Callers, WorldSame, OthersSame(c), AskOf(c)' \in {AskOf(c), None},
         MadeOf(c)' = None, HoldOf(c)' = None,
         \/ \A g \in Gens : LivesSame(g)
         \/ \E g \in Gens : ~Leased(g)' /\ RestLives(g)
  PROVE  Id!IdNext
<1>1. /\ MadeMap' = [MadeMap EXCEPT ![c] = None] /\ HoldMap' = [HoldMap EXCEPT ![c] = None]
      /\ AskMap' \in {AskMap, [AskMap EXCEPT ![c] = None]}
      /\ UNCHANGED <<Accepting, Spent>>
  BY CallerMoves, CallerKeeps, SpentSame DEF WorldSame
<1>2. \/ UNCHANGED Alive
      \/ \E g \in Gens : /\ Alive' = {a \in Alive : a.gen # g}
                         /\ \A d \in Callers : HoldMap'[d] # g /\ MadeMap'[d] # g
  <2>1. CASE \A g \in Gens : LivesSame(g)
    BY <2>1, AliveSame
  <2>2. ASSUME NEW g \in Gens, ~Leased(g)', RestLives(g)
        PROVE  /\ Alive' = {a \in Alive : a.gen # g}
               /\ \A d \in Callers : HoldMap'[d] # g /\ MadeMap'[d] # g
    <3>1. ~Living(g)'
      BY <2>2 DEF Living
    <3>2. \A d \in Callers : ref'[d] # g /\ g # None
      BY <2>2 DEF Leased
    <3>3. \A d \in Callers : HoldOf(d)' # g /\ MadeOf(d)' # g
      BY <3>2 DEF HoldOf, MadeOf
    <3>4. QED
      BY <2>2, <3>1, <3>3, AliveGone, CallerShows
  <2>3. QED
    BY <2>1, <2>2
<1>3. Id!LetsGo(c)
  BY <1>1, <1>2
     DEF Id!LetsGo, Id!Gone, Alive, Spent, AskMap, MadeMap, HoldMap, AskOf, MadeOf, HoldOf
<1>4. QED
  BY <1>3 DEF Id!IdNext

LEMMA IdDelivers ==
  ASSUME NEW c \in Callers, WorldSame, \A g \in Gens : LivesSame(g), OthersSame(c),
         MadeOf(c) # None, AskOf(c)' = None, MadeOf(c)' = None, HoldOf(c)' = MadeOf(c)
  PROVE  Id!IdNext
<1>1. /\ MadeMap[c] # None /\ HoldMap' = [HoldMap EXCEPT ![c] = MadeMap[c]]
      /\ MadeMap' = [MadeMap EXCEPT ![c] = None] /\ AskMap' = [AskMap EXCEPT ![c] = None]
      /\ UNCHANGED <<Accepting, Alive, Spent>>
  BY CallerMoves, CallerShows, AliveSame, SpentSame DEF WorldSame
<1>2. Id!Delivers(c)
  BY <1>1 DEF Id!Delivers, Alive, Spent, AskMap, MadeMap, HoldMap, AskOf, MadeOf, HoldOf
<1>3. QED
  BY <1>2 DEF Id!IdNext

LEMMA IdObtains ==
  ASSUME NEW c \in Callers, NEW g \in Gens, WorldSame, \A h \in Gens : LivesSame(h), OthersSame(c),
         Accepting, Living(g), AskOf(c) # None => Named(g).key = AskOf(c),
         MadeOf(c) = None, MadeOf(c)' = None, HoldOf(c) = None, HoldOf(c)' = g, AskOf(c)' = None
  PROVE  Id!IdNext
<1>1. /\ Accepting /\ MadeMap[c] = None /\ HoldMap[c] = None
      /\ HoldMap' = [HoldMap EXCEPT ![c] = g] /\ AskMap' = [AskMap EXCEPT ![c] = None]
      /\ UNCHANGED <<Accepting, Alive, Spent, MadeMap>>
  BY CallerMoves, CallerKeeps, CallerShows, AliveSame, SpentSame DEF WorldSame
<1>2. \E a \in Alive : a.gen = g /\ (AskMap[c] # None => a.key = AskMap[c])
  <2>1. Named(g) \in Alive /\ Named(g).gen = g
    BY InAlive DEF Named
  <2>2. QED
    BY <2>1, CallerShows
<1>3. Id!Obtains(c, g)
  BY <1>1, <1>2
     DEF Id!Obtains, Id!Empty, Alive, Spent, AskMap, MadeMap, HoldMap, AskOf, MadeOf, HoldOf
<1>4. QED
  BY <1>3 DEF Id!IdNext

LEMMA IdShares ==
  ASSUME NEW c \in Callers, NEW d \in Callers, WorldSame, \A g \in Gens : LivesSame(g),
         OthersSame(d), HoldOf(c) # None, HoldOf(d)' = HoldOf(c),
         AskOf(d) = None, AskOf(d)' = None, MadeOf(d) = None, MadeOf(d)' = None, HoldOf(d) = None
  PROVE  Id!IdNext
<1>1. /\ HoldMap[c] # None /\ MadeMap[d] = None /\ HoldMap[d] = None /\ AskMap[d] = None
      /\ HoldMap' = [HoldMap EXCEPT ![d] = HoldMap[c]]
      /\ UNCHANGED <<Accepting, Alive, Spent, AskMap, MadeMap>>
  BY CallerMoves, CallerKeeps, CallerShows, AliveSame, SpentSame DEF WorldSame
<1>2. Id!Shares(c, d)
  BY <1>1 DEF Id!Shares, Id!Empty, Alive, Spent, AskMap, MadeMap, HoldMap, AskOf, MadeOf, HoldOf
<1>3. QED
  BY <1>2 DEF Id!IdNext

LEMMA IdEnds ==
  ASSUME NEW g \in Gens, ~Living(g)', RestLives(g), WorldSame, \A c \in Callers : CallerSame(c)
  PROVE  Id!IdNext
<1>1. /\ Alive' = {a \in Alive : a.gen # g}
      /\ UNCHANGED <<Accepting, Spent, AskMap, MadeMap, HoldMap>>
  BY AliveGone, SpentSame, CallersStay DEF WorldSame
<1>2. Id!Ends(g)
  BY <1>1 DEF Id!Ends, Id!Gone, Alive, Spent, AskMap, MadeMap, HoldMap, AskOf, MadeOf, HoldOf
<1>3. QED
  BY <1>2 DEF Id!IdNext

-----------------------------------------------------------------------------
\* A step that leaves the domain and the closures alone, and changes at most
\* what one call works on.
LEMMA DomainUntouched ==
  ASSUME UNCHANGED <<domainPhase, creation>> PROVE WorldSame
BY DEF WorldSame, Accepting

LEMMA QuietCall ==
  ASSUME AcquisitionTypeOK, NEW c \in Callers, UNCHANGED <<domainPhase, creation, phase, home>>,
         OthersSame(c), AskOf(c)' \in {AskOf(c), None}, MadeOf(c)' = None, HoldOf(c)' = None,
         UNCHANGED ref \/ Release(c)
  PROVE  Id!IdNext
<1>1. \/ \A g \in Gens : LivesSame(g)
      \/ \E g \in Gens : ~Leased(g)' /\ RestLives(g)
  <2>1. CASE UNCHANGED ref
    BY <2>1, LeasesStay
  <2>2. CASE Release(c)
    BY <2>2, LeaseDropped
  <2>3. QED
    BY <2>1, <2>2
<1>2. QED
  BY <1>1, IdLetsGo, DomainUntouched

\* The calls that ask, and what is done without asking.
LEMMA RequestKeepsIdentity ==
  ASSUME InductiveInv, AskInv, NEW c \in Callers, Request(c) PROVE [Id!IdNext]_(Id!idVars)
<1> USE DEF InductiveInv, AcquisitionInv, AcquisitionTypeOK, CallInv, HasRef, Creating
<1>1. UNCHANGED <<domainPhase, creation, phase, home>>
  BY RequestLeavesDomain DEF Request, Begin, BeginUnique, BeginGet, UpgradeWeak, CloneRef, DropRef, dvars,
     domainVars, genVars
<1>2. ASSUME NEW k \in Keys, (\E o \in Ops : Begin(c, o, k)) \/ BeginGet(c, k) PROVE Id!IdNext
  <2>1. /\ pc[c] = "idle" /\ pc'[c] \in {"claim", "fetch"} /\ AskOf(c)' = k
        /\ OthersSame(c) /\ UNCHANGED ref
    BY <1>2 DEF Begin, BeginGet, OthersSame, CallerSame, AskOf, MadeOf, HoldOf
  <2>2. AskOf(c) = None
    BY <2>1 DEF AskInv, AskOf
  <2>3. MadeOf(c) = None /\ MadeOf(c)' = None /\ HoldOf(c) = None /\ HoldOf(c)' = None
    BY <2>1 DEF MadeOf, HoldOf, Established
  <2>4. QED
    BY <1>1, <2>1, <2>2, <2>3, LeasesStay, DomainUntouched, IdAsks
<1>3. CASE BeginUnique(c)
  <2>1. /\ AskOf(c)' = None /\ OthersSame(c) /\ UNCHANGED ref
        /\ MadeOf(c)' = None /\ HoldOf(c)' = None
    BY <1>3 DEF BeginUnique, OthersSame, CallerSame, AskOf, MadeOf, HoldOf, Established
  <2>2. QED
    BY <1>1, <2>1, QuietCall
<1>4. ASSUME NEW g \in Gens, UpgradeWeak(c, g) PROVE UNCHANGED Id!idVars
  <2>1. ref[c] = None
    BY <1>4 DEF UpgradeWeak
  <2>2. \A h \in Gens : LivesSame(h)
    BY <1>1, <1>4, <2>1, LeaseTaken DEF UpgradeWeak
  <2>3. \A d \in Callers : CallerSame(d)
    BY <1>4 DEF UpgradeWeak, CallerSame, AskOf, MadeOf, HoldOf, Established
  <2>4. QED
    BY <1>1, <2>2, <2>3, IdHidden, DomainUntouched
<1>5. ASSUME NEW d \in Callers, CloneRef(c, d) PROVE Id!IdNext
  <2>1. /\ pc[c] = "holding" /\ pc[d] = "idle" /\ ref[c] \in Gens /\ ref[d] = None
        /\ Take(d, ref[c]) /\ Leased(ref[c])
    BY <1>5 DEF CloneRef, Leased
  <2>2. \A h \in Gens : LivesSame(h)
    BY <1>1, <2>1, LeaseTaken
  <2>3. OthersSame(d) /\ HoldOf(c) # None /\ HoldOf(d)' = HoldOf(c)
    BY <1>5, <2>1 DEF CloneRef, OthersSame, CallerSame, AskOf, MadeOf, HoldOf, Established
  <2>4. AskOf(d) = None /\ AskOf(d)' = None
    BY <1>5, <2>1 DEF CloneRef, AskInv, AskOf
  <2>5. MadeOf(d) = None /\ MadeOf(d)' = None /\ HoldOf(d) = None
    BY <1>5, <2>1 DEF CloneRef, MadeOf, HoldOf, Established
  <2>6. QED
    BY <1>1, <2>2, <2>3, <2>4, <2>5, IdShares, DomainUntouched
<1>6. CASE DropRef(c)
  <2>1. /\ AskOf(c)' = AskOf(c) /\ OthersSame(c) /\ Release(c)
        /\ MadeOf(c)' = None /\ HoldOf(c)' = None
    BY <1>6 DEF DropRef, OthersSame, CallerSame, AskOf, MadeOf, HoldOf, Established
  <2>2. QED
    BY <1>1, <2>1, QuietCall
<1>7. QED
  BY <1>2, <1>3, <1>4, <1>5, <1>6 DEF Request

\* What a call does before it has established anything, and when it fails.
LEMMA SearchKeepsIdentity ==
  ASSUME InductiveInv, NEW c \in Callers,
         \/ ClaimVacant(c) \/ ClaimStarting(c) \/ ClaimDead(c) \/ DropOccupied(c)
         \/ CreateCheck(c) \/ BuildPanics(c) \/ Abandon(c)
         \/ RejectNew(c) \/ GuardRemove(c) \/ GuardNotify(c) \/ Fetch(c)
         \/ Probe(c) /\ UNCHANGED ref
         \/ (ClaimDecide(c) \/ Hand(c)) /\ Release(c)
  PROVE  Id!IdNext
<1> USE DEF InductiveInv, AcquisitionInv, AcquisitionTypeOK, CallInv, HasRef, Creating
<1> DEFINE Searching ==
      /\ UNCHANGED <<domainPhase, creation, phase, home>>
      /\ OthersSame(c) /\ AskOf(c)' \in {AskOf(c), None}
      /\ MadeOf(c)' = None /\ HoldOf(c)' = None
      /\ UNCHANGED ref \/ Release(c)
<1>1. SUFFICES Searching
  BY QuietCall
<1> USE DEF dvars, domainVars, genVars, OthersSame, CallerSame, AskOf, MadeOf, HoldOf, Established
<1>2. CASE ClaimVacant(c) \/ ClaimStarting(c) \/ ClaimDead(c)
  BY <1>2 DEF ClaimVacant, Reserve, ClaimStarting, ClaimDead, Finds, Own
<1>3. CASE DropOccupied(c) \/ Fetch(c) \/ (Probe(c) /\ UNCHANGED ref)
  BY <1>3 DEF DropOccupied, Fetch, Probe
<1>4. CASE CreateCheck(c) \/ BuildPanics(c) \/ Abandon(c)
  BY <1>4 DEF CreateCheck, BuildPanics, Abandon
<1>5. CASE RejectNew(c)
  BY <1>5 DEF RejectNew, Start
<1>6. CASE GuardRemove(c)
  BY <1>6 DEF GuardRemove
<1>7. CASE GuardNotify(c)
  BY <1>7 DEF GuardNotify, NotifyListeners
<1>8. CASE ClaimDecide(c) /\ Release(c)
  BY <1>8 DEF ClaimDecide, Own
<1>9. CASE Hand(c) /\ Release(c)
  BY <1>9 DEF Hand
<1>10. QED
  BY <1>2, <1>3, <1>4, <1>5, <1>6, <1>7, <1>8, <1>9

\* An upgrade to look at what was found: one more lease, nothing the caller sees.
LEMMA UpgradeKeepsIdentity ==
  ASSUME InductiveInv, NEW c \in Callers, ClaimUpgrade(c) \/ (Probe(c) /\ ~UNCHANGED ref)
  PROVE  UNCHANGED Id!idVars
<1> USE DEF InductiveInv, AcquisitionInv, AcquisitionTypeOK, CallInv, HasRef, Creating
<1>1. PICK g \in Gens : Take(c, g) /\ Leased(g)
  BY DEF ClaimUpgrade, Finds, Probe
<1>2. /\ ref[c] = None /\ UNCHANGED <<domainPhase, creation, phase, home>>
      /\ \A d \in Callers : CallerSame(d)
  BY DEF ClaimUpgrade, Finds, Probe, dvars, domainVars, genVars, CallerSame, AskOf, MadeOf, HoldOf,
         Established
<1>3. QED
  BY <1>1, <1>2, LeaseTaken, IdHidden, DomainUntouched

\* What a caller found by its identity, or knew, is the generation it asked for:
\* the slot it locked still leads to it.
LEMMA FoundIsAsked ==
  ASSUME InductiveInv, AskInv, NEW c \in Callers, pc[c] \in {"claimed", "probed", "weak"},
         TryAcquire(ref[c])
  PROVE  /\ ref[c] \in Gens /\ Living(ref[c])
         /\ AskOf(c) # None => Named(ref[c]).key = AskOf(c)
<1> USE DEF InductiveInv, AcquisitionInv, AcquisitionTypeOK, CallInv, HasRef, Creating
<1>1. PICK g \in Gens : g = ref[c]
  OBVIOUS
<1>2. phase[g] = "Active" /\ Leased(g) /\ Accepting /\ monitor[g] # "none"
  BY <1>1 DEF TryAcquire, Leased, CreatorInv
<1>3. creation[g] = "registered" /\ ~Cleaned(g)
  BY <1>2 DEF IInv, GenInv, TypeOK, Cleaned
<1>4. ASSUME pc[c] \in {"claimed", "probed"} PROVE home[g] # None /\ home[g].key = loc[c].key
  <2>1. PICK s \in Slots : s = loc[c].slot /\ slot[s].state = "Active" /\ slot[s].gen = g
    BY <1>1, <1>4 DEF LockInv
  <2>2. home[g] # None /\ home[g].slot = s
    BY <1>3, <2>1 DEF ActiveInv
  <2>3. entries[home[g].key] = s
    BY <1>2, <2>2 DEF LeasedIsRegistered
  <2>4. QED
    BY <2>1, <2>2, <2>3 DEF KeyInv
<1>5. ASSUME pc[c] = "weak" PROVE AskOf(c) = None
  BY <1>5 DEF AskInv, AskOf
<1>6. QED
  BY <1>1, <1>2, <1>3, <1>4, <1>5 DEF Living, Named, AskOf

LEMMA FindKeepsIdentity ==
  ASSUME InductiveInv, AskInv, NEW c \in Callers, (ClaimDecide(c) \/ Hand(c)) /\ ~Release(c)
  PROVE  [Id!IdNext]_(Id!idVars)
<1> USE DEF InductiveInv, AcquisitionInv, AcquisitionTypeOK, CallInv, HasRef, Creating
<1>1. /\ pc[c] \in {"claimed", "probed", "weak"} /\ TryAcquire(ref[c]) /\ UNCHANGED ref
      /\ UNCHANGED <<domainPhase, creation, phase, home>>
      /\ ReturnLease(c) \/ (Jump(c, "occupied") /\ UNCHANGED loc)
  BY DEF ClaimDecide, Hand, dvars, domainVars, genVars
<1>2. ref[c] \in Gens /\ Living(ref[c]) /\ (AskOf(c) # None => Named(ref[c]).key = AskOf(c))
  BY <1>1, FoundIsAsked
<1>3. CASE ReturnLease(c)
  <2>1. /\ OthersSame(c) /\ AskOf(c)' = None /\ MadeOf(c) = None /\ MadeOf(c)' = None
        /\ HoldOf(c) = None /\ HoldOf(c)' = ref[c]
    BY <1>1, <1>3 DEF OthersSame, CallerSame, AskOf, MadeOf, HoldOf, Established
  <2>2. QED
    BY <1>1, <1>2, <2>1, LeasesStay, DomainUntouched, IdObtains DEF TryAcquire
<1>4. CASE Jump(c, "occupied") /\ UNCHANGED loc
  <2>1. \A d \in Callers : CallerSame(d)
    BY <1>1, <1>4 DEF CallerSame, AskOf, MadeOf, HoldOf, Established
  <2>2. QED
    BY <1>1, <2>1, LeasesStay, DomainUntouched, IdHidden
<1>5. QED
  BY <1>1, <1>3, <1>4

-----------------------------------------------------------------------------
\* The constructor's steps.
LEMMA BuildKeepsIdentity ==
  ASSUME InductiveInv, NEW c \in Callers, NEW g \in Gens, BuildReturns(c, g)
  PROVE  UNCHANGED Id!idVars
<1> USE DEF InductiveInv, AcquisitionInv, AcquisitionTypeOK, CallInv, HasRef, Creating
<1>1. /\ creation[g] = "unborn" /\ creation' = [creation EXCEPT ![g] = "spawned"]
      /\ UNCHANGED <<domainPhase, phase>> /\ ref[c] = None /\ Take(c, g)
      /\ \A h \in Gens \ {g} : home'[h] = home[h]
  BY DEF BuildReturns, Create, domainVars
<1>2. WorldSame
  BY <1>1 DEF WorldSame, Accepting, IInv, TypeOK
<1>3. \A h \in Gens \ {g} : (Leased(h)' <=> Leased(h)) /\ creation'[h] = creation[h]
  BY <1>1 DEF Leased, IInv, TypeOK
<1>4. ~Living(g) /\ ~Living(g)'
  BY <1>1 DEF Living, IInv, TypeOK
<1>5. \A h \in Gens : LivesSame(h)
  BY <1>1, <1>3, <1>4 DEF LivesSame, Living
<1>6. \A d \in Callers : CallerSame(d)
  BY DEF BuildReturns, CallerSame, AskOf, MadeOf, HoldOf, Established
<1>7. QED
  BY <1>2, <1>5, <1>6, IdHidden

\* A refused generation never lived.
LEMMA RefusedKeepsIdentity ==
  ASSUME InductiveInv, NEW c \in Callers,
         \/ pc[c] = "register" /\ Refuse(ref[c]) /\ Jump(c, "refused") /\ UNCHANGED <<loc, ref, home>>
         \/ DropRefused(c)
  PROVE  [Id!IdNext]_(Id!idVars)
<1> USE DEF InductiveInv, AcquisitionInv, AcquisitionTypeOK, CallInv, HasRef, Creating
<1>1. PICK g \in Gens : g = ref[c]
  BY DEF DropRefused
<1>2. CASE pc[c] = "register" /\ Refuse(g) /\ Jump(c, "refused") /\ UNCHANGED <<loc, ref, home>>
  <2>1. /\ creation[g] = "spawned" /\ creation' = [creation EXCEPT ![g] = "refused"]
        /\ UNCHANGED domainPhase /\ \A h \in Gens \ {g} : phase'[h] = phase[h]
    BY <1>2 DEF Refuse, domainVars, IInv, TypeOK
  <2>2. WorldSame /\ \A h \in Gens : LivesSame(h)
    BY <1>2, <2>1 DEF WorldSame, Accepting, LivesSame, Living, Leased, IInv, TypeOK
  <2>3. \A d \in Callers : CallerSame(d)
    BY <1>2 DEF CallerSame, AskOf, MadeOf, HoldOf, Established
  <2>4. QED
    BY <2>2, <2>3, IdHidden
<1>3. CASE DropRefused(c)
  <2>1. creation[g] = "refused" /\ UNCHANGED <<domainPhase, creation, phase>> /\ Release(c)
    BY <1>1, <1>3 DEF DropRefused, Start, CreatorInv, domainVars
  <2>2. \A h \in Gens : home'[h] = home[h] \/ creation[h] # "registered"
    BY <1>1, <1>3, <2>1 DEF DropRefused
  <2>3. OthersSame(c) /\ AskOf(c)' \in {AskOf(c), None} /\ MadeOf(c)' = None /\ HoldOf(c)' = None
    BY <1>3 DEF DropRefused, OthersSame, CallerSame, AskOf, MadeOf, HoldOf, Established
  <2>4. QED
    BY <2>1, <2>2, <2>3, LeaseDropped, DomainUntouched, IdLetsGo
<1>4. QED
  BY <1>1, <1>2, <1>3

\* From its registration to its return the call keeps what it established.
LEMMA EstablishedKeepsIdentity ==
  ASSUME InductiveInv, NEW c \in Callers,
         SuperviseNew(c) \/ AcceptCheck(c) \/ PublishActive(c) \/ Announce(c)
  PROVE  [Id!IdNext]_(Id!idVars)
<1> USE DEF InductiveInv, AcquisitionInv, AcquisitionTypeOK, CallInv
<1>1. UNCHANGED <<domainPhase, creation, phase, ref, home>>
  BY DEF SuperviseNew, Supervise, AcceptCheck, PublishActive, Announce, dvars, domainVars, genVars
<1>2. \A d \in Callers : CallerSame(d)
  BY DEF SuperviseNew, AcceptCheck, PublishActive, Announce, NotifyListeners, CallerSame, AskOf,
         MadeOf, HoldOf, Established
<1>3. QED
  BY <1>1, <1>2, LeasesStay, DomainUntouched, IdHidden

LEMMA DeliveryKeepsIdentity ==
  ASSUME InductiveInv, NEW c \in Callers, StartTask(c) PROVE Id!IdNext
<1> USE DEF InductiveInv, AcquisitionInv, AcquisitionTypeOK, CallInv, HasRef, Creating
<1>1. UNCHANGED <<domainPhase, creation, phase, ref, home>>
  BY DEF StartTask, Start, domainVars
<1>2. /\ OthersSame(c) /\ MadeOf(c) # None /\ AskOf(c)' = None /\ MadeOf(c)' = None
      /\ HoldOf(c)' = MadeOf(c)
  BY DEF StartTask, OthersSame, CallerSame, AskOf, MadeOf, HoldOf, Established
<1>3. QED
  BY <1>1, <1>2, LeasesStay, DomainUntouched, IdDelivers

-----------------------------------------------------------------------------
\* The registration establishes a generation: no other of its identity lives,
\* or two of them would be active under one key.
LEMMA RegisterKeepsIdentity ==
  ASSUME InductiveInv, InductiveInv', AskInv, NEW c \in Callers,
         pc[c] = "register", Register(ref[c]), Jump(c, "supervise"), UNCHANGED <<loc, ref, home>>
  PROVE  Id!IdNext
<1> USE DEF InductiveInv, AcquisitionInv, AcquisitionTypeOK, CallInv, HasRef, Creating
<1>1. PICK g \in Gens : g = ref[c]
  OBVIOUS
<1>2. /\ creation[g] = "spawned" /\ creation' = [creation EXCEPT ![g] = "registered"]
      /\ phase' = [phase EXCEPT ![g] = "Active"] /\ Accepting /\ UNCHANGED domainPhase
  BY <1>1 DEF Register
<1>3. \A h \in Gens \ {g} : LivesSame(h)
  BY <1>2 DEF LivesSame, Living, Leased, IInv, TypeOK
<1>4. ~Living(g) /\ Living(g)'
  BY <1>1, <1>2 DEF Living, Leased, IInv, TypeOK
<1>5. Named(g)' = [gen |-> g, key |-> AskOf(c)]
  <2>1. CASE AskOf(c) = None
    <3>1. loc[c].op = "unique"
      BY <2>1 DEF AskOf
    <3>2. home[g] = None
      BY <1>1, <3>1 DEF CreatorInv
    <3>3. QED
      BY <2>1, <3>2 DEF Named
  <2>2. CASE AskOf(c) # None
    <3>1. Owner(c)
      BY <2>2 DEF AskInv, AskOf, Owner
    <3>2. ~Cleaned(g)
      BY <1>2 DEF IInv, GenInv, Cleaned
    <3>3. home[g] # None /\ home[g].key = loc[c].key
      BY <1>1, <3>1, <3>2 DEF TicketInv, TicketOf
    <3>4. QED
      BY <3>3 DEF Named, AskOf
  <2>3. QED
    BY <2>1, <2>2
<1>6. AskOf(c) # None => \A a \in Alive : a.key # AskOf(c)
  <2>1. SUFFICES ASSUME AskOf(c) # None, NEW h \in Gens, Living(h), Named(h).key = AskOf(c)
                 PROVE  FALSE
    BY InAlive
  <2>2. h # g /\ Living(h)' /\ home'[h] = home[h]
    BY <1>3, <1>4, <2>1 DEF LivesSame
  <2>3. home[h] # None /\ home'[g] # None /\ home'[g].key = home'[h].key
    BY <1>5, <2>1, <2>2 DEF Named
  <2>4. QED
    BY <1>4, <2>2, <2>3 DEF OneActivePerKey, Living
<1>7. Alive' = Alive \cup {[gen |-> g, key |-> AskOf(c)]}
  <2>1. \A a : a \in Alive' <=> a \in Alive \/ a = [gen |-> g, key |-> AskOf(c)]
    BY <1>3, <1>4, <1>5, InAlive DEF LivesSame, Named
  <2>2. QED
    BY <2>1
<1>8. g \notin Spent /\ Spent' = Spent \cup {g} /\ UNCHANGED Accepting
  BY <1>2 DEF Spent, Accepting, IInv, TypeOK
<1>9. /\ OthersSame(c) /\ AskOf(c)' = AskOf(c) /\ MadeOf(c) = None /\ MadeOf(c)' = g
      /\ HoldOf(c) = None /\ HoldOf(c)' = None
  BY <1>1 DEF OthersSame, CallerSame, AskOf, MadeOf, HoldOf, Established
<1>10. /\ AskMap[c] = AskOf(c) /\ MadeMap[c] = None /\ HoldMap[c] = None
       /\ MadeMap' = [MadeMap EXCEPT ![c] = g] /\ UNCHANGED <<AskMap, HoldMap>>
  BY <1>9, CallerMoves, CallerKeeps, CallerShows
<1>11. Id!Establishes(c, g)
  BY <1>2, <1>6, <1>7, <1>8, <1>10
     DEF Id!Establishes, Id!Empty, Alive, Spent, AskMap, MadeMap, HoldMap, AskOf, MadeOf, HoldOf
<1>12. QED
  BY <1>11 DEF Id!IdNext

-----------------------------------------------------------------------------
\* The domain's steps end generations and stop the domain.
LEMMA EndKeepsIdentity ==
  ASSUME InductiveInv, NEW g \in Gens, phase'[g] # "Active",
         \A h \in Gens \ {g} : phase'[h] = phase[h],
         UNCHANGED <<avars, domainPhase, creation>>
  PROVE  Id!IdNext
<1>1. ~Living(g)' /\ RestLives(g)
  BY DEF Living, Leased, RestLives, LivesSame
<1>2. \A c \in Callers : CallerSame(c)
  BY DEF CallerSame, AskOf, MadeOf, HoldOf
<1>3. QED
  BY <1>1, <1>2, IdEnds, DomainUntouched

LEMMA DomainKeepsIdentity ==
  ASSUME InductiveInv, UNCHANGED <<avars, creation, phase>>, Accepting' => Accepting
  PROVE  [Id!IdNext]_(Id!idVars)
<1>1. /\ \A g \in Gens : LivesSame(g)
      /\ \A c \in Callers : CallerSame(c)
      /\ Spent' = Spent
  BY LeasesStay DEF CallerSame, AskOf, MadeOf, HoldOf, Spent
<1>2. UNCHANGED <<Alive, Spent, AskMap, MadeMap, HoldMap>>
  BY <1>1, AliveSame, CallersStay
<1>3. CASE Accepting' = Accepting
  BY <1>1, <1>3, IdHidden DEF WorldSame
<1>4. CASE Accepting' # Accepting
  <2>1. Accepting /\ Accepting' = FALSE
    BY <1>4 DEF Accepting
  <2>2. Id!Stops
    BY <1>2, <2>1 DEF Id!Stops, Alive, Spent, AskMap, MadeMap, HoldMap, AskOf, MadeOf, HoldOf
  <2>3. QED
    BY <2>2 DEF Id!IdNext
<1>5. QED
  BY <1>3, <1>4

LEMMA GenerationKeepsIdentity ==
  ASSUME InductiveInv, NEW g \in Gens,
         LastLeaseDropped(g) \/ Settle(g) \/ (TaskStep(g) /\ UNCHANGED avars)
  PROVE  [Id!IdNext]_(Id!idVars)
<1> USE DEF InductiveInv, AcquisitionInv, IInv, TypeOK, domainVars
<1>1. CASE LastLeaseDropped(g)
  <2>1. /\ phase'[g] # "Active" /\ \A h \in Gens \ {g} : phase'[h] = phase[h]
        /\ UNCHANGED <<avars, domainPhase, creation>>
    BY <1>1 DEF LastLeaseDropped, EntryDrop, CancelPhase
  <2>2. QED
    BY <2>1, EndKeepsIdentity
<1>2. CASE Finish(g) /\ UNCHANGED avars
  <2>1. /\ phase'[g] # "Active" /\ \A h \in Gens \ {g} : phase'[h] = phase[h]
        /\ UNCHANGED <<avars, domainPhase, creation>>
    BY <1>2 DEF Finish
  <2>2. QED
    BY <2>1, EndKeepsIdentity
<1>3. CASE CleanUp(g)
  <2>1. /\ phase[g] = "Finished" /\ UNCHANGED <<domainPhase, creation, phase, callVars>>
        /\ \A h \in Gens \ {g} : home'[h] = home[h]
    BY <1>3 DEF CleanUp, Cleanup, GenInv, AcquisitionTypeOK
  <2>2. \A h \in Gens : LivesSame(h)
    BY <2>1 DEF LivesSame, Living, Leased
  <2>3. \A c \in Callers : CallerSame(c)
    BY <2>1 DEF CallerSame, AskOf, MadeOf, HoldOf
  <2>4. QED
    BY <2>1, <2>2, <2>3, IdHidden, DomainUntouched
<1>4. CASE (Publish(g) \/ Unlist(g) \/ TaskFinished(g) \/ NotifyQuiescent(g) \/ TaskStep(g))
           /\ UNCHANGED avars
  <2>1. UNCHANGED <<avars, creation, phase>> /\ (Accepting' => Accepting)
    BY <1>4 DEF Publish, Unlist, TaskFinished, NotifyQuiescent, TaskStep, BeginPoll, EndPoll, Kill,
                BodyReturns, Accepting
  <2>2. QED
    BY <2>1, DomainKeepsIdentity
<1>5. QED
  BY <1>1, <1>2, <1>3, <1>4 DEF Settle

LEMMA StopperKeepsIdentity ==
  ASSUME InductiveInv, NEW s \in Stoppers, StopperStep(s) \/ \E m \in Calls : Call(s, m),
         UNCHANGED avars
  PROVE  [Id!IdNext]_(Id!idVars)
<1> USE DEF InductiveInv, AcquisitionInv, IInv, TypeOK, domainVars, genVars
<1>1. ASSUME NEW g \in Gens, Signal(s, g) PROVE Id!IdNext
  <2>1. /\ phase'[g] # "Active" /\ \A h \in Gens \ {g} : phase'[h] = phase[h]
        /\ UNCHANGED <<avars, domainPhase, creation>>
    BY <1>1 DEF Signal, CancelPhase
  <2>2. QED
    BY <2>1, EndKeepsIdentity
<1>2. CASE ~\E g \in Gens : Signal(s, g)
  <2>1. UNCHANGED <<avars, creation, phase>> /\ (Accepting' => Accepting)
    BY <1>2 DEF StopperStep, Call, Lock, Snapshot, CancelDone, SnapshotAborts, AbortDone, Subscribe,
                Check, Poll, Awake, Abort, Accepting
  <2>2. QED
    BY <2>1, DomainKeepsIdentity
<1>3. QED
  BY <1>1, <1>2

-----------------------------------------------------------------------------
LEMMA StepKeepsIdentity ==
  ASSUME InductiveInv, InductiveInv', AskInv, [Next]_vars PROVE [Id!IdNext]_(Id!idVars)
<1>1. CASE UNCHANGED vars
  <2>1. UNCHANGED <<avars, creation, phase, domainPhase>>
    BY <1>1 DEF vars, dvars, domainVars, genVars
  <2>2. QED
    BY <2>1, DomainKeepsIdentity DEF Accepting
<1>2. ASSUME NEW c \in Callers, Request(c) \/ Abandon(c) PROVE [Id!IdNext]_(Id!idVars)
  BY <1>2, RequestKeepsIdentity, SearchKeepsIdentity
<1>3. ASSUME NEW c \in Callers, Build(c) PROVE [Id!IdNext]_(Id!idVars)
  BY <1>3, SearchKeepsIdentity, BuildKeepsIdentity DEF Build
<1>4. ASSUME NEW c \in Callers, Proceed(c) PROVE [Id!IdNext]_(Id!idVars)
  <2>1. CASE RegisterOrRefuse(c)
    BY <2>1, RegisterKeepsIdentity, RefusedKeepsIdentity DEF RegisterOrRefuse
  <2>2. CASE DropRefused(c) \/ SuperviseNew(c) \/ AcceptCheck(c) \/ PublishActive(c)
             \/ Announce(c) \/ StartTask(c)
    BY <2>2, RefusedKeepsIdentity, EstablishedKeepsIdentity, DeliveryKeepsIdentity
  <2>3. CASE ClaimUpgrade(c) \/ Probe(c) \/ ClaimDecide(c) \/ Hand(c)
    BY <2>3, UpgradeKeepsIdentity, FindKeepsIdentity, SearchKeepsIdentity
  <2>4. CASE ClaimVacant(c) \/ ClaimStarting(c) \/ ClaimDead(c) \/ DropOccupied(c)
             \/ CreateCheck(c) \/ RejectNew(c) \/ GuardRemove(c) \/ GuardNotify(c) \/ Fetch(c)
    BY <2>4, SearchKeepsIdentity
  <2>5. QED
    BY <1>4, <2>1, <2>2, <2>3, <2>4 DEF Proceed
<1>5. ASSUME NEW g \in Gens, LastLeaseDropped(g) \/ Settle(g) \/ (TaskStep(g) /\ UNCHANGED avars)
      PROVE  [Id!IdNext]_(Id!idVars)
  BY <1>5, GenerationKeepsIdentity
<1>6. ASSUME NEW s \in Stoppers, StopperStep(s) \/ \E m \in Calls : Call(s, m), UNCHANGED avars
      PROVE  [Id!IdNext]_(Id!idVars)
  BY <1>6, StopperKeepsIdentity
<1>7. QED
  BY <1>1, <1>2, <1>3, <1>4, <1>5, <1>6 DEF Next

LEMMA InitIdentity == Init => AskInv /\ Id!IdInit
<1> SUFFICES ASSUME Init PROVE AskInv /\ Id!IdInit
  OBVIOUS
<1>1. Alive = {} /\ Spent = {} /\ Accepting = TRUE
  BY InAlive DEF Init, DomainInit, Living, Spent, Accepting
<1>2. \A c \in Callers : AskOf(c) = None /\ MadeOf(c) = None /\ HoldOf(c) = None
  BY DEF Init, AskOf, MadeOf, HoldOf, Established
<1>3. /\ AskMap = [c \in Callers |-> None] /\ MadeMap = [c \in Callers |-> None]
      /\ HoldMap = [c \in Callers |-> None]
  BY <1>2 DEF AskMap, MadeMap, HoldMap
<1>4. AskInv
  BY DEF Init, AskInv
<1>5. QED
  BY <1>1, <1>3, <1>4 DEF Id!IdInit, Alive, Spent, AskMap, MadeMap, HoldMap, AskOf, MadeOf, HoldOf

\* However claims, probes, upgrades, constructions, cleanups and shutdowns
\* interleave, for any number of callers, keys, slots and generations: a call
\* for an identity returns the one living generation of that identity or the one
\* it established, no identity has two, and what ended is never found again.
THEOREM AcquisitionKeepsIdentity == Spec => KeepsIdentity
<1>1. InductiveInv /\ AskInv /\ [Next]_vars => AskInv'
  BY AskInvKept
<1>2. InductiveInv /\ InductiveInv' /\ AskInv /\ [Next]_vars => [Id!IdNext]_(Id!idVars)
  BY StepKeepsIdentity
<1>3. QED
  BY <1>1, <1>2, InitIdentity, Invariance, PTL DEF Spec, KeepsIdentity, Id!IdSpec
=============================================================================
