------------------------ MODULE Acquisition_invariant ------------------------
(***************************************************************************)
(* AcquisitionInv is inductive: every step of module Acquisition keeps it. *)
(*                                                                         *)
(* Most steps of a call change neither the registry nor the domain, and    *)
(* give up nothing another caller relies on: they are Quiet, and the lemma *)
(* QuietInv leaves them little to show.  The others are done one by one.   *)
(***************************************************************************)
EXTENDS Acquisition, Domain_proofs

\* The helpers and record sets every step is written with.
USE OpsAssumption, NoneAssumption
    DEF SlotStates, Locals, Tickets, Canonical, Locations, Local, Aim, Idle, Unused, Jump,
        Return, ReturnLease, Take, Release, Fail, regVars, callVars, avars

\* No lease, ownership or slot appears or disappears.
Quiet ==
  /\ UNCHANGED <<dvars, regVars, home>>
  /\ \A g \in Gens : Leased(g)' => Leased(g)
  /\ \A d \in Callers :
       /\ Owner(d)' <=> Owner(d)
       /\ Owner(d) => /\ loc'[d] = loc[d] /\ ref'[d] = ref[d]
                      /\ pc'[d] \in Creating <=> pc[d] \in Creating
                      /\ pc'[d] = "guard" => pc[d] \notin Creating
                      /\ pc[d] = "guard" => pc'[d] = "guard"
       /\ loc'[d].slot # None =>
            \/ loc'[d].slot = loc[d].slot /\ loc'[d].key = loc[d].key
            \/ loc'[d].key \in Keys /\ loc'[d].slot = entries[loc'[d].key]

\* Waiting callers keep their slot, and notifiers stay to notify it.
WaitersKept ==
  \A d \in Callers :
    /\ pc'[d] = "listen" => pc[d] = "listen" /\ loc'[d].slot = loc[d].slot
    /\ Notifier(d) => Notifier(d)' /\ loc'[d].slot = loc[d].slot

\* No generation becomes active and leased, or gets a key.
NoNewActive ==
  \A g \in Gens : home'[g] # None /\ Leased(g)' /\ phase'[g] = "Active" =>
    home[g] # None /\ home'[g].key = home[g].key /\ Leased(g) /\ phase[g] = "Active"

\* What a caller of cancel(), shutdown() or terminate() changes of a generation:
\* it signals and aborts registered ones, and only while the domain stops.
StopperEffect ==
  /\ UNCHANGED <<creation, gate, task, monitor, outcome, live>>
  /\ aborted \subseteq aborted'
  /\ Accepting' => Accepting /\ aborted' = aborted
  /\ \A g \in Gens :
       /\ g \in aborted' \ aborted => creation[g] = "registered"
       /\ phase'[g] # phase[g] =>
            creation[g] = "registered" /\ phase'[g] = "Cancelling" /\ ~Accepting'

-----------------------------------------------------------------------------
LEMMA WaitersKeptInv ==
  ASSUME WaiterHasNotifier, WaitersKept PROVE WaiterHasNotifier'
  BY DEF WaiterHasNotifier, WaitersKept

LEMMA OneActiveKeptInv ==
  ASSUME OneActivePerKey, NoNewActive PROVE OneActivePerKey'
  BY DEF OneActivePerKey, NoNewActive

LEMMA OneActiveWhileAccepting ==
  ASSUME LeasedIsRegistered', HomeInv', Accepting'
  PROVE  OneActivePerKey'
  BY DEF OneActivePerKey, LeasedIsRegistered, HomeInv

LEMMA QuietInv ==
  ASSUME AcquisitionInv, Quiet, AcquisitionTypeOK', CallInv', LockInv', CreatorInv',
         WaiterHasNotifier'
  PROVE  AcquisitionInv'
<1> USE DEF AcquisitionInv, Quiet, dvars, domainVars, genVars, stopVars
<1>1. IInv'
  BY DEF IInv, TypeOK, GenInv, StopInv, ShutdownMeansTerminated, NoLostWakeup,
         ShutdownHasAnEnder, SupervisorFree, CancelSignalsEveryTask
<1>2. BirthInv' /\ HomeInv' /\ ActiveInv'
  BY DEF BirthInv, HomeInv, ActiveInv, Accepting, Cleaned
<1>3. KeyInv'
  BY DEF KeyInv, AcquisitionTypeOK
<1>4. OwnerInv'
  BY DEF OwnerInv, Accepting
<1>5. StartingInv'
  BY DEF StartingInv
<1>6. TicketInv'
  <2> SUFFICES ASSUME NEW c \in Callers, Owner(c)'
               PROVE  /\ \A g \in Gens : TicketOf(c, g)' =>
                           IF pc'[c] = "guard" THEN ~Accepting' ELSE ref'[c] = g
                      /\ pc'[c] \in Creating =>
                           IF home'[ref'[c]] = None
                           THEN Cleaned(ref[c])' /\ entries'[loc'[c].key] # loc'[c].slot
                           ELSE TicketOf(c, ref[c])' /\ home'[ref'[c]].key = loc'[c].key
    BY DEF TicketInv
  <2>1. /\ Owner(c) /\ loc'[c] = loc[c] /\ ref'[c] = ref[c]
        /\ pc'[c] \in Creating <=> pc[c] \in Creating
        /\ pc'[c] = "guard" => pc[c] \notin Creating
        /\ pc[c] = "guard" => pc'[c] = "guard"
    OBVIOUS
  <2>2. pc[c] \notin Creating \cup {"guard"} => ref[c] = None
    BY <2>1 DEF Owner, CallInv, HasRef, Creating
  <2>3. pc[c] \in Creating =>
          IF home'[ref'[c]] = None
          THEN Cleaned(ref[c])' /\ entries'[loc'[c].key] # loc'[c].slot
          ELSE TicketOf(c, ref[c])' /\ home'[ref'[c]].key = loc'[c].key
    BY <2>1 DEF TicketInv, TicketOf, Cleaned
  <2>4. ASSUME NEW g \in Gens, TicketOf(c, g)'
        PROVE  IF pc'[c] = "guard" THEN ~Accepting' ELSE ref'[c] = g
    <3>1. TicketOf(c, g) /\ (Accepting' <=> Accepting)
      BY <2>1, <2>4 DEF TicketOf, Accepting
    <3>2. IF pc[c] = "guard" THEN ~Accepting ELSE ref[c] = g
      BY <2>1, <3>1 DEF TicketInv
    <3>3. g # None
      OBVIOUS
    <3>4. QED
      BY <2>1, <2>2, <3>1, <3>2, <3>3 DEF Creating
  <2>5. QED
    BY <2>1, <2>3, <2>4
<1>7. LeasedIsRegistered'
  BY DEF LeasedIsRegistered, Accepting
<1>8. OneActivePerKey'
  BY DEF OneActivePerKey
<1>9. LeaseKeepsAlive' /\ OutcomeAfterCleanup'
  BY DEF LeaseKeepsAlive, OutcomeAfterCleanup, Accepting
<1>10. QED
  BY <1>1, <1>2, <1>3, <1>4, <1>5, <1>6, <1>7, <1>8, <1>9

-----------------------------------------------------------------------------
\* The quiet steps.

LEMMA BeginKeeps ==
  ASSUME AcquisitionInv, NEW c \in Callers, NEW o \in Ops, NEW k \in Keys,
         Begin(c, o, k)
  PROVE  AcquisitionInv'
<1> USE DEF AcquisitionInv, AcquisitionTypeOK, dvars, domainVars, genVars, Accepting,
            Begin
<1>1. AcquisitionTypeOK'
  OBVIOUS
<1>2. CallInv' /\ LockInv'
  BY DEF CallInv, HasRef, Creating, LockInv
<1>3. CreatorInv' /\ Quiet
  BY DEF HasRef, Creating, CreatorInv, Leased, Quiet, Owner
<1>4. WaiterHasNotifier'
  BY DEF WaiterHasNotifier, Notifier, Owner
<1> HIDE DEF AcquisitionInv, AcquisitionTypeOK, dvars, domainVars, genVars, Accepting,
             Begin
<1>5. QED
  BY <1>1, <1>2, <1>3, <1>4, QuietInv

LEMMA BeginUniqueKeeps ==
  ASSUME AcquisitionInv, NEW c \in Callers, BeginUnique(c)
  PROVE  AcquisitionInv'
<1> USE DEF AcquisitionInv, AcquisitionTypeOK, dvars, domainVars, genVars, Accepting,
            BeginUnique
<1>1. AcquisitionTypeOK'
  OBVIOUS
<1>2. CallInv' /\ LockInv'
  BY DEF CallInv, HasRef, Creating, LockInv
<1>3. CreatorInv' /\ Quiet
  BY DEF HasRef, Creating, CreatorInv, Leased, Quiet, Owner
<1>4. WaiterHasNotifier'
  BY DEF WaiterHasNotifier, Notifier, Owner
<1> HIDE DEF AcquisitionInv, AcquisitionTypeOK, dvars, domainVars, genVars, Accepting,
             BeginUnique
<1>5. QED
  BY <1>1, <1>2, <1>3, <1>4, QuietInv

LEMMA BeginGetKeeps ==
  ASSUME AcquisitionInv, NEW c \in Callers, NEW k \in Keys, BeginGet(c, k)
  PROVE  AcquisitionInv'
<1> USE DEF AcquisitionInv, AcquisitionTypeOK, dvars, domainVars, genVars, Accepting,
            BeginGet
<1>1. AcquisitionTypeOK'
  OBVIOUS
<1>2. CallInv' /\ LockInv'
  BY DEF CallInv, HasRef, Creating, LockInv
<1>3. CreatorInv' /\ Quiet
  BY DEF HasRef, Creating, CreatorInv, Leased, Quiet, Owner
<1>4. WaiterHasNotifier'
  BY DEF WaiterHasNotifier, Notifier, Owner
<1> HIDE DEF AcquisitionInv, AcquisitionTypeOK, dvars, domainVars, genVars, Accepting,
             BeginGet
<1>5. QED
  BY <1>1, <1>2, <1>3, <1>4, QuietInv

LEMMA UpgradeWeakKeeps ==
  ASSUME AcquisitionInv, NEW c \in Callers, NEW g \in Gens, UpgradeWeak(c, g)
  PROVE  AcquisitionInv'
<1> USE DEF AcquisitionInv, AcquisitionTypeOK, dvars, domainVars, genVars, Accepting,
            UpgradeWeak
<1>1. AcquisitionTypeOK'
  OBVIOUS
<1>2. CallInv' /\ LockInv'
  BY DEF CallInv, HasRef, LockInv
<1>3. CreatorInv' /\ Quiet
  BY DEF Creating, CreatorInv, Leased, Quiet, Owner
<1>4. WaiterHasNotifier'
  BY DEF WaiterHasNotifier, Notifier, Owner
<1> HIDE DEF AcquisitionInv, AcquisitionTypeOK, dvars, domainVars, genVars, Accepting,
             UpgradeWeak
<1>5. QED
  BY <1>1, <1>2, <1>3, <1>4, QuietInv

LEMMA CloneRefKeeps ==
  ASSUME AcquisitionInv, NEW c \in Callers, NEW d \in Callers, CloneRef(c, d)
  PROVE  AcquisitionInv'
<1> USE DEF AcquisitionInv, AcquisitionTypeOK, dvars, domainVars, genVars, Accepting,
            CloneRef
<1>1. AcquisitionTypeOK'
  OBVIOUS
<1>2. CallInv' /\ LockInv'
  BY DEF CallInv, LockInv
<1>3. CreatorInv' /\ Quiet
  BY DEF Creating, CreatorInv, Leased, Quiet, Owner
<1>4. WaiterHasNotifier'
  BY DEF WaiterHasNotifier, Notifier, Owner
<1> HIDE DEF AcquisitionInv, AcquisitionTypeOK, dvars, domainVars, genVars, Accepting,
             CloneRef
<1>5. QED
  BY <1>1, <1>2, <1>3, <1>4, QuietInv

LEMMA DropRefKeeps ==
  ASSUME AcquisitionInv, NEW c \in Callers, DropRef(c)
  PROVE  AcquisitionInv'
<1> USE DEF AcquisitionInv, AcquisitionTypeOK, dvars, domainVars, genVars, Accepting,
            DropRef
<1>1. AcquisitionTypeOK'
  OBVIOUS
<1>2. CallInv' /\ LockInv'
  BY DEF CallInv, HasRef, Creating, LockInv
<1>3. CreatorInv' /\ Quiet
  BY DEF HasRef, Creating, CreatorInv, Leased, Quiet, Owner
<1>4. WaiterHasNotifier'
  BY DEF WaiterHasNotifier, Notifier, Owner
<1> HIDE DEF AcquisitionInv, AcquisitionTypeOK, dvars, domainVars, genVars, Accepting,
             DropRef
<1>5. QED
  BY <1>1, <1>2, <1>3, <1>4, QuietInv

LEMMA AbandonKeeps ==
  ASSUME AcquisitionInv, NEW c \in Callers, Abandon(c)
  PROVE  AcquisitionInv'
<1> USE DEF AcquisitionInv, AcquisitionTypeOK, dvars, domainVars, genVars, Accepting,
            Abandon
<1>1. AcquisitionTypeOK'
  <2>1. (pc \in [Callers -> Locations])'
    OBVIOUS
  <2>2. (loc \in [Callers -> Locals])'
    OBVIOUS
  <2>3. (ref \in [Callers -> Gens \cup {None}])'
    OBVIOUS
  <2> QED
    BY <2>1, <2>2, <2>3
<1>2. CallInv' /\ LockInv'
  BY DEF CallInv, HasRef, Creating, LockInv
<1>3. CreatorInv' /\ Quiet
  BY DEF HasRef, Creating, CreatorInv, Leased, Quiet, Owner
<1>4. WaiterHasNotifier'
  BY SMTT(30) DEF WaiterHasNotifier, Notifier, Owner
<1> HIDE DEF AcquisitionInv, AcquisitionTypeOK, dvars, domainVars, genVars, Accepting,
             Abandon
<1>5. QED
  BY <1>1, <1>2, <1>3, <1>4, QuietInv

\* A caller begins to listen to the slot of somebody who constructs.
LEMMA ClaimStartingWaiters ==
  ASSUME AcquisitionInv, NEW c \in Callers, ClaimStarting(c)
  PROVE  WaiterHasNotifier'
<1> DEFINE s == entries[loc[c].key]
<1>1. /\ pc[c] = "claim" /\ s # None /\ slot[s].state = "Starting"
      /\ \A d \in Callers \ {c} : pc'[d] = pc[d] /\ loc'[d] = loc[d]
      /\ pc'[c] = "listen" => loc'[c].slot = s
  BY DEF AcquisitionInv, AcquisitionTypeOK, ClaimStarting, Finds
<1>2. PICK e \in Callers : Owner(e) /\ loc[e].slot = s
  BY <1>1 DEF AcquisitionInv, StartingInv, CallInv
<1>3. \A d \in Callers : Notifier(d) => Notifier(d)' /\ loc'[d].slot = loc[d].slot
  BY <1>1 DEF Notifier, Owner
<1>4. Notifier(e)
  BY <1>2 DEF Notifier, Owner
<1>5. QED
  BY <1>1, <1>2, <1>3, <1>4 DEF AcquisitionInv, WaiterHasNotifier

LEMMA ClaimStartingKeeps ==
  ASSUME AcquisitionInv, NEW c \in Callers, ClaimStarting(c)
  PROVE  AcquisitionInv'
<1> USE DEF AcquisitionInv, AcquisitionTypeOK, dvars, domainVars, genVars, Accepting,
            ClaimStarting, Finds
<1>1. AcquisitionTypeOK'
  <2>1. (pc \in [Callers -> Locations])'
    OBVIOUS
  <2>2. (loc \in [Callers -> Locals])'
    BY SMTT(30) DEF CallInv
  <2>3. (ref \in [Callers -> Gens \cup {None}])'
    OBVIOUS
  <2> QED
    BY <2>1, <2>2, <2>3
<1>2. CallInv' /\ LockInv'
  BY SMTT(30) DEF CallInv, HasRef, Creating, LockInv, SlotFree
<1>3. CreatorInv' /\ Quiet
  BY DEF CallInv, HasRef, Creating, CreatorInv, ActiveInv, Leased, Quiet, Owner
<1>4. WaiterHasNotifier'
  BY ClaimStartingWaiters
<1> HIDE DEF AcquisitionInv, AcquisitionTypeOK, dvars, domainVars, genVars, Accepting,
             ClaimStarting, Finds
<1>5. QED
  BY <1>1, <1>2, <1>3, <1>4, QuietInv

LEMMA ClaimUpgradeKeeps ==
  ASSUME AcquisitionInv, NEW c \in Callers, ClaimUpgrade(c)
  PROVE  AcquisitionInv'
<1> USE DEF AcquisitionInv, AcquisitionTypeOK, dvars, domainVars, genVars, Accepting,
            ClaimUpgrade, Finds
<1>1. AcquisitionTypeOK'
  BY DEF CallInv
<1>2. CallInv' /\ LockInv'
  BY SMTT(30) DEF CallInv, HasRef, LockInv
<1>3. CreatorInv'
  BY SMTT(30) DEF CallInv, Creating, CreatorInv, ActiveInv
<1>4. Quiet
  BY DEF CallInv, Creating, Quiet, Owner, Leased
<1>5. WaiterHasNotifier'
  BY DEF WaiterHasNotifier, Notifier, Owner
<1> HIDE DEF AcquisitionInv, AcquisitionTypeOK, dvars, domainVars, genVars, Accepting,
             ClaimUpgrade, Finds
<1>6. QED
  BY <1>1, <1>2, <1>3, <1>4, <1>5, QuietInv

LEMMA DropOccupiedKeeps ==
  ASSUME AcquisitionInv, NEW c \in Callers, DropOccupied(c)
  PROVE  AcquisitionInv'
<1> USE DEF AcquisitionInv, AcquisitionTypeOK, dvars, domainVars, genVars, Accepting,
            DropOccupied
<1>1. AcquisitionTypeOK'
  OBVIOUS
<1>2. CallInv' /\ LockInv'
  BY DEF CallInv, HasRef, Creating, LockInv
<1>3. CreatorInv' /\ Quiet
  BY DEF HasRef, Creating, CreatorInv, Leased, Quiet, Owner
<1>4. WaiterHasNotifier'
  BY DEF WaiterHasNotifier, Notifier, Owner, CallInv
<1> HIDE DEF AcquisitionInv, AcquisitionTypeOK, dvars, domainVars, genVars, Accepting,
             DropOccupied
<1>5. QED
  BY <1>1, <1>2, <1>3, <1>4, QuietInv

LEMMA CreateCheckKeeps ==
  ASSUME AcquisitionInv, NEW c \in Callers, CreateCheck(c)
  PROVE  AcquisitionInv'
<1> USE DEF AcquisitionInv, AcquisitionTypeOK, dvars, domainVars, genVars, Accepting,
            CreateCheck
<1>1. AcquisitionTypeOK'
  BY SMTT(30) DEF CallInv
<1>2. CallInv' /\ LockInv'
  BY DEF CallInv, HasRef, Creating, LockInv
<1>3. CreatorInv' /\ Quiet
  BY DEF HasRef, Creating, CreatorInv, Leased, Quiet, Owner
<1>4. WaiterHasNotifier'
  BY SMTT(30) DEF WaiterHasNotifier, Notifier, Owner, StartingInv
<1> HIDE DEF AcquisitionInv, AcquisitionTypeOK, dvars, domainVars, genVars, Accepting,
             CreateCheck
<1>5. QED
  BY <1>1, <1>2, <1>3, <1>4, QuietInv

LEMMA BuildPanicsKeeps ==
  ASSUME AcquisitionInv, NEW c \in Callers, BuildPanics(c)
  PROVE  AcquisitionInv'
<1> USE DEF AcquisitionInv, AcquisitionTypeOK, dvars, domainVars, genVars, Accepting,
            BuildPanics
<1>1. AcquisitionTypeOK'
  OBVIOUS
<1>2. CallInv' /\ LockInv'
  BY DEF CallInv, HasRef, Creating, LockInv
<1>3. CreatorInv' /\ Quiet
  BY DEF HasRef, Creating, CreatorInv, Leased, Quiet, Owner
<1>4. WaitersKept
  BY DEF WaitersKept, Notifier, Owner
<1>5. WaiterHasNotifier'
  BY <1>4, WaitersKeptInv
<1> HIDE DEF AcquisitionInv, AcquisitionTypeOK, dvars, domainVars, genVars, Accepting,
             BuildPanics
<1>6. QED
  BY <1>1, <1>2, <1>3, <1>5, QuietInv

LEMMA AcceptCheckKeeps ==
  ASSUME AcquisitionInv, NEW c \in Callers, AcceptCheck(c)
  PROVE  AcquisitionInv'
<1> USE DEF AcquisitionInv, AcquisitionTypeOK, dvars, domainVars, genVars, Accepting,
            AcceptCheck
<1>1. AcquisitionTypeOK'
  OBVIOUS
<1>2. CallInv' /\ LockInv'
  BY DEF CallInv, HasRef, Creating, LockInv
<1>3. CreatorInv' /\ Quiet
  BY DEF HasRef, Creating, CreatorInv, Leased, Quiet, Owner
<1>4. WaiterHasNotifier'
  BY DEF WaiterHasNotifier, Notifier, Owner
<1> HIDE DEF AcquisitionInv, AcquisitionTypeOK, dvars, domainVars, genVars, Accepting,
             AcceptCheck
<1>5. QED
  BY <1>1, <1>2, <1>3, <1>4, QuietInv

LEMMA AnnounceKeeps ==
  ASSUME AcquisitionInv, NEW c \in Callers, Announce(c)
  PROVE  AcquisitionInv'
<1> USE DEF AcquisitionInv, AcquisitionTypeOK, dvars, domainVars, genVars, Accepting,
            Announce, NotifyListeners
<1>1. AcquisitionTypeOK'
  OBVIOUS
<1>2. CallInv' /\ LockInv'
  BY DEF CallInv, HasRef, Creating, LockInv
<1>3. CreatorInv' /\ Quiet
  BY DEF HasRef, Creating, CreatorInv, Leased, Quiet, Owner
<1>4. WaiterHasNotifier'
  BY DEF WaiterHasNotifier, Notifier, Owner
<1> HIDE DEF AcquisitionInv, AcquisitionTypeOK, dvars, domainVars, genVars, Accepting,
             Announce, NotifyListeners
<1>5. QED
  BY <1>1, <1>2, <1>3, <1>4, QuietInv

LEMMA GuardNotifyKeeps ==
  ASSUME AcquisitionInv, NEW c \in Callers, GuardNotify(c)
  PROVE  AcquisitionInv'
<1> USE DEF AcquisitionInv, AcquisitionTypeOK, dvars, domainVars, genVars, Accepting,
            GuardNotify, NotifyListeners
<1>1. AcquisitionTypeOK'
  OBVIOUS
<1>2. CallInv' /\ LockInv'
  BY DEF CallInv, HasRef, Creating, LockInv
<1>3. CreatorInv' /\ Quiet
  BY DEF HasRef, Creating, CreatorInv, Leased, Quiet, Owner
<1>4. WaiterHasNotifier'
  BY DEF WaiterHasNotifier, Notifier, Owner
<1> HIDE DEF AcquisitionInv, AcquisitionTypeOK, dvars, domainVars, genVars, Accepting,
             GuardNotify, NotifyListeners
<1>5. QED
  BY <1>1, <1>2, <1>3, <1>4, QuietInv

LEMMA FetchKeeps ==
  ASSUME AcquisitionInv, NEW c \in Callers, Fetch(c)
  PROVE  AcquisitionInv'
<1> USE DEF AcquisitionInv, AcquisitionTypeOK, dvars, domainVars, genVars, Accepting,
            Fetch
<1>1. AcquisitionTypeOK'
  <2>1. (pc \in [Callers -> Locations])'
    OBVIOUS
  <2>2. (loc \in [Callers -> Locals])'
    BY DEF CallInv
  <2>3. (ref \in [Callers -> Gens \cup {None}])'
    OBVIOUS
  <2> QED
    BY <2>1, <2>2, <2>3
<1>2. CallInv' /\ LockInv'
  BY DEF CallInv, HasRef, Creating, LockInv, EntryFree
<1>3. CreatorInv' /\ Quiet
  BY DEF CallInv, HasRef, Creating, CreatorInv, ActiveInv, Leased, Quiet, Owner
<1>4. WaitersKept
  BY DEF WaitersKept, Notifier, Owner
<1>5. WaiterHasNotifier'
  BY <1>4, WaitersKeptInv
<1> HIDE DEF AcquisitionInv, AcquisitionTypeOK, dvars, domainVars, genVars, Accepting,
             Fetch
<1>6. QED
  BY <1>1, <1>2, <1>3, <1>5, QuietInv

LEMMA ProbeKeeps ==
  ASSUME AcquisitionInv, NEW c \in Callers, Probe(c)
  PROVE  AcquisitionInv'
<1> USE DEF AcquisitionInv, AcquisitionTypeOK, dvars, domainVars, genVars, Accepting,
            Probe
<1>1. AcquisitionTypeOK'
  BY SMTT(30) DEF CallInv
<1>2. CallInv' /\ LockInv'
  BY DEF CallInv, HasRef, Creating, LockInv
<1>3. CreatorInv' /\ Quiet
  BY DEF CallInv, HasRef, Creating, CreatorInv, ActiveInv, Leased, Quiet, Owner
<1>4. WaitersKept
  BY DEF WaitersKept, Notifier, Owner
<1>5. WaiterHasNotifier'
  BY <1>4, WaitersKeptInv
<1> HIDE DEF AcquisitionInv, AcquisitionTypeOK, dvars, domainVars, genVars, Accepting,
             Probe
<1>6. QED
  BY <1>1, <1>2, <1>3, <1>5, QuietInv

LEMMA HandKeeps ==
  ASSUME AcquisitionInv, NEW c \in Callers, Hand(c)
  PROVE  AcquisitionInv'
<1> USE DEF AcquisitionInv, AcquisitionTypeOK, dvars, domainVars, genVars, Accepting,
            Hand
<1>1. AcquisitionTypeOK'
  <2>1. /\ (pc \in [Callers -> Locations])'
        /\ (loc \in [Callers -> Locals])'
        /\ (ref \in [Callers -> Gens \cup {None}])'
    BY SMTT(30) DEF CallInv
  <2> QED
    BY <2>1
<1>2. CallInv' /\ LockInv'
  BY DEF CallInv, HasRef, Creating, TryAcquire, LockInv
<1>3. CreatorInv' /\ Quiet
  BY DEF CallInv, HasRef, Creating, CreatorInv, Leased, Quiet, Owner
<1>4. WaiterHasNotifier'
  BY SMTT(30) DEF WaiterHasNotifier, Notifier, Owner, StartingInv, NotifyListeners
<1> HIDE DEF AcquisitionInv, AcquisitionTypeOK, dvars, domainVars, genVars, Accepting,
             Hand
<1>5. QED
  BY <1>1, <1>2, <1>3, <1>4, QuietInv

LEMMA ClaimVacantKeeps ==
  ASSUME AcquisitionInv, NEW c \in Callers, ClaimVacant(c), ~Accepting
  PROVE  AcquisitionInv'
<1> USE DEF AcquisitionInv, AcquisitionTypeOK, dvars, domainVars, genVars, Accepting,
            ClaimVacant
<1>1. AcquisitionTypeOK'
  <2>1. /\ (pc \in [Callers -> Locations])'
        /\ (loc \in [Callers -> Locals])'
        /\ (ref \in [Callers -> Gens \cup {None}])'
    BY SMTT(30)
  <2> QED
    BY <2>1
<1>2. CallInv' /\ LockInv'
  BY DEF CallInv, HasRef, Creating, LockInv, EntryFree
<1>3. CreatorInv' /\ Quiet
  BY DEF HasRef, Creating, CreatorInv, Leased, Quiet, Owner
<1>4. WaiterHasNotifier'
  BY SMTT(30) DEF WaiterHasNotifier, Notifier, Owner, StartingInv
<1> HIDE DEF AcquisitionInv, AcquisitionTypeOK, dvars, domainVars, genVars, Accepting,
             ClaimVacant
<1>5. QED
  BY <1>1, <1>2, <1>3, <1>4, QuietInv

LEMMA ClaimDeadKeeps ==
  ASSUME AcquisitionInv, NEW c \in Callers, ClaimDead(c), ~Accepting
  PROVE  AcquisitionInv'
<1> USE DEF AcquisitionInv, AcquisitionTypeOK, dvars, domainVars, genVars, Accepting,
            ClaimDead, Finds
<1>1. AcquisitionTypeOK'
  <2>1. /\ (pc \in [Callers -> Locations])'
        /\ (loc \in [Callers -> Locals])'
        /\ (ref \in [Callers -> Gens \cup {None}])'
    BY SMTT(30) DEF CallInv
  <2> QED
    BY <2>1
<1>2. CallInv' /\ LockInv'
  BY SMTT(30) DEF CallInv, HasRef, Creating, LockInv, EntryFree
<1>3. CreatorInv' /\ Quiet
  BY DEF HasRef, Creating, CreatorInv, Leased, Quiet, Owner
<1>4. WaiterHasNotifier'
  BY SMTT(30) DEF WaiterHasNotifier, Notifier, Owner, CallInv
<1> HIDE DEF AcquisitionInv, AcquisitionTypeOK, dvars, domainVars, genVars, Accepting,
             ClaimDead, Finds
<1>5. QED
  BY <1>1, <1>2, <1>3, <1>4, QuietInv

LEMMA ClaimDecideKeeps ==
  ASSUME AcquisitionInv, NEW c \in Callers, ClaimDecide(c),
         TryAcquire(ref[c]) \/ ~Accepting
  PROVE  AcquisitionInv'
<1> USE DEF AcquisitionInv, AcquisitionTypeOK, dvars, domainVars, genVars, Accepting,
            ClaimDecide, TryAcquire
<1>1. AcquisitionTypeOK'
  BY SMTT(30)
<1>2. CallInv' /\ LockInv'
  BY DEF CallInv, HasRef, Creating, LockInv
<1>3. CreatorInv' /\ Quiet
  BY DEF HasRef, Creating, CreatorInv, Leased, Quiet, Owner
<1>4. WaiterHasNotifier'
  BY DEF WaiterHasNotifier, Notifier, Owner, CallInv, StartingInv
<1> HIDE DEF AcquisitionInv, AcquisitionTypeOK, dvars, domainVars, genVars, Accepting,
             ClaimDecide, TryAcquire
<1>5. QED
  BY <1>1, <1>2, <1>3, <1>4, QuietInv

-----------------------------------------------------------------------------
\* The steps that change the registry, a lease or a generation.

\* A caller takes over the slot of a generation without leases, or of one it may
\* not acquire.
LEMMA OwnInv ==
  ASSUME AcquisitionInv, NEW c \in Callers, pc[c] \in {"claim", "claimed"}, Accepting,
         NEW s \in Slots, s = entries[loc[c].key], slot[s].state = "Active",
         \A d \in Callers \ {c} : pc[d] \in {"claimed", "probed"} => loc[d].slot # s,
         ~(phase[slot[s].gen] = "Active" /\ Leased(slot[s].gen)),
         Own(c), Release(c), UNCHANGED <<dvars, home>>
  PROVE  AcquisitionInv'
<1>0. AcquisitionTypeOK /\ CallInv /\ loc[c].op \in Canonical /\ loc[c].key \in Keys
  BY DEF AcquisitionInv, CallInv
<1>1. /\ slot' = [slot EXCEPT ![s] =
                      [state |-> "Starting", num |-> slot[s].num + 1, gen |-> None]]
      /\ loc' = [loc EXCEPT ![c] = [op |-> loc[c].op, key |-> loc[c].key, slot |-> s,
                                    num |-> slot[s].num + 1]]
      /\ pc' = [pc EXCEPT ![c] = "create"]
      /\ ref' = [ref EXCEPT ![c] = None]
      /\ UNCHANGED <<entries, home, dvars>>
  BY DEF Own
<1>T. AcquisitionTypeOK'
  <2>1. slot[s].num + 1 \in Nat
    BY <1>0 DEF AcquisitionTypeOK
  <2>2. slot' \in [Slots -> SlotStates]
    BY <1>0, <1>1, <2>1 DEF AcquisitionTypeOK
  <2>3. loc' \in [Callers -> Locals]
    BY <1>0, <1>1, <2>1 DEF AcquisitionTypeOK
  <2>4. QED
    BY <1>0, <1>1, <2>2, <2>3 DEF AcquisitionTypeOK
<1> USE <1>0, <1>1
<1>2. CallInv'
  BY DEF AcquisitionTypeOK, CallInv, HasRef, Creating
<1>3. LockInv'
  BY DEF AcquisitionInv, AcquisitionTypeOK, LockInv
<1>4. CreatorInv' /\ BirthInv'
  BY SMTT(30) DEF AcquisitionInv, AcquisitionTypeOK, CreatorInv, BirthInv, CallInv, HasRef,
         Creating, dvars, domainVars, genVars, Accepting
<1>5. KeyInv'
  BY SMTT(30) DEF AcquisitionInv, AcquisitionTypeOK, KeyInv
<1>6. HomeInv'
  BY DEF AcquisitionInv, AcquisitionTypeOK, HomeInv, Cleaned, dvars, genVars
<1>7. ActiveInv'
  BY SMTT(30) DEF AcquisitionInv, AcquisitionTypeOK, ActiveInv, Cleaned, dvars, genVars
<1>8. OwnerInv'
  BY SMTT(30)
     DEF AcquisitionInv, AcquisitionTypeOK, OwnerInv, Owner, CallInv, dvars, domainVars,
         Accepting
<1>9. StartingInv'
  BY DEF AcquisitionInv, AcquisitionTypeOK, StartingInv, Owner
<1>10. TicketInv'
  BY SMTT(30) DEF AcquisitionInv, AcquisitionTypeOK, TicketInv, TicketOf, HomeInv, OwnerInv,
         Owner, CallInv, HasRef, Creating, Cleaned, dvars, domainVars, genVars,
         Accepting
<1>11. LeasedIsRegistered'
  BY SMTT(30) DEF AcquisitionInv, AcquisitionTypeOK, LeasedIsRegistered, Leased, ActiveInv,
         HomeInv, Cleaned, dvars, domainVars, genVars, Accepting
<1>12. OneActivePerKey'
  BY DEF AcquisitionInv, AcquisitionTypeOK, OneActivePerKey, Leased, dvars, genVars
<1>13. WaiterHasNotifier'
  BY DEF AcquisitionInv, AcquisitionTypeOK, WaiterHasNotifier, Notifier, Owner
<1>14. LeaseKeepsAlive'
  BY DEF AcquisitionInv, AcquisitionTypeOK, LeaseKeepsAlive, Leased, dvars, domainVars,
         genVars, Accepting
<1>15. OutcomeAfterCleanup'
  BY DEF AcquisitionInv, AcquisitionTypeOK, OutcomeAfterCleanup, dvars, genVars
<1> HIDE DEF AcquisitionTypeOK
<1>16. IInv'
  BY DEF AcquisitionInv, IInv, TypeOK, GenInv, StopInv, ShutdownMeansTerminated,
         NoLostWakeup, ShutdownHasAnEnder, SupervisorFree, CancelSignalsEveryTask, dvars,
         domainVars, genVars, stopVars
<1>17. QED
  BY <1>2, <1>3, <1>4, <1>5, <1>6, <1>7, <1>8, <1>9, <1>10, <1>11, <1>12, <1>13, <1>14,
     <1>15, <1>16, <1>T DEF AcquisitionInv

\* A new slot under a free key.
LEMMA ReserveKeeps ==
  ASSUME AcquisitionInv, IInv', NEW c \in Callers, NEW s \in Slots, pc[c] = "claim",
         entries[loc[c].key] = None, EntryFree(loc[c].key), Accepting, Reserve(c, s),
         UNCHANGED <<dvars, ref, home>>
  PROVE  AcquisitionInv'
<1> USE DEF AcquisitionInv, AcquisitionTypeOK, dvars, domainVars, genVars, Accepting
<1>e. /\ slot[s] = Unused
      /\ loc[c].op \in Canonical
      /\ loc[c].key \in Keys
      /\ slot' = [slot EXCEPT ![s] = [state |-> "Starting", num |-> 1, gen |-> None]]
      /\ entries' = [entries EXCEPT ![loc[c].key] = s]
      /\ loc' = [loc EXCEPT ![c] =
                   [op |-> loc[c].op, key |-> loc[c].key, slot |-> s, num |-> 1]]
      /\ pc' = [pc EXCEPT ![c] = "create"]
      /\ UNCHANGED <<dvars, ref, home>>
  BY DEF CallInv, Reserve
<1>1. AcquisitionTypeOK'
  <2>1. slot' \in [Slots -> SlotStates]
    BY <1>e
  <2>2. loc' \in [Callers -> Locals]
    BY <1>e
  <2>3. entries' \in [Keys -> Slots \cup {None}] /\ pc' \in [Callers -> Locations]
    BY <1>e
  <2>4. \A r \in Slots : slot'[r].state = "Active" => slot'[r].gen # None
    BY <1>e
  <2>5. QED
    BY <1>e, <2>1, <2>2, <2>3, <2>4
<1>2. CallInv' /\ LockInv'
  BY <1>e DEF CallInv, HasRef, Creating, LockInv
<1>3. CreatorInv' /\ BirthInv'
  BY <1>e DEF HasRef, Creating, CreatorInv, BirthInv
<1>4. KeyInv' /\ StartingInv'
  BY <1>e DEF KeyInv, StartingInv, Owner
<1>5. HomeInv'
  BY <1>e DEF HomeInv, Cleaned
<1>6. ActiveInv'
  BY <1>e DEF ActiveInv, Cleaned
<1>7. OwnerInv'
  BY <1>e DEF OwnerInv, Owner, CallInv
<1>8. TicketInv'
  BY <1>e
     DEF TicketInv, TicketOf, HomeInv, Owner, CallInv, HasRef, Creating, CreatorInv,
         BirthInv, Cleaned, IInv, TypeOK, GenInv
<1>9. LeasedIsRegistered'
  BY <1>e DEF LeasedIsRegistered, Leased, HomeInv
<1>10. OneActivePerKey'
  BY <1>e DEF OneActivePerKey, Leased
<1>11. WaiterHasNotifier'
  BY <1>e DEF WaiterHasNotifier, Notifier, Owner, CallInv
<1>12. LeaseKeepsAlive' /\ OutcomeAfterCleanup'
  BY <1>e DEF LeaseKeepsAlive, Leased, OutcomeAfterCleanup
<1> HIDE DEF AcquisitionTypeOK, dvars, domainVars, genVars, Accepting
<1>13. QED
  BY <1>1, <1>2, <1>3, <1>4, <1>5, <1>6, <1>7, <1>8, <1>9, <1>10, <1>11, <1>12

\* A generation is born, with its creator's lease and its cleanup closure.
LEMMA BuildReturnsKeeps ==
  ASSUME AcquisitionInv, IInv', NEW c \in Callers, NEW g \in Gens, BuildReturns(c, g)
  PROVE  AcquisitionInv'
<1> USE DEF AcquisitionInv, AcquisitionTypeOK, dvars, domainVars, genVars, Accepting,
            BuildReturns, Create
<1>1. AcquisitionTypeOK'
  BY DEF CallInv
<1>2. CallInv' /\ LockInv'
  BY DEF CallInv, HasRef, Creating, LockInv
<1>3. CreatorInv' /\ BirthInv'
  BY DEF HasRef, Creating, CreatorInv, BirthInv, IInv, TypeOK, GenInv, Outcomes
<1>4. KeyInv' /\ StartingInv'
  BY DEF KeyInv, StartingInv, Owner
<1>5. HomeInv'
  BY SMTT(30)
     DEF CallInv, HasRef, Creating, CreatorInv, HomeInv, KeyInv, OwnerInv, Owner,
         TicketInv, TicketOf, Cleaned, IInv, GenInv, Outcomes
<1>6. ActiveInv'
  BY DEF CallInv, Creating, ActiveInv, OwnerInv, Owner, TicketInv, Cleaned, IInv, GenInv
<1>7. OwnerInv'
  BY DEF OwnerInv, Owner
<1>8. TicketInv'
  BY DEF TicketInv, TicketOf, OwnerInv, Owner, CallInv, HasRef, Creating, BirthInv,
         Cleaned, IInv, GenInv
<1>9. LeasedIsRegistered'
  BY DEF LeasedIsRegistered, Leased, BirthInv, HomeInv
<1>10. OneActivePerKey'
  <2>1. \A d \in Callers : ref[d] # g
    BY DEF CreatorInv, CallInv, HasRef, Creating, IInv, GenInv
  <2>2. \A h \in Gens : Leased(h)' /\ h # g => Leased(h) /\ home'[h] = home[h]
    BY <2>1 DEF Leased
  <2>3. phase'[g] # "Active" /\ phase' = phase
    BY DEF BirthInv
  <2> QED
    BY <2>2, <2>3 DEF OneActivePerKey
<1>11. WaiterHasNotifier'
  BY DEF WaiterHasNotifier, Notifier, Owner
<1>12. LeaseKeepsAlive' /\ OutcomeAfterCleanup'
  BY DEF LeaseKeepsAlive, Leased, OutcomeAfterCleanup
<1> HIDE DEF AcquisitionTypeOK, dvars, domainVars, genVars, Accepting, BuildReturns,
             Create
<1>13. QED
  BY <1>1, <1>2, <1>3, <1>4, <1>5, <1>6, <1>7, <1>8, <1>9, <1>10, <1>11, <1>12

\* It is registered and becomes Active.
LEMMA RegisterKeeps ==
  ASSUME AcquisitionInv, IInv', NEW c \in Callers, NEW g \in Gens, g = ref[c],
         pc[c] = "register", Register(g), Jump(c, "supervise"),
         UNCHANGED <<regVars, loc, ref, home>>
  PROVE  AcquisitionInv'
<1> USE DEF AcquisitionInv, AcquisitionTypeOK, dvars, domainVars, genVars, Accepting,
            Register
<1>1. AcquisitionTypeOK'
  OBVIOUS
<1>2. CallInv' /\ LockInv'
  BY DEF CallInv, HasRef, Creating, LockInv
<1>3. CreatorInv' /\ BirthInv'
  BY DEF Creating, CreatorInv, BirthInv, IInv, GenInv
<1>4. KeyInv' /\ StartingInv'
  BY DEF KeyInv, StartingInv, Owner
<1>5. HomeInv'
  BY DEF HomeInv, Cleaned
<1>6. ActiveInv'
  BY DEF ActiveInv, Cleaned
<1>7. OwnerInv'
  BY DEF OwnerInv, Owner
<1>8. TicketInv'
  BY DEF TicketInv, TicketOf, Owner, Creating, Cleaned
<1>9. LeasedIsRegistered'
  BY DEF LeasedIsRegistered, Leased, OwnerInv, Owner, TicketInv, TicketOf, CallInv,
         Creating, CreatorInv
<1>10. OneActivePerKey'
  BY <1>5, <1>9, OneActiveWhileAccepting DEF Register
<1>11. WaiterHasNotifier'
  BY DEF WaiterHasNotifier, Notifier, Owner
<1>12. LeaseKeepsAlive' /\ OutcomeAfterCleanup'
  BY DEF LeaseKeepsAlive, Leased, IInv, TypeOK, OutcomeAfterCleanup
<1> HIDE DEF AcquisitionTypeOK, dvars, domainVars, genVars, Accepting, Register
<1>13. QED
  BY <1>1, <1>2, <1>3, <1>4, <1>5, <1>6, <1>7, <1>8, <1>9, <1>10, <1>11, <1>12

\* It is refused.
LEMMA RefuseKeeps ==
  ASSUME AcquisitionInv, IInv', NEW c \in Callers, NEW g \in Gens, g = ref[c],
         pc[c] = "register", Refuse(g), Jump(c, "refused"),
         UNCHANGED <<regVars, loc, ref, home>>
  PROVE  AcquisitionInv'
<1> USE DEF AcquisitionInv, AcquisitionTypeOK, dvars, domainVars, genVars, Accepting,
            Refuse, CancelPhase
<1>1. AcquisitionTypeOK'
  OBVIOUS
<1>2. CallInv' /\ LockInv'
  BY DEF CallInv, HasRef, Creating, LockInv
<1>3. CreatorInv' /\ BirthInv'
  BY DEF Creating, CreatorInv, BirthInv, IInv, TypeOK
<1>4. KeyInv' /\ StartingInv'
  BY DEF KeyInv, StartingInv, Owner
<1>5. HomeInv'
  BY DEF HomeInv, Cleaned
<1>6. ActiveInv'
  BY DEF ActiveInv, Cleaned
<1>7. OwnerInv'
  BY DEF OwnerInv, Owner
<1>8. TicketInv'
  BY DEF TicketInv, TicketOf, Owner, Creating, Cleaned
<1>9. LeasedIsRegistered'
  BY DEF LeasedIsRegistered
<1>10. OneActivePerKey'
  BY DEF OneActivePerKey, Leased
<1>11. WaiterHasNotifier'
  BY DEF WaiterHasNotifier, Notifier, Owner
<1>12. LeaseKeepsAlive' /\ OutcomeAfterCleanup'
  BY DEF LeaseKeepsAlive, OutcomeAfterCleanup
<1> HIDE DEF AcquisitionTypeOK, dvars, domainVars, genVars, Accepting, Refuse,
             CancelPhase
<1>13. QED
  BY <1>1, <1>2, <1>3, <1>4, <1>5, <1>6, <1>7, <1>8, <1>9, <1>10, <1>11, <1>12

\* A refused generation is dropped.
LEMMA DropRefusedKeeps ==
  ASSUME AcquisitionInv, IInv', NEW c \in Callers, NEW g \in Gens, g = ref[c],
         DropRefused(c)
  PROVE  AcquisitionInv'
<1> USE DEF AcquisitionInv, AcquisitionTypeOK, dvars, domainVars, genVars, Accepting,
            DropRefused, Start
<1>1. AcquisitionTypeOK'
  OBVIOUS
<1>2. CallInv' /\ LockInv'
  BY DEF CallInv, HasRef, Creating, LockInv
<1>3. CreatorInv' /\ BirthInv'
  BY DEF HasRef, Creating, CreatorInv, BirthInv
<1>4. KeyInv'
  BY DEF KeyInv
<1>5. StartingInv'
  BY DEF StartingInv, Owner
<1>6. HomeInv'
  BY DEF HomeInv, Cleaned
<1>7. ActiveInv'
  BY DEF CreatorInv, ActiveInv, Cleaned, IInv, GenInv
<1>8. OwnerInv'
  BY DEF OwnerInv, Owner, CallInv, HasRef, CreatorInv, BirthInv, TicketInv, TicketOf,
         GenInv
<1>9. TicketInv'
  BY DEF TicketInv, TicketOf, Owner, Creating, CreatorInv, Cleaned
<1>10. LeasedIsRegistered'
  BY DEF LeasedIsRegistered, Leased
<1>11. OneActivePerKey'
  BY DEF OneActivePerKey, Leased, CallInv, Creating, GenInv
<1>12. WaiterHasNotifier'
  BY DEF WaiterHasNotifier, Notifier, Owner, CallInv
<1>13. LeaseKeepsAlive' /\ OutcomeAfterCleanup'
  BY DEF LeaseKeepsAlive, Leased, OutcomeAfterCleanup
<1> HIDE DEF AcquisitionTypeOK, dvars, domainVars, genVars, Accepting, DropRefused,
             Start
<1>14. QED
  BY <1>1, <1>2, <1>3, <1>4, <1>5, <1>6, <1>7, <1>8, <1>9, <1>10, <1>11, <1>12, <1>13

\* It is supervised.
LEMMA SuperviseNewKeeps ==
  ASSUME AcquisitionInv, IInv', NEW c \in Callers, NEW g \in Gens, g = ref[c],
         SuperviseNew(c)
  PROVE  AcquisitionInv'
<1> USE DEF AcquisitionInv, AcquisitionTypeOK, dvars, domainVars, genVars, Accepting,
            SuperviseNew, Supervise
<1>1. AcquisitionTypeOK'
  OBVIOUS
<1>2. CallInv' /\ LockInv'
  BY DEF CallInv, HasRef, Creating, LockInv
<1>3. CreatorInv' /\ BirthInv'
  BY DEF Creating, CreatorInv, BirthInv, IInv, TypeOK
<1>4. KeyInv' /\ StartingInv'
  BY DEF KeyInv, StartingInv, Owner
<1>5. HomeInv'
  BY DEF HomeInv, Cleaned
<1>6. ActiveInv'
  BY DEF ActiveInv, Cleaned
<1>7. OwnerInv'
  BY DEF OwnerInv, Owner
<1>8. TicketInv'
  BY DEF TicketInv, TicketOf, Owner, Creating, Cleaned
<1>9. LeasedIsRegistered'
  BY DEF LeasedIsRegistered, Leased
<1>10. OneActivePerKey'
  BY DEF OneActivePerKey, Leased
<1>11. WaiterHasNotifier'
  BY DEF WaiterHasNotifier, Notifier, Owner
<1>12. LeaseKeepsAlive' /\ OutcomeAfterCleanup'
  BY DEF LeaseKeepsAlive, Leased, OutcomeAfterCleanup
<1> HIDE DEF AcquisitionTypeOK, dvars, domainVars, genVars, Accepting, SuperviseNew,
             Supervise
<1>13. QED
  BY <1>1, <1>2, <1>3, <1>4, <1>5, <1>6, <1>7, <1>8, <1>9, <1>10, <1>11, <1>12

\* It is let go by a domain that stops.
LEMMA RejectNewKeeps ==
  ASSUME AcquisitionInv, IInv', NEW c \in Callers, NEW g \in Gens, g = ref[c],
         RejectNew(c)
  PROVE  AcquisitionInv'
<1> USE DEF AcquisitionInv, AcquisitionTypeOK, dvars, domainVars, genVars, Accepting,
            RejectNew, Start
<1>1. AcquisitionTypeOK'
  OBVIOUS
<1>2. CallInv' /\ LockInv'
  BY DEF CallInv, HasRef, Creating, LockInv
<1>3. CreatorInv' /\ BirthInv'
  BY DEF HasRef, Creating, CreatorInv, BirthInv, IInv, GenInv
<1>4. KeyInv' /\ StartingInv'
  BY DEF KeyInv, StartingInv, Owner
<1>5. HomeInv'
  BY DEF HomeInv, Cleaned
<1>6. ActiveInv'
  BY DEF ActiveInv, Cleaned
<1>7. OwnerInv'
  BY DEF OwnerInv, Owner
<1>8. TicketInv'
  BY DEF TicketInv, TicketOf, Owner, Creating, CreatorInv, Cleaned
<1>9. LeasedIsRegistered'
  BY DEF LeasedIsRegistered, CreatorInv
<1>10. OneActivePerKey'
  BY DEF OneActivePerKey, Leased, CallInv, Creating, IInv, GenInv
<1>11. WaiterHasNotifier'
  BY DEF WaiterHasNotifier, Notifier, Owner
<1>12. LeaseKeepsAlive' /\ OutcomeAfterCleanup'
  BY DEF LeaseKeepsAlive, CreatorInv, OutcomeAfterCleanup
<1> HIDE DEF AcquisitionTypeOK, dvars, domainVars, genVars, Accepting, RejectNew, Start
<1>13. QED
  BY <1>1, <1>2, <1>3, <1>4, <1>5, <1>6, <1>7, <1>8, <1>9, <1>10, <1>11, <1>12

\* It is published in its slot.
LEMMA PublishActiveKeeps ==
  ASSUME AcquisitionInv, IInv', NEW c \in Callers, NEW g \in Gens, g = ref[c],
         PublishActive(c)
  PROVE  AcquisitionInv'
<1> USE DEF AcquisitionInv, AcquisitionTypeOK, dvars, domainVars, genVars, Accepting,
            PublishActive, SlotFree
<1>1. AcquisitionTypeOK'
  BY DEF CallInv
<1>2. CallInv' /\ LockInv'
  BY DEF CallInv, HasRef, Creating, LockInv
<1>3. CreatorInv' /\ BirthInv'
  BY DEF HasRef, Creating, CreatorInv, BirthInv
<1>4. KeyInv' /\ StartingInv'
  BY DEF KeyInv, StartingInv, Owner
<1>5. HomeInv'
  BY DEF CallInv, HomeInv, OwnerInv, Owner, Cleaned
<1>6. ActiveInv'
  BY DEF CallInv, HasRef, Creating, CreatorInv, BirthInv, ActiveInv, KeyInv, Owner,
         TicketInv, TicketOf, Cleaned, GenInv
<1>7. OwnerInv'
  BY DEF OwnerInv, Owner, CallInv
<1>8. TicketInv'
  BY DEF TicketInv, TicketOf, Owner, Cleaned
<1>9. LeasedIsRegistered'
  BY DEF LeasedIsRegistered, Leased, OwnerInv, Owner, CallInv, HomeInv
<1>10. OneActivePerKey'
  BY DEF OneActivePerKey, Leased, CallInv, Creating, IInv
<1>11. WaiterHasNotifier'
  BY DEF WaiterHasNotifier, Notifier, Owner
<1>12. LeaseKeepsAlive'
  BY DEF LeaseKeepsAlive, Leased
<1>13. OutcomeAfterCleanup'
  BY DEF OutcomeAfterCleanup, HomeInv, CreatorInv, Monitors, Outcomes, BirthInv,
         ActiveInv, KeyInv, TicketInv, TicketOf, Owner, CallInv, Creating, Cleaned,
         IInv, TypeOK, GenInv
<1> HIDE DEF AcquisitionTypeOK, dvars, domainVars, genVars, Accepting, PublishActive,
             SlotFree
<1>14. QED
  BY <1>1, <1>2, <1>3, <1>4, <1>5, <1>6, <1>7, <1>8, <1>9, <1>10, <1>11, <1>12, <1>13

\* Its task is started.
LEMMA StartTaskKeeps ==
  ASSUME AcquisitionInv, IInv', NEW c \in Callers, NEW g \in Gens, g = ref[c],
         StartTask(c)
  PROVE  AcquisitionInv'
<1> USE DEF AcquisitionInv, AcquisitionTypeOK, dvars, domainVars, genVars, Accepting,
            StartTask, Start
<1>1. AcquisitionTypeOK'
  OBVIOUS
<1>2. CallInv' /\ LockInv'
  BY DEF CallInv, HasRef, LockInv
<1>3. CreatorInv' /\ BirthInv'
  BY DEF HasRef, Creating, CreatorInv, BirthInv, IInv, GenInv
<1>4. KeyInv' /\ StartingInv'
  BY DEF KeyInv, StartingInv, Owner
<1>5. HomeInv'
  BY DEF HomeInv, Cleaned
<1>6. ActiveInv'
  BY DEF ActiveInv, Cleaned
<1>7. OwnerInv'
  BY DEF OwnerInv, Owner
<1>8. TicketInv'
  BY DEF TicketInv, TicketOf, Owner, Cleaned
<1>9. LeasedIsRegistered'
  BY DEF LeasedIsRegistered, Leased
<1>10. NoNewActive
  BY DEF NoNewActive, Leased
<1>11. OneActivePerKey'
  BY <1>10, OneActiveKeptInv
<1>12. WaiterHasNotifier'
  BY DEF WaiterHasNotifier, Notifier, Owner
<1>13. LeaseKeepsAlive' /\ OutcomeAfterCleanup'
  BY DEF LeaseKeepsAlive, Leased, OutcomeAfterCleanup
<1> HIDE DEF AcquisitionTypeOK, dvars, domainVars, genVars, Accepting, StartTask, Start
<1>14. QED
  BY <1>1, <1>2, <1>3, <1>4, <1>5, <1>6, <1>7, <1>8, <1>9, <1>11, <1>12, <1>13

\* The construction guard takes the reservation back.
LEMMA GuardRemoveKeeps ==
  ASSUME AcquisitionInv, IInv', NEW c \in Callers, GuardRemove(c)
  PROVE  AcquisitionInv'
<1> USE DEF AcquisitionInv, AcquisitionTypeOK, dvars, domainVars, genVars, Accepting,
            GuardRemove, CanRemove, RemoveIfSame, Same, EntryFree, SlotFree
<1>1. AcquisitionTypeOK'
  BY DEF CallInv
<1>2. CallInv' /\ LockInv'
  BY DEF CallInv, HasRef, Creating, LockInv
<1>3. CreatorInv' /\ BirthInv'
  BY DEF HasRef, Creating, CreatorInv, BirthInv
<1>4. KeyInv' /\ StartingInv'
  BY DEF KeyInv, StartingInv, OwnerInv, Owner
<1>5. HomeInv'
  BY DEF HomeInv, Cleaned
<1>6. ActiveInv'
  BY DEF ActiveInv, Cleaned
<1>7. OwnerInv'
  BY DEF OwnerInv, Owner, CallInv
<1>8. TicketInv'
  BY DEF TicketInv, TicketOf, Owner, CallInv, Cleaned
<1>9. LeasedIsRegistered'
  BY DEF LeasedIsRegistered, Leased, Owner, TicketInv, TicketOf, CallInv, HomeInv
<1>10. NoNewActive
  BY DEF NoNewActive, Leased
<1>11. OneActivePerKey'
  BY <1>10, OneActiveKeptInv
<1>12. WaiterHasNotifier'
  BY DEF WaiterHasNotifier, Notifier, Owner
<1>13. LeaseKeepsAlive' /\ OutcomeAfterCleanup'
  BY DEF LeaseKeepsAlive, Leased, OutcomeAfterCleanup
<1> HIDE DEF AcquisitionTypeOK, dvars, domainVars, genVars, Accepting, GuardRemove,
             CanRemove, RemoveIfSame, Same, EntryFree, SlotFree
<1>14. QED
  BY <1>1, <1>2, <1>3, <1>4, <1>5, <1>6, <1>7, <1>8, <1>9, <1>11, <1>12, <1>13

\* The last lease is gone.
LEMMA LastLeaseDroppedKeeps ==
  ASSUME AcquisitionInv, IInv', NEW g \in Gens, LastLeaseDropped(g)
  PROVE  AcquisitionInv'
<1> USE DEF AcquisitionInv, AcquisitionTypeOK, dvars, domainVars, genVars, Accepting,
            LastLeaseDropped, EntryDrop, CancelPhase
<1>1. AcquisitionTypeOK'
  OBVIOUS
<1>2. CallInv' /\ LockInv'
  BY DEF CallInv, LockInv
<1>3. CreatorInv' /\ BirthInv'
  BY DEF CreatorInv, BirthInv
<1>4. KeyInv' /\ StartingInv'
  BY DEF KeyInv, StartingInv, Owner
<1>5. HomeInv'
  BY DEF HomeInv, Cleaned
<1>6. ActiveInv'
  BY DEF ActiveInv, Cleaned
<1>7. OwnerInv'
  BY DEF OwnerInv, Owner
<1>8. TicketInv'
  BY DEF TicketInv, TicketOf, Owner, Cleaned
<1>9. LeasedIsRegistered'
  BY DEF LeasedIsRegistered, Leased
<1>10. NoNewActive
  BY DEF NoNewActive, Leased
<1>11. OneActivePerKey'
  BY <1>10, OneActiveKeptInv
<1>12. WaiterHasNotifier'
  BY DEF WaiterHasNotifier, Notifier, Owner
<1>13. LeaseKeepsAlive' /\ OutcomeAfterCleanup'
  BY DEF LeaseKeepsAlive, Leased, OutcomeAfterCleanup
<1> HIDE DEF AcquisitionTypeOK, dvars, domainVars, genVars, Accepting, LastLeaseDropped,
             EntryDrop, CancelPhase
<1>14. QED
  BY <1>1, <1>2, <1>3, <1>4, <1>5, <1>6, <1>7, <1>8, <1>9, <1>11, <1>12, <1>13

\* The cleanup of a generation, which leaves its successor alone.
LEMMA CleanUpKeeps ==
  ASSUME AcquisitionInv, IInv', NEW g \in Gens, CleanUp(g)
  PROVE  AcquisitionInv'
<1> USE DEF AcquisitionInv, AcquisitionTypeOK, dvars, domainVars, genVars, Accepting,
            CleanUp, Cleanup, CanRemove, RemoveIfSame, Same, EntryFree, SlotFree
<1>1. AcquisitionTypeOK'
  OBVIOUS
<1>2. CallInv' /\ LockInv'
  BY DEF CallInv, LockInv
<1>3. CreatorInv' /\ BirthInv'
  BY DEF CallInv, HasRef, CreatorInv, BirthInv
<1>4. KeyInv' /\ StartingInv'
  BY SMTT(30) DEF KeyInv, StartingInv, Owner
<1>5. HomeInv'
  BY DEF HomeInv, Cleaned, GenInv
<1>6. ActiveInv'
  BY DEF HasRef, CreatorInv, BirthInv, ActiveInv, HomeInv, KeyInv, Cleaned, IInv,
         TypeOK, GenInv
<1>7. OwnerInv'
  BY DEF OwnerInv, Owner, CallInv, HasRef, CreatorInv, BirthInv, TicketInv, TicketOf,
         IInv, GenInv
<1>8. TicketInv'
  BY DEF TicketInv, TicketOf, HomeInv, OwnerInv, Owner, CallInv, HasRef, Cleaned, IInv,
         TypeOK, GenInv
<1>9. LeasedIsRegistered'
  BY DEF LeasedIsRegistered, Leased, HomeInv
<1>10. OneActivePerKey'
  BY DEF OneActivePerKey, Leased, CallInv, CreatorInv
<1>11. WaiterHasNotifier'
  BY DEF WaiterHasNotifier, Notifier, Owner
<1>12. LeaseKeepsAlive' /\ OutcomeAfterCleanup'
  BY DEF LeaseKeepsAlive, Leased, OutcomeAfterCleanup, Monitors
<1> HIDE DEF AcquisitionTypeOK, dvars, domainVars, genVars, Accepting, CleanUp, Cleanup,
             CanRemove, RemoveIfSame, Same, EntryFree, SlotFree
<1>13. QED
  BY <1>1, <1>2, <1>3, <1>4, <1>5, <1>6, <1>7, <1>8, <1>9, <1>10, <1>11, <1>12

\* The other steps of the supervising task.
LEMMA SettleKeeps ==
  ASSUME AcquisitionInv, IInv', NEW g \in Gens,
         Finish(g) \/ Publish(g) \/ Unlist(g) \/ TaskFinished(g) \/ NotifyQuiescent(g),
         UNCHANGED avars
  PROVE  AcquisitionInv'
<1> USE DEF AcquisitionInv, AcquisitionTypeOK, dvars, domainVars, genVars, Accepting,
            Finish, Publish, Unlist, TaskFinished, NotifyQuiescent
<1>1. AcquisitionTypeOK'
  OBVIOUS
<1>2. CallInv' /\ LockInv'
  BY DEF CallInv, LockInv
<1>3. CreatorInv' /\ BirthInv'
  BY DEF CallInv, HasRef, Creating, CreatorInv, BirthInv, IInv, TypeOK, GenInv
<1>4. KeyInv' /\ StartingInv'
  BY DEF KeyInv, StartingInv, Owner
<1>5. HomeInv'
  BY SMTT(30) DEF HomeInv, Cleaned, IInv, TypeOK
<1>6. ActiveInv'
  BY DEF ActiveInv, Cleaned, IInv, TypeOK
<1>7. OwnerInv'
  BY DEF OwnerInv, Owner
<1>8. TicketInv'
  BY DEF TicketInv, TicketOf, Owner, CallInv, HasRef, Cleaned, IInv, TypeOK
<1>9. LeasedIsRegistered'
  BY DEF LeasedIsRegistered, Leased, HomeInv, IInv, TypeOK
<1>10. NoNewActive
  BY DEF NoNewActive, Leased, IInv, TypeOK
<1>11. OneActivePerKey'
  BY <1>10, OneActiveKeptInv
<1>12. WaiterHasNotifier'
  BY DEF WaiterHasNotifier, Notifier, Owner
<1>13. LeaseKeepsAlive' /\ OutcomeAfterCleanup'
  BY DEF LeaseKeepsAlive, Leased, IInv, TypeOK, OutcomeAfterCleanup, HomeInv, ActiveInv,
         TicketInv, Cleaned
<1> HIDE DEF AcquisitionTypeOK, dvars, domainVars, genVars, Accepting, Finish, Publish,
             Unlist, TaskFinished, NotifyQuiescent
<1>14. QED
  BY <1>1, <1>2, <1>3, <1>4, <1>5, <1>6, <1>7, <1>8, <1>9, <1>11, <1>12, <1>13

\* The steps of the managed task.
LEMMA TaskKeeps ==
  ASSUME AcquisitionInv, IInv', NEW g \in Gens, TaskStep(g) /\ UNCHANGED avars
  PROVE  AcquisitionInv'
<1> USE DEF AcquisitionInv, AcquisitionTypeOK, dvars, domainVars, genVars, Accepting,
            TaskStep, BeginPoll, EndPoll, Kill, BodyReturns
<1>1. AcquisitionTypeOK'
  OBVIOUS
<1>2. CallInv' /\ LockInv'
  BY DEF CallInv, LockInv
<1>3. CreatorInv' /\ BirthInv'
  BY DEF CreatorInv, BirthInv, IInv, TypeOK, Outcomes
<1>4. KeyInv' /\ StartingInv'
  BY DEF KeyInv, StartingInv, Owner
<1>5. HomeInv'
  BY DEF HomeInv, Cleaned
<1>6. ActiveInv'
  BY DEF ActiveInv, Cleaned
<1>7. OwnerInv'
  BY DEF OwnerInv, Owner
<1>8. TicketInv'
  BY DEF TicketInv, TicketOf, Owner, Cleaned
<1>9. LeasedIsRegistered'
  BY DEF LeasedIsRegistered, Leased
<1>10. NoNewActive
  BY DEF NoNewActive, Leased
<1>11. OneActivePerKey'
  BY <1>10, OneActiveKeptInv
<1>12. WaiterHasNotifier'
  BY DEF WaiterHasNotifier, Notifier, Owner
<1>13. LeaseKeepsAlive' /\ OutcomeAfterCleanup'
  BY DEF LeaseKeepsAlive, Leased, OutcomeAfterCleanup
<1> HIDE DEF AcquisitionTypeOK, dvars, domainVars, genVars, Accepting, TaskStep,
             BeginPoll, EndPoll, Kill, BodyReturns
<1>14. QED
  BY <1>1, <1>2, <1>3, <1>4, <1>5, <1>6, <1>7, <1>8, <1>9, <1>11, <1>12, <1>13

\* Callers that stop the domain.
LEMMA StopperEffects ==
  ASSUME IInv, NEW s \in Stoppers, StopperStep(s) \/ \E m \in Calls : Call(s, m)
  PROVE  StopperEffect
<1> USE DEF StopperEffect, Accepting, domainVars, genVars, stopVars, Goto
<1>1. CASE \/ \E m \in Calls : Call(s, m)
           \/ CancelDone(s) \/ SnapshotAborts(s) \/ AbortDone(s)
           \/ Subscribe(s) \/ Check(s) \/ Poll(s) \/ Awake(s)
  BY <1>1 DEF Call, CancelDone, SnapshotAborts, AbortDone, Subscribe, Check, Poll, Awake
<1>2. CASE Lock(s) \/ Snapshot(s)
  BY <1>2 DEF Lock, Snapshot
<1>3. ASSUME NEW g \in Gens, Signal(s, g) PROVE StopperEffect
  BY <1>3 DEF Signal, CancelPhase, IInv, TypeOK, StopInv
<1>4. ASSUME NEW g \in Gens, Abort(s, g) PROVE StopperEffect
  BY <1>4 DEF Abort, IInv, TypeOK, StopInv
<1> QED
  BY <1>1, <1>2, <1>3, <1>4 DEF StopperStep

LEMMA StopperKeeps ==
  ASSUME AcquisitionInv, IInv', StopperEffect, UNCHANGED avars
  PROVE  AcquisitionInv'
<1> USE DEF AcquisitionInv, StopperEffect
<1>1. /\ AcquisitionTypeOK' /\ CallInv' /\ LockInv' /\ KeyInv'
      /\ StartingInv' /\ WaiterHasNotifier'
  BY DEF AcquisitionTypeOK, CallInv, LockInv, KeyInv, StartingInv, Owner,
         WaiterHasNotifier, Notifier
<1>2. CreatorInv'
  BY DEF CreatorInv
<1>2a. BirthInv'
  BY DEF BirthInv, IInv, TypeOK
<1>3. HomeInv' /\ ActiveInv'
  BY DEF HomeInv, ActiveInv, Cleaned
<1>4. OwnerInv'
  BY DEF OwnerInv, Owner
<1>5. TicketInv'
  BY DEF TicketInv, TicketOf, Owner, Cleaned
<1>6. LeasedIsRegistered'
  BY DEF LeasedIsRegistered, Leased
<1>6a. OneActivePerKey'
  BY DEF OneActivePerKey, Leased
<1>7. LeaseKeepsAlive'
  BY DEF LeaseKeepsAlive, Leased
<1>8. OutcomeAfterCleanup'
  BY DEF OutcomeAfterCleanup
<1> QED BY <1>1, <1>2, <1>2a, <1>3, <1>4, <1>5, <1>6, <1>6a, <1>7, <1>8
=============================================================================
