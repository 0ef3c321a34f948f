--------------------------- MODULE Lifetime_proofs ---------------------------
(***************************************************************************)
(* However many btkeys are started and however each of them ends: whoever  *)
(* is at work on the machine, or cleaning up, has taken the lock; there is *)
(* one bluetoothd; no guardian puts back what is another's; and the        *)
(* machine is as it was once nobody is at work on it.                      *)
(***************************************************************************)
EXTENDS Lifetime, TLAPS

Debt == [vt : BOOLEAN, unit : BOOLEAN, kill : BOOLEAN,
         repeats : [Keyboard -> Repeat]]

LEMMA UntoldType == Untold \in Debt /\ [Untold EXCEPT !.vt = TRUE] \in Debt
BY DEF Untold, Debt, Repeat

LEMMA UnsavedType == Unsaved \in [Keyboard -> Repeat]
BY DEF Unsaved, Repeat

\* The guardian's record changes one field, or one keyboard, at a time.
LEMMA FieldType ==
  ASSUME NEW d \in Debt, NEW b \in BOOLEAN
  PROVE  [d EXCEPT !.unit = b] \in Debt /\ [d EXCEPT !.kill = b] \in Debt
BY DEF Debt

LEMMA RepeatType ==
  ASSUME NEW d \in Debt, NEW k, NEW r, k \in Keyboard => r \in Repeat
  PROVE  [d EXCEPT !.repeats[k] = r] \in Debt
<1>1. [d.repeats EXCEPT ![k] = r] \in [Keyboard -> Repeat]
  BY DEF Debt
<1>2. [d EXCEPT !.repeats[k] = r] =
        [d EXCEPT !.repeats = [d.repeats EXCEPT ![k] = r]]
  BY DEF Debt
<1> QED
  BY <1>1, <1>2 DEF Debt

LEMMA ToldType ==
  ASSUME TypeOK, NEW i \in Instance, NEW d \in Debt,
         told' = [told EXCEPT ![i] = d]
  PROVE  told' \in [Instance -> Debt]
BY DEF TypeOK, Debt

-----------------------------------------------------------------------------
LEMMA StartType ==
  ASSUME TypeOK, NEW i \in Instance, Start(i)
  PROVE  TypeOK'
<1>a. told[i] \in Debt
  BY DEF TypeOK, Debt
<1>1. CASE Hold(i)
  <2>1. told' \in [Instance -> Debt]
    BY <1>1, UntoldType, ToldType DEF Hold
  <2> QED
    BY <1>1, <2>1, UnsavedType DEF Hold, TypeOK, Debt, machine
<1>2. CASE DisplayStart(i)
  BY <1>2 DEF DisplayStart, Step, TypeOK
<1>3. CASE AskUnit(i)
  <2>1. was' \in [Instance -> BOOLEAN] /\ was'[i] \in BOOLEAN
    BY <1>3 DEF AskUnit, TypeOK
  <2>2. [told[i] EXCEPT !.unit = was'[i]] \in Debt
    BY <1>a, <2>1, FieldType
  <2>3. told' \in [Instance -> Debt]
    BY <1>3, <2>2, ToldType DEF AskUnit
  <2> QED
    BY <1>3, <2>1, <2>3 DEF AskUnit, Step, TypeOK, machine, Debt
<1>4. CASE StopUnit(i)
  BY <1>4 DEF StopUnit, Step, TypeOK
<1>5. CASE Spawn(i)
  BY <1>5 DEF Spawn, Step, TypeOK
<1>6. CASE KillOnDeath(i)
  <2>1. [told[i] EXCEPT !.kill = TRUE] \in Debt
    BY <1>a, FieldType
  <2>2. told' \in [Instance -> Debt]
    BY <1>6, <2>1, ToldType DEF KillOnDeath
  <2> QED
    BY <1>6, <2>2 DEF KillOnDeath, Step, TypeOK, machine, Debt
<1>7. CASE Started(i) \/ Fail(i)
  BY <1>7 DEF Started, Fail, Step, TypeOK, machine
<1> QED
  BY <1>1, <1>2, <1>3, <1>4, <1>5, <1>6, <1>7 DEF Start

LEMMA ServeType ==
  ASSUME TypeOK, NEW i \in Instance, Serve(i)
  PROVE  TypeOK'
<1>a. told[i] \in Debt
  BY DEF TypeOK, Debt
<1>1. ASSUME NEW k \in Keyboard, Hush(i, k)
      PROVE  TypeOK'
  BY <1>1 DEF Hush, Step, TypeOK, Repeat
<1>2. ASSUME NEW k \in Keyboard, Restore(i, k)
      PROVE  TypeOK'
  BY <1>2 DEF Restore, Step, TypeOK, Repeat
<1>3. CASE RestoreOnDeath(i)
  <2>1. owing \in Keyboard => saved[owing] \in Repeat
    BY DEF TypeOK
  <2>2. [told[i] EXCEPT !.repeats[owing] = saved[owing]] \in Debt
    BY <1>a, <2>1, RepeatType
  <2>3. told' \in [Instance -> Debt]
    BY <1>3, <2>2, ToldType DEF RestoreOnDeath
  <2> QED
    BY <1>3, <2>3 DEF RestoreOnDeath, Step, TypeOK, machine, Debt
<1>4. CASE ForgetRepeat(i)
  <2>1. [told[i] EXCEPT !.repeats[owing] = None] \in Debt
    BY <1>a, RepeatType DEF Repeat
  <2>2. told' \in [Instance -> Debt]
    BY <1>4, <2>1, ToldType DEF ForgetRepeat
  <2> QED
    BY <1>4, <2>2 DEF ForgetRepeat, Step, TypeOK, machine, Debt
<1>5. CASE Quit(i)
  BY <1>5 DEF Quit, Step, TypeOK, machine
<1> QED
  BY <1>1, <1>2, <1>3, <1>4, <1>5 DEF Serve

LEMMA StopType ==
  ASSUME TypeOK, NEW i \in Instance, Stop(i) \/ Crash(i)
  PROVE  TypeOK'
<1>1. CASE Terminate(i)
  BY <1>1 DEF Terminate, Step, TypeOK
<1>2. CASE Restart(i)
  BY <1>2 DEF Restart, StartUnit, Step, TypeOK
<1>3. CASE DisplayClose(i)
  BY <1>3 DEF DisplayClose, Step, TypeOK
<1>4. CASE Dismiss(i)
  BY <1>4 DEF Dismiss, Step, TypeOK, machine
<1>5. CASE Crash(i)
  BY <1>5, UnsavedType DEF Crash, TypeOK
<1> QED
  BY <1>1, <1>2, <1>3, <1>4, <1>5 DEF Stop

LEMMA GuardType ==
  ASSUME TypeOK, NEW i \in Instance, Guard(i)
  PROVE  TypeOK'
<1>1. CASE CleanRepeats(i)
  BY <1>1 DEF CleanRepeats, Clean, TypeOK, Repeat
<1>2. CASE CleanConsoles(i)
  BY <1>2 DEF CleanConsoles, Clean, TypeOK
<1>3. CASE CleanKills(i)
  BY <1>3 DEF CleanKills, Clean, TypeOK
<1>4. CASE CleanUnits(i)
  BY <1>4 DEF CleanUnits, Clean, StartUnit, TypeOK
<1> QED
  BY <1>1, <1>2, <1>3, <1>4 DEF Guard

LEMMA MachineType ==
  ASSUME TypeOK, Machine
  PROVE  TypeOK'
<1>1. CASE PrivateDies
  BY <1>1 DEF PrivateDies, process, TypeOK
<1>2. ASSUME NEW k \in Keyboard, NEW r \in Rate, SetRate(k, r)
      PROVE  TypeOK'
  BY <1>2 DEF SetRate, process, TypeOK
<1> QED
  BY <1>1, <1>2 DEF Machine

\* Every variable keeps to its type, for any btkeys, keyboards and repeats,
\* whatever they are killed at.
THEOREM TypeCorrect == Spec => []TypeOK
<1>1. Init => TypeOK
  <2> SUFFICES ASSUME Init PROVE TypeOK
    OBVIOUS
  <2>1. told \in [Instance -> Debt]
    BY UntoldType DEF Init
  <2>2. rate \in [Keyboard -> Rate \cup {Off}] /\ wanted \in [Keyboard -> Rate]
    BY DEF Init
  <2> QED
    BY <2>1, <2>2, UnsavedType DEF Init, TypeOK, Debt
<1>2. TypeOK /\ [Next]_vars => TypeOK'
  <2> SUFFICES ASSUME TypeOK, [Next]_vars PROVE TypeOK'
    OBVIOUS
  <2>1. CASE UNCHANGED vars
    BY <2>1 DEF vars, process, machine, TypeOK
  <2> QED
    BY <2>1, StartType, ServeType, StopType, GuardType, MachineType DEF Next
<1> QED
  BY <1>1, <1>2, PTL DEF Spec

-----------------------------------------------------------------------------
(***************************************************************************)
(* The lock.                                                               *)
(***************************************************************************)
HasLock(i) == Busy(i) => lock = i

LockInv == \A i \in Instance : HasLock(i)

LEMMA LockTaken ==
  ASSUME TypeOK, LockInv, NEW i \in Instance, Hold(i)
  PROVE  LockInv'
<1> SUFFICES ASSUME NEW j \in Instance, j # i PROVE ~Busy(j)'
  BY DEF Hold, LockInv, HasLock
<1>1. ~Busy(j)
  BY DEF Hold, Free, LockInv, HasLock, Busy
<1> QED
  BY <1>1 DEF Hold, TypeOK, Busy

\* No step but Hold makes anybody busy, or gives the lock to another.
LEMMA LockKept ==
  ASSUME TypeOK, LockInv, NEW i \in Instance, Busy(i), lock' = lock,
         pc' = pc \/ \E s : pc' = [pc EXCEPT ![i] = s],
         guard' = guard \/ \E s : guard' = [guard EXCEPT ![i] = s]
  PROVE  LockInv'
<1> SUFFICES ASSUME NEW j \in Instance, Busy(j)' PROVE Busy(j)
  BY DEF LockInv, HasLock
<1> QED
  BY DEF TypeOK, Busy

LEMMA LockInductive ==
  ASSUME TypeOK, LockInv, [Next]_vars
  PROVE  LockInv'
<1>1. ASSUME NEW i \in Instance, Start(i), ~Hold(i)
      PROVE  LockInv'
  BY <1>1, LockKept DEF Start, DisplayStart, AskUnit, StopUnit, Spawn,
       KillOnDeath, Started, Fail, Step, Busy, machine
<1>2. ASSUME NEW i \in Instance, Serve(i)
      PROVE  LockInv'
  BY <1>2, LockKept DEF Serve, RestoreOnDeath, ForgetRepeat, Quit, Hush,
       Restore, Step, Busy, machine
<1>3. ASSUME NEW i \in Instance, Stop(i) \/ Crash(i)
      PROVE  LockInv'
  BY <1>3, LockKept DEF Stop, Terminate, Restart, DisplayClose, Dismiss,
       Crash, Step, Busy, machine
<1>4. ASSUME NEW i \in Instance, Guard(i)
      PROVE  LockInv'
  BY <1>4, LockKept DEF Guard, CleanRepeats, CleanConsoles, CleanKills,
       CleanUnits, Clean, Busy
<1>5. CASE Machine \/ UNCHANGED vars
  BY <1>5 DEF Machine, PrivateDies, SetRate, vars, process, LockInv, HasLock,
       Busy
<1> QED
  BY <1>1, <1>2, <1>3, <1>4, <1>5, LockTaken DEF Next

\* One btkey at a time, its guardian's cleanup included: no second one takes
\* the machine over before the last has put it back (single.hold, guardian).
THEOREM OnlyOne == Spec => []OneAtATime
<1>1. Init => LockInv
  BY DEF Init, LockInv, HasLock, Busy
<1>2. TypeOK /\ LockInv /\ [Next]_vars => LockInv'
  BY LockInductive
<1>3. LockInv => OneAtATime
  BY DEF LockInv, HasLock, OneAtATime
<1> QED
  BY <1>1, <1>2, <1>3, TypeCorrect, PTL DEF Spec

-----------------------------------------------------------------------------
(***************************************************************************)
(* Whoever takes a step is the only one at work, and a guardian waits      *)
(* exactly as long as its btkey lives.                                     *)
(***************************************************************************)
StepOf(i) == Start(i) \/ Serve(i) \/ Stop(i) \/ Crash(i) \/ Guard(i)

Live(i) == pc[i] \notin {"idle", "dead"}

GuardInv ==
  \A i \in Instance :
    /\ guard[i] = "waiting" <=> Live(i)
    /\ guard[i] \notin {"none", "waiting"} => pc[i] = "dead"

\* The others are idle or dead and done with, and stay as they are.
Aside(j) ==
  /\ ~Busy(j)
  /\ pc'[j] = pc[j] /\ guard'[j] = guard[j]
  /\ told'[j] = told[j] /\ was'[j] = was[j]

LEMMA Alone ==
  ASSUME TypeOK, LockInv, NEW i \in Instance, StepOf(i),
         NEW j \in Instance, j # i
  PROVE  Aside(j)
<1>1. CASE Start(i)
  <2>1. ~Busy(j)
    <3>1. CASE Hold(i)
      BY <3>1 DEF Hold, Free, LockInv, HasLock, Busy
    <3>2. CASE ~Hold(i)
      BY <1>1, <3>2 DEF Start, DisplayStart, AskUnit, StopUnit, Spawn,
         KillOnDeath, Started, Fail, Step, LockInv, HasLock, Busy
    <3> QED BY <3>1, <3>2
  <2> QED
    BY <1>1, <2>1 DEF Start, Hold, DisplayStart, AskUnit, StopUnit, Spawn,
       KillOnDeath, Started, Fail, Step, TypeOK, Aside
<1>2. CASE Serve(i)
  BY <1>2 DEF Serve, RestoreOnDeath, ForgetRepeat, Quit, Hush, Restore, Step,
     LockInv, HasLock, Busy, TypeOK, Aside
<1>3. CASE Stop(i)
  BY <1>3 DEF Stop, Terminate, Restart, DisplayClose, Dismiss, Step,
     LockInv, HasLock, Busy, TypeOK, Aside
<1>4. CASE Crash(i)
  BY <1>4 DEF Crash, LockInv, HasLock, Busy, TypeOK, Aside
<1>5. CASE Guard(i)
  BY <1>5 DEF Guard, CleanRepeats, CleanConsoles, CleanKills, CleanUnits,
     Clean, LockInv, HasLock, Busy, TypeOK, Aside
<1> QED BY <1>1, <1>2, <1>3, <1>4, <1>5 DEF StepOf

LEMMA GuardInductive ==
  ASSUME TypeOK, LockInv, GuardInv, [Next]_vars
  PROVE  GuardInv'
<1>1. ASSUME NEW i \in Instance, StepOf(i)
      PROVE  GuardInv'
  <2>1. /\ guard'[i] = "waiting" <=> Live(i)'
        /\ guard'[i] \notin {"none", "waiting"} => pc'[i] = "dead"
    <3>1. CASE Start(i)
      BY <3>1 DEF Start, Hold, DisplayStart, AskUnit, StopUnit, Spawn,
         KillOnDeath, Started, Fail, Step, TypeOK, GuardInv, Live
    <3>2. CASE Serve(i)
      BY <3>2 DEF Serve, RestoreOnDeath, ForgetRepeat, Quit, Hush, Restore,
         Step, TypeOK, GuardInv, Live
    <3>3. CASE Stop(i) \/ Crash(i)
      BY <3>3 DEF Stop, Terminate, Restart, DisplayClose, Dismiss, Crash,
         Step, TypeOK, GuardInv, Live
    <3>4. CASE Guard(i)
      BY <3>4 DEF Guard, CleanRepeats, CleanConsoles, CleanKills, CleanUnits,
         Clean, TypeOK, GuardInv, Live
    <3> QED BY <1>1, <3>1, <3>2, <3>3, <3>4 DEF StepOf
  <2> QED BY <1>1, <2>1, Alone DEF GuardInv, Aside, Live
<1>2. CASE Machine \/ UNCHANGED vars
  BY <1>2 DEF Machine, PrivateDies, SetRate, vars, process, GuardInv, Live
<1> QED BY <1>1, <1>2 DEF Next, StepOf

LEMMA SoleInvariant == Spec => [](TypeOK /\ LockInv /\ GuardInv)
<1>1. Init => LockInv /\ GuardInv
  BY DEF Init, LockInv, HasLock, Busy, GuardInv, Live
<1>2. TypeOK /\ LockInv /\ [Next]_vars => LockInv'
  BY LockInductive
<1>3. TypeOK /\ LockInv /\ GuardInv /\ [Next]_vars => GuardInv'
  BY GuardInductive
<1> QED BY <1>1, <1>2, <1>3, TypeCorrect, PTL DEF Spec

-----------------------------------------------------------------------------
(***************************************************************************)
(* One bluetoothd.  The unit is stopped before a private one is spawned:   *)
(* from the moment btkey has asked, it knows if there is one to stop; once *)
(* it has, nothing starts the unit underneath it.                          *)
(***************************************************************************)
DaemonInv ==
  /\ \A i \in Instance : pc[i] = "asked" /\ unit = "active" => was[i]
  /\ \A i \in Instance : pc[i] = "stopped" => unit # "active"
  /\ OneDaemon

LEMMA DaemonInductive ==
  ASSUME TypeOK, LockInv, GuardInv, DaemonInv, [Next]_vars
  PROVE  DaemonInv'
<1>1. ASSUME NEW i \in Instance, StepOf(i)
      PROVE  DaemonInv'
  <2>1. ASSUME NEW j \in Instance, j # i
        PROVE  pc'[j] \notin {"asked", "stopped"}
    BY <1>1, <2>1, Alone DEF Aside, Busy
  <2>2. /\ pc'[i] = "asked" /\ unit' = "active" => was'[i]
        /\ pc'[i] = "stopped" => unit' # "active"
        /\ OneDaemon'
    <3>1. CASE Start(i)
      BY <3>1 DEF Start, Hold, DisplayStart, AskUnit, StopUnit, Spawn,
         KillOnDeath, Started, Fail, Step, TypeOK, DaemonInv, OneDaemon, machine
    <3>2. CASE Serve(i)
      BY <3>2 DEF Serve, RestoreOnDeath, ForgetRepeat, Quit, Hush, Restore,
         Step, TypeOK, DaemonInv, OneDaemon, machine
    <3>3. CASE Stop(i) \/ Crash(i)
      BY <3>3 DEF Stop, Terminate, Restart, StartUnit, DisplayClose, Dismiss,
         Crash, Step, TypeOK, DaemonInv, OneDaemon, machine
    <3>4. CASE Guard(i)
      BY <3>4 DEF Guard, CleanRepeats, CleanConsoles, CleanKills, CleanUnits,
         Clean, StartUnit, TypeOK, GuardInv, DaemonInv, OneDaemon
    <3> QED BY <1>1, <3>1, <3>2, <3>3, <3>4 DEF StepOf
  <2> QED BY <2>1, <2>2 DEF DaemonInv
<1>2. CASE Machine \/ UNCHANGED vars
  BY <1>2 DEF Machine, PrivateDies, SetRate, vars, process, machine, DaemonInv,
     OneDaemon
<1> QED BY <1>1, <1>2 DEF Next, StepOf

\* The system's bluetoothd is never started underneath the private one that a
\* btkey is using (ManagedBluetoothd), whatever it is killed at, and however
\* slowly, or never, a private one dies.
THEOREM DaemonIsOne == Spec => []OneDaemon
<1>1. Init => DaemonInv
  BY DEF Init, DaemonInv, OneDaemon
<1>2. TypeOK /\ LockInv /\ GuardInv /\ DaemonInv /\ [Next]_vars => DaemonInv'
  BY DaemonInductive
<1>3. DaemonInv => OneDaemon
  BY DEF DaemonInv
<1> QED BY <1>1, <1>2, <1>3, SoleInvariant, PTL DEF Spec

-----------------------------------------------------------------------------
(***************************************************************************)
(* An invariant of what is changed on the machine says one thing of the    *)
(* one that is at work, and another of a machine left alone: P(i) while i  *)
(* is busy, Q while nobody is.                                             *)
(***************************************************************************)
LEMMA OthersAside ==
  ASSUME TypeOK, LockInv, NEW i \in Instance, StepOf(i)
  PROVE  \A j \in Instance \ {i} : ~Busy(j) /\ ~Busy(j)'
BY Alone DEF Aside, Busy

(***************************************************************************)
(* The repeats.  What is saved of a keyboard is what its user wants, and   *)
(* the guardian knows of it but for the one keyboard it is being told of.  *)
(* A keyboard that does not repeat as wanted is one that is saved so, or   *)
(* one the guardian is about to put right.                                 *)
(***************************************************************************)
NoMidCrash == "midcrash" \notin Environment

Holding(i) == pc[i] \in {"serving", "telling", "settling", "leaving",
                         "resettling"}

Owing(i) == pc[i] \in {"telling", "settling", "resettling"}

RepeatsOf(i) ==
  /\ \A k \in Keyboard : saved[k] \in {None, wanted[k]}
  /\ ~Holding(i) => saved = Unsaved
  /\ owing \in Keyboard <=> Owing(i)
  /\ pc[i] \in {"settling", "resettling"} => saved[owing] = None
  /\ guard[i] = "waiting" =>
       \A k \in Keyboard \ {owing} : told[i].repeats[k] = saved[k]
  /\ \A k \in Keyboard : told[i].repeats[k] \in {None, wanted[k]}
  /\ \A k \in Keyboard :
       \/ rate[k] = wanted[k]
       \/ saved[k] = wanted[k]
       \/ guard[i] = "repeats" /\ told[i].repeats[k] = wanted[k]

NoRepeats == rate = wanted /\ saved = Unsaved /\ owing = None

RepeatInv ==
  /\ \A i \in Instance : Busy(i) => RepeatsOf(i)
  /\ (\A i \in Instance : ~Busy(i)) => NoRepeats

\* Of the steps of a btkey, those that have to do with a repeat.
Repeats(i) ==
  \/ RestoreOnDeath(i) \/ ForgetRepeat(i) \/ Crash(i) \/ CleanRepeats(i)
  \/ \E k \in Keyboard : Hush(i, k) \/ Restore(i, k)

LEMMA ElseUntouched ==
  ASSUME TypeOK, GuardInv, NEW i \in Instance,
         StepOf(i), ~Repeats(i), ~Hold(i)
  PROVE  /\ Busy(i)
         /\ UNCHANGED <<saved, owing, rate, wanted>>
         /\ told'[i].repeats = told[i].repeats
         /\ guard[i] # "repeats" /\ guard'[i] # "repeats"
         /\ guard'[i] = "waiting" => guard[i] = "waiting"
         /\ ~Owing(i) /\ ~Owing(i)'
         /\ Holding(i) => Holding(i)' \/ saved = Unsaved
<1>a. /\ [told[i] EXCEPT !.unit = was'[i]].repeats = told[i].repeats
      /\ [told[i] EXCEPT !.kill = TRUE].repeats = told[i].repeats
  BY DEF TypeOK
<1>1. CASE Start(i)
  BY <1>a, <1>1 DEF Start, DisplayStart, AskUnit, StopUnit, Spawn, KillOnDeath,
     Started, Fail, Step, TypeOK, GuardInv, Live, Busy, Owing, Holding, machine
<1>2. CASE Quit(i)
  BY <1>2 DEF Quit, Step, TypeOK, GuardInv, Live, Busy, Owing, Holding, machine
<1>3. CASE Stop(i)
  BY <1>3 DEF Stop, Terminate, Restart, DisplayClose, Dismiss, Step, TypeOK,
     GuardInv, Live, Busy, Owing, Holding, machine
<1>4. CASE Guard(i)
  BY <1>4 DEF Repeats, Guard, CleanConsoles, CleanKills, CleanUnits, Clean,
     TypeOK, GuardInv, Live, Busy, Owing, Holding
<1> QED BY <1>1, <1>2, <1>3, <1>4 DEF StepOf, Serve, Repeats

LEMMA RepeatsStep ==
  ASSUME NoMidCrash, TypeOK, GuardInv, NEW i \in Instance, Busy(i),
         RepeatsOf(i), Repeats(i)
  PROVE  Busy(i)' /\ RepeatsOf(i)'
<1> USE LifetimeAssumption
<1>1. ASSUME NEW k \in Keyboard, Hush(i, k)
      PROVE  Busy(i)' /\ RepeatsOf(i)'
  BY <1>1 DEF Hush, Step, TypeOK, Busy, RepeatsOf, GuardInv, Live, Owing, Holding
<1>2. ASSUME NEW k \in Keyboard, Restore(i, k)
      PROVE  Busy(i)' /\ RepeatsOf(i)'
  BY <1>2 DEF Restore, Step, TypeOK, Busy, RepeatsOf, GuardInv, Live, Owing, Holding
<1>3. CASE RestoreOnDeath(i)
  BY <1>3 DEF RestoreOnDeath, Step, TypeOK, Busy, RepeatsOf, GuardInv, Live, Owing, Holding, machine
<1>4. CASE ForgetRepeat(i)
  BY <1>4 DEF ForgetRepeat, Step, TypeOK, Busy, RepeatsOf, GuardInv, Live, Owing, Holding, machine
<1>5. CASE Crash(i)
  BY <1>5 DEF Crash, NoMidCrash, TypeOK, Busy, RepeatsOf, GuardInv, Live, Owing, Holding, Unsaved
<1>6. CASE CleanRepeats(i)
  BY <1>6 DEF CleanRepeats, Clean, TypeOK, Busy, RepeatsOf, GuardInv, Live, Owing, Holding
<1> QED BY <1>1, <1>2, <1>3, <1>4, <1>5, <1>6 DEF Repeats

LEMMA RepeatInductive ==
  ASSUME NoMidCrash, TypeOK, TypeOK', LockInv, GuardInv, RepeatInv,
         [Next]_vars
  PROVE  RepeatInv'
<1> USE LifetimeAssumption
<1>1. ASSUME NEW i \in Instance, StepOf(i)
      PROVE  RepeatInv'
  <2>1. \A j \in Instance \ {i} : ~Busy(j) /\ ~Busy(j)'
    BY <1>1, OthersAside
  <2>2. SUFFICES /\ Busy(i)' => RepeatsOf(i)'
                 /\ ~Busy(i)' => NoRepeats'
    BY <2>1 DEF RepeatInv
  <2>3. CASE Hold(i)
    <3>1. NoRepeats
      BY <2>1, <2>3 DEF Hold, RepeatInv, Busy
    <3>2. told'[i].repeats = Unsaved /\ pc'[i] = "held" /\ guard'[i] = "waiting"
      BY <2>3 DEF Hold, TypeOK, Untold, Unsaved
    <3> QED BY <2>3, <3>1, <3>2 DEF Hold, machine, NoRepeats, RepeatsOf,
               Unsaved, Holding, Owing, Busy
  <2>4. CASE Repeats(i)
    <3>1. Busy(i)
      BY <2>4 DEF Repeats, RestoreOnDeath, ForgetRepeat, Crash, CleanRepeats,
         Hush, Restore, Step, Clean, Busy
    <3> QED BY <2>4, <3>1, RepeatsStep DEF RepeatInv
  <2>5. CASE ~Hold(i) /\ ~Repeats(i)
    <3>1. Busy(i) /\ RepeatsOf(i)
      BY <1>1, <2>5, ElseUntouched DEF RepeatInv
    <3>2. RepeatsOf(i)'
      BY <1>1, <2>5, <3>1, ElseUntouched DEF RepeatsOf, Owing
    <3>3. ~Busy(i)' => NoRepeats'
      <4> SUFFICES ASSUME ~Busy(i)' PROVE NoRepeats'
        OBVIOUS
      <4>1. saved' = Unsaved
        BY <3>2 DEF Holding, Busy, RepeatsOf
      <4>2. owing' = None
        BY <3>2 DEF RepeatsOf, Owing, Busy, TypeOK
      <4>3. \A k \in Keyboard : rate'[k] = wanted'[k]
        <5>1. \A k \in Keyboard : wanted'[k] # None /\ saved'[k] = None
          BY <4>1 DEF TypeOK, Unsaved
        <5>2. guard'[i] # "repeats"
          BY DEF Busy
        <5> QED BY <3>2, <5>1, <5>2 DEF RepeatsOf
      <4>4. rate' = wanted'
        <5>1. rate' \in [Keyboard -> Rate \cup {Off}] /\ wanted' \in [Keyboard -> Rate]
          BY DEF TypeOK
        <5> QED BY <4>3, <5>1
      <4> QED BY <4>1, <4>2, <4>4 DEF NoRepeats
    <3> QED BY <3>2, <3>3
  <2> QED BY <2>3, <2>4, <2>5
<1>2. ASSUME NEW k \in Keyboard, NEW r \in Rate, SetRate(k, r)
      PROVE  RepeatInv'
  <2>1. UNCHANGED process
    BY <1>2 DEF SetRate
  <2>2. ASSUME NEW i \in Instance, Busy(i)' PROVE RepeatsOf(i)'
    <3>1. Busy(i) /\ RepeatsOf(i)
      BY <2>1, <2>2 DEF process, Busy, RepeatInv
    <3>2. guard[i] = "waiting" /\ saved[k] = None /\ owing # k
          /\ rate' = [rate EXCEPT ![k] = r] /\ wanted' = [wanted EXCEPT ![k] = r]
      BY <1>2, <3>1 DEF SetRate, Busy, GuardInv, Live
    <3> QED BY <2>1, <3>1, <3>2 DEF process, RepeatsOf, TypeOK, Holding, Owing
  <2>3. (\A i \in Instance : ~Busy(i)') => NoRepeats'
    BY <1>2, <2>1 DEF SetRate, process, Busy, RepeatInv, NoRepeats, TypeOK
  <2> QED BY <2>2, <2>3 DEF RepeatInv
<1>3. CASE PrivateDies \/ UNCHANGED vars
  BY <1>3 DEF PrivateDies, vars, process, machine, RepeatInv, NoRepeats,
     RepeatsOf, Busy, Holding, Owing
<1> QED BY <1>1, <1>2, <1>3 DEF Next, StepOf, Machine

LEMMA RepeatInvariant ==
  ASSUME NoMidCrash
  PROVE  Spec => []RepeatInv
<1>1. Init => RepeatInv
  BY LifetimeAssumption DEF Init, RepeatInv, RepeatsOf, NoRepeats, Busy
<1>2. TypeOK /\ TypeOK' /\ LockInv /\ GuardInv /\ RepeatInv /\ [Next]_vars
        => RepeatInv'
  BY RepeatInductive
<1> QED BY <1>1, <1>2, SoleInvariant, PTL DEF Spec

\* No repeat is put back over what its user has set since (repeat_debt,
\* forget_repeat), provided btkey is not killed between the write that hushes
\* a keyboard and the word to the guardian.
THEOREM NoDebtIsStale ==
  ASSUME NoMidCrash
  PROVE  Spec => []NoStaleDebt
<1>1. RepeatInv => NoStaleDebt
  BY DEF RepeatInv, RepeatsOf, NoStaleDebt, Busy
<1> QED BY <1>1, RepeatInvariant, PTL

-----------------------------------------------------------------------------
(***************************************************************************)
(* The rest of the machine: the scrolling region, the private bluetoothd   *)
(* and the unit.  Each is as it was, or whoever is at work, btkey or its   *)
(* guardian, has still to come to the step that puts it right; and of the  *)
(* unit knows, from the moment it asks until it has put it right, that it  *)
(* has to.                                                                 *)
(***************************************************************************)
Orderly == {"slowdeath", "stuck"} \cap Environment = {}

Shown(i) == pc[i] \notin {"idle", "dead", "held", "closed"}

Spawned(i) == pc[i] \in {"spawned", "waiting", "serving", "telling",
                         "settling", "leaving", "resettling"}

Asked(i) == pc[i] \in {"asked", "stopped", "reaping"} \/ Spawned(i)

MachineOf(i) ==
  /\ told[i].vt
  /\ region => Shown(i) \/ guard[i] \in {"repeats", "consoles"}
  /\ private = "running" => Spawned(i)
  /\ Asked(i) => told[i].unit = was[i]
  /\ pc[i] = "asked" /\ unit = "active" => was[i]
  /\ before => \/ unit = "active"
               \/ told[i].unit /\ (Asked(i) \/ pc[i] = "dead")

NoMachine ==
  /\ ~region
  /\ private # "running"
  /\ before => unit = "active"

MachineInv ==
  /\ \A i \in Instance : Busy(i) => MachineOf(i)
  /\ (\A i \in Instance : ~Busy(i)) => NoMachine

LEMMA MachineStep ==
  ASSUME Orderly, TypeOK, GuardInv, NEW i \in Instance, Busy(i), MachineOf(i),
         StepOf(i), ~Hold(i)
  PROVE  /\ Busy(i)' => MachineOf(i)'
         /\ ~Busy(i)' => NoMachine'
<1>1. CASE Start(i)
  <2>1. Busy(i)' /\ UNCHANGED <<guard, before>>
    BY <1>1 DEF Start, DisplayStart, AskUnit, StopUnit, Spawn, KillOnDeath,
       Started, Fail, Step, TypeOK, Busy, machine
  <2>2. CASE AskUnit(i)
    <3>1. told'[i].vt = told[i].vt /\ told'[i].unit = was'[i]
      BY <2>2 DEF AskUnit, TypeOK
    <3>2. was'[i] <=> unit = "active" \/ enabled
      BY <2>2 DEF AskUnit, TypeOK
    <3> QED BY <2>1, <2>2, <3>1, <3>2 DEF AskUnit, Step, TypeOK, machine,
               MachineOf, Shown, Spawned, Asked
  <2>3. CASE KillOnDeath(i)
    <3>1. told'[i].vt = told[i].vt /\ told'[i].unit = told[i].unit
      BY <2>3 DEF KillOnDeath, TypeOK
    <3> QED BY <2>1, <2>3, <3>1 DEF KillOnDeath, Step, TypeOK, machine,
               MachineOf, Shown, Spawned, Asked
  <2>4. CASE DisplayStart(i) \/ StopUnit(i) \/ Spawn(i) \/ Started(i) \/ Fail(i)
    BY <2>1, <2>4 DEF DisplayStart, StopUnit, Spawn, Started, Fail, Step, TypeOK,
       machine, MachineOf, Shown, Spawned, Asked
  <2> QED BY <1>1, <2>1, <2>2, <2>3, <2>4 DEF Start
<1>2. CASE Serve(i)
  <2>1. /\ told'[i].vt = told[i].vt /\ told'[i].unit = told[i].unit
        /\ UNCHANGED <<guard, was, unit, private, region, before>>
    BY <1>2 DEF Serve, RestoreOnDeath, ForgetRepeat, Quit, Hush, Restore,
       TypeOK, machine
  <2>2. Shown(i) /\ Shown(i)' /\ Spawned(i) /\ Spawned(i)'
    BY <1>2 DEF Serve, RestoreOnDeath, ForgetRepeat, Quit, Hush, Restore,
       Step, TypeOK, Shown, Spawned
  <2> QED BY <2>1, <2>2 DEF MachineOf, Asked, Busy, Spawned
<1>3. CASE Stop(i)
  BY <1>3 DEF Stop, Terminate, Restart, StartUnit, DisplayClose, Dismiss,
     Orderly, Step, TypeOK, GuardInv, Live, Busy, machine,
     MachineOf, NoMachine, Shown, Spawned, Asked
<1>4. CASE Crash(i)
  BY <1>4 DEF Crash, TypeOK, GuardInv, Live, Busy, machine,
     MachineOf, NoMachine, Shown, Spawned, Asked
<1>5. CASE Guard(i)
  <2>1. pc[i] = "dead" /\ UNCHANGED <<pc, told, was, before>>
    BY <1>5 DEF Guard, CleanRepeats, CleanConsoles, CleanKills, CleanUnits,
       Clean, GuardInv
  <2>2. region' => guard'[i] \in {"repeats", "consoles"}
    BY <1>5, <2>1 DEF Guard, CleanRepeats, CleanConsoles, CleanKills,
       CleanUnits, Clean, TypeOK, MachineOf, Shown
  <2>3. private' # "running"
    BY <1>5, <2>1 DEF Guard, CleanRepeats, CleanConsoles, CleanKills,
       CleanUnits, Clean, MachineOf, Spawned
  <2>4. CASE CleanUnits(i)
    BY <2>1, <2>2, <2>3, <2>4 DEF CleanUnits, Clean, StartUnit, Orderly, TypeOK,
       MachineOf, NoMachine, Busy, Asked, Spawned
  <2>5. CASE ~CleanUnits(i)
    BY <1>5, <2>1, <2>2, <2>3, <2>5 DEF Guard, CleanRepeats, CleanConsoles,
       CleanKills, Clean, TypeOK, MachineOf, Busy, Asked, Spawned
  <2> QED BY <2>4, <2>5
<1> QED BY <1>1, <1>2, <1>3, <1>4, <1>5 DEF StepOf

LEMMA MachineInductive ==
  ASSUME Orderly, TypeOK, LockInv, GuardInv, MachineInv, [Next]_vars
  PROVE  MachineInv'
<1>1. ASSUME NEW i \in Instance, StepOf(i)
      PROVE  MachineInv'
  <2>1. \A j \in Instance \ {i} : ~Busy(j) /\ ~Busy(j)'
    BY <1>1, OthersAside
  <2>2. SUFFICES /\ Busy(i)' => MachineOf(i)'
                 /\ ~Busy(i)' => NoMachine'
    BY <2>1 DEF MachineInv
  <2>3. CASE Hold(i)
    <3>1. NoMachine
      BY <2>1, <2>3 DEF Hold, MachineInv, Busy
    <3>2. told'[i].vt /\ pc'[i] = "held" /\ guard'[i] = "waiting"
      BY <2>3 DEF Hold, TypeOK, Untold
    <3> QED BY <2>3, <3>1, <3>2 DEF Hold, machine, NoMachine, MachineOf,
               Shown, Spawned, Asked, Busy
  <2>4. CASE ~Hold(i)
    <3>1. Busy(i)
      BY <1>1, <2>4 DEF StepOf, Start, DisplayStart, AskUnit, StopUnit, Spawn,
         KillOnDeath, Started, Fail, Serve, RestoreOnDeath, ForgetRepeat, Quit,
         Hush, Restore, Stop, Terminate, Restart, DisplayClose, Dismiss, Crash,
         Guard, CleanRepeats, CleanConsoles, CleanKills, CleanUnits, Clean,
         Step, Busy
    <3> QED BY <1>1, <2>4, <3>1, MachineStep DEF MachineInv
  <2> QED BY <2>3, <2>4
<1>2. CASE Machine \/ UNCHANGED vars
  BY <1>2 DEF Machine, PrivateDies, SetRate, vars, process, machine, MachineInv,
     NoMachine, MachineOf, Busy, Shown, Spawned, Asked
<1> QED BY <1>1, <1>2 DEF Next, StepOf

\* When no btkey and no guardian is left, however the last one ended, the
\* machine is as it was (guardian.py, Session.run): for a btkey killed at any
\* step but the one between hushing a keyboard and telling of it, and a
\* private bluetoothd that does die when it is told to, before the unit is
\* started.
THEOREM MachineIsPutBack ==
  ASSUME NoMidCrash, Orderly
  PROVE  Spec => []PutBack
<1>1. Init => MachineInv
  BY DEF Init, MachineInv, NoMachine, Busy
<1>2. TypeOK /\ LockInv /\ GuardInv /\ MachineInv /\ [Next]_vars => MachineInv'
  BY MachineInductive
<1>3. RepeatInv /\ MachineInv => PutBack
  BY DEF RepeatInv, NoRepeats, MachineInv, NoMachine, PutBack
<1> QED BY <1>1, <1>2, <1>3, SoleInvariant, RepeatInvariant, PTL DEF Spec
=============================================================================
