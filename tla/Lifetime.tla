------------------------------ MODULE Lifetime ------------------------------
(***************************************************************************)
(* What btkey does to the machine, and how it is undone: cli.main, the     *)
(* lock of single.hold, Session.run, ManagedBluetoothd, and the guardian's *)
(* record and cleanup, for btkeys started by anyone at any time, each of   *)
(* which may be killed between any two of its steps.                       *)
(*                                                                         *)
(* The pipe to the guardian loses nothing, and ends when btkey does: what  *)
(* it has recorded by then is what it was told.                            *)
(***************************************************************************)
CONSTANTS
  Instance,    \* the btkeys somebody starts
  Keyboard,    \* the keyboards
  Rate,        \* the key repeats a user sets
  Off,         \* the repeat of a hushed keyboard
  None,        \* nobody; and nothing saved
  Environment  \* what may happen around btkey; see Events below

(***************************************************************************)
(* btkey killed; killed also between hushing a keyboard and saying so; the *)
(* private bluetoothd slow to die, so that it still has the name when the  *)
(* guardian starts the unit; or not dying at all for btkey's own stop.     *)
(***************************************************************************)
Events == {"crash", "midcrash", "slowdeath", "stuck"}

ASSUME LifetimeAssumption ==
  /\ Off \notin Rate /\ None \notin Rate /\ None # Off
  /\ None \notin Instance /\ None \notin Keyboard
  /\ Environment \subseteq Events

VARIABLES
  pc,       \* where each btkey is in cli.main
  guard,    \* and each guardian
  told,     \* what it has been told to undo
  was,      \* ManagedBluetoothd.unit_was_active
  saved,    \* InputDevice.saved_repeat of the btkey that serves
  owing,    \* the keyboard it has not told the guardian about yet
  lock,     \* who took the lock, and has it until the guardian ends too
  unit,     \* bluetooth.service is "active", "inactive" or has "failed"
  enabled,  \* and enabled
  private,  \* the private bluetoothd: "none", "running" or "dying"
  region,   \* the console has a scrolling region
  rate,     \* each keyboard's key repeat
  wanted,   \* what its user last set
  before    \* the unit was active before the first btkey

process == <<pc, guard, told, was, saved, owing, lock>>
machine == <<unit, enabled, private, region, rate, wanted, before>>
vars    == <<process, machine>>

-----------------------------------------------------------------------------
Step(i, from, to) == pc[i] = from /\ pc' = [pc EXCEPT ![i] = to]

Untold == [vt |-> FALSE, unit |-> FALSE, kill |-> FALSE,
           repeats |-> [k \in Keyboard |-> None]]

Unsaved == [k \in Keyboard |-> None]

\* Mutant: the lock is not inherited by the guardian.
MutFree == \A i \in Instance : lock = i => pc[i] \in {"idle", "dead"}

\* The lock is free once its taker and that one's guardian have both ended.
Free == \A i \in Instance :
          lock = i => pc[i] \in {"idle", "dead"} /\ guard[i] = "none"

(***************************************************************************)
(* Starting: cli.main, Session.run and ManagedBluetoothd.start.            *)
(***************************************************************************)

\* single.hold, guardian.spawn and reset_console_on_death
Hold(i) ==
  /\ pc[i] \in {"idle", "dead"} /\ guard[i] = "none" /\ Free
  /\ lock' = i
  /\ pc' = [pc EXCEPT ![i] = "held"]
  /\ guard' = [guard EXCEPT ![i] = "waiting"]
  /\ told' = [told EXCEPT ![i] = [Untold EXCEPT !.vt = TRUE]]
  /\ saved' = Unsaved /\ owing' = None
  /\ was' = [was EXCEPT ![i] = FALSE]
  /\ UNCHANGED machine

DisplayStart(i) ==
  /\ Step(i, "held", "shown")
  /\ region' = TRUE
  /\ UNCHANGED <<guard, told, was, saved, owing, lock, unit, enabled, private,
                 rate, wanted, before>>

\* Mutant: the guardian not told before the unit is stopped.
MutAskUnit(i) ==
  /\ Step(i, "shown", "asked")
  /\ was' = [was EXCEPT ![i] = unit = "active" \/ enabled]
  /\ UNCHANGED <<told, guard, saved, owing, lock, machine>>

AskUnit(i) ==
  /\ Step(i, "shown", "asked")
  /\ was' = [was EXCEPT ![i] = unit = "active" \/ enabled]
  /\ told' = [told EXCEPT ![i].unit = was'[i]]
  /\ UNCHANGED <<guard, saved, owing, lock, machine>>

StopUnit(i) ==
  /\ Step(i, "asked", "stopped")
  /\ unit' = IF was[i] THEN "inactive" ELSE unit
  /\ UNCHANGED <<guard, told, was, saved, owing, lock, enabled, private,
                 region, rate, wanted, before>>

\* _spawn: a second one cannot have the name, and exits
Spawn(i) ==
  /\ Step(i, "stopped", "spawned")
  /\ private' = IF private = "none" THEN "running" ELSE private
  /\ UNCHANGED <<guard, told, was, saved, owing, lock, unit, enabled, region,
                 rate, wanted, before>>

KillOnDeath(i) ==
  /\ Step(i, "spawned", "waiting")
  /\ told' = [told EXCEPT ![i].kill = TRUE]
  /\ UNCHANGED <<guard, was, saved, owing, lock, machine>>

\* _wait_for_adapter, link.start and advertising.start, that may each fail
Started(i) ==
  /\ Step(i, "waiting", "serving") /\ private = "running"
  /\ UNCHANGED <<guard, told, was, saved, owing, lock, machine>>

Fail(i) ==
  /\ Step(i, "waiting", "leaving")
  /\ UNCHANGED <<guard, told, was, saved, owing, lock, machine>>

-----------------------------------------------------------------------------
(***************************************************************************)
(* Serving: KeyboardSet.take and release, each a write to the keyboard and *)
(* then a word to the guardian (Session.repeat_debt).                      *)
(***************************************************************************)
Hush(i, k) ==
  /\ Step(i, "serving", "telling")
  /\ saved[k] = None
  /\ saved' = [saved EXCEPT ![k] = rate[k]]
  /\ rate' = [rate EXCEPT ![k] = Off]
  /\ owing' = k
  /\ UNCHANGED <<guard, told, was, lock, unit, enabled, private, region,
                 wanted, before>>

RestoreOnDeath(i) ==
  /\ Step(i, "telling", "serving")
  /\ told' = [told EXCEPT ![i].repeats[owing] = saved[owing]]
  /\ owing' = None
  /\ UNCHANGED <<guard, was, saved, lock, machine>>

\* A release, by switching away or in the teardown, and what comes after it
Restore(i, k) ==
  /\ \/ Step(i, "serving", "settling")
     \/ Step(i, "leaving", "resettling")
  /\ saved[k] # None
  /\ rate' = [rate EXCEPT ![k] = saved[k]]
  /\ saved' = [saved EXCEPT ![k] = None]
  /\ owing' = k
  /\ UNCHANGED <<guard, told, was, lock, unit, enabled, private, region,
                 wanted, before>>

\* Mutant: NOREPEAT never sent.
MutForgetRepeat(i) ==
  /\ Step(i, "settling", "serving") \/ Step(i, "resettling", "leaving")
  /\ owing' = None
  /\ UNCHANGED <<guard, told, was, saved, lock, machine>>

ForgetRepeat(i) ==
  /\ Step(i, "settling", "serving") \/ Step(i, "resettling", "leaving")
  /\ told' = [told EXCEPT ![i].repeats[owing] = None]
  /\ owing' = None
  /\ UNCHANGED <<guard, was, saved, lock, machine>>

Quit(i) ==
  /\ Step(i, "serving", "leaving")
  /\ UNCHANGED <<guard, told, was, saved, owing, lock, machine>>

-----------------------------------------------------------------------------
(***************************************************************************)
(* Stopping: the finally of run, ManagedBluetoothd.stop, and dismiss.      *)
(***************************************************************************)

\* The unit started while another has its name fails.
StartUnit == unit' = IF unit = "active" THEN unit
                     ELSE IF private = "none" THEN "active" ELSE "failed"

Terminate(i) ==
  /\ Step(i, "leaving", "reaping") /\ saved = Unsaved
  /\ private' = IF private = "running" THEN "dying" ELSE private
  /\ UNCHANGED <<guard, told, was, saved, owing, lock, unit, enabled, region,
                 rate, wanted, before>>

\* It is waited for, and given up on when even SIGKILL does not do.
Restart(i) ==
  /\ Step(i, "reaping", "restarted")
  /\ private = "none" \/ "stuck" \in Environment
  /\ IF was[i] THEN StartUnit ELSE UNCHANGED unit
  /\ was' = [was EXCEPT ![i] = FALSE]
  /\ UNCHANGED <<guard, told, saved, owing, lock, enabled, private, region,
                 rate, wanted, before>>

DisplayClose(i) ==
  /\ Step(i, "restarted", "closed")
  /\ region' = FALSE
  /\ UNCHANGED <<guard, told, was, saved, owing, lock, unit, enabled, private,
                 rate, wanted, before>>

\* DONE, and the guardian waited for
Dismiss(i) ==
  /\ Step(i, "closed", "idle")
  /\ guard' = [guard EXCEPT ![i] = "none"]
  /\ UNCHANGED <<told, was, saved, owing, lock, machine>>

-----------------------------------------------------------------------------
(***************************************************************************)
(* Dying badly, and the guardian's _cleanup.                               *)
(***************************************************************************)

\* The private bluetoothd has asked the kernel to die with btkey.
Crash(i) ==
  /\ "crash" \in Environment
  /\ pc[i] \notin {"idle", "dead"}
  /\ pc[i] = "telling" => "midcrash" \in Environment
  /\ pc' = [pc EXCEPT ![i] = "dead"]
  /\ guard' = [guard EXCEPT ![i] = "repeats"]
  /\ private' = IF private = "running" THEN "dying" ELSE private
  /\ saved' = Unsaved /\ owing' = None
  /\ UNCHANGED <<told, was, lock, unit, enabled, region, rate, wanted, before>>

Clean(i, from, to) == guard[i] = from /\ guard' = [guard EXCEPT ![i] = to]

CleanRepeats(i) ==
  /\ Clean(i, "repeats", "consoles")
  /\ rate' = [k \in Keyboard |-> IF told[i].repeats[k] = None THEN rate[k]
                                 ELSE told[i].repeats[k]]
  /\ UNCHANGED <<pc, told, was, saved, owing, lock, unit, enabled, private,
                 region, wanted, before>>

CleanConsoles(i) ==
  /\ Clean(i, "consoles", "kills")
  /\ region' = (region /\ ~told[i].vt)
  /\ UNCHANGED <<pc, told, was, saved, owing, lock, unit, enabled, private,
                 rate, wanted, before>>

CleanKills(i) ==
  /\ Clean(i, "kills", "units")
  /\ private' = IF told[i].kill /\ private = "running" THEN "dying" ELSE private
  /\ UNCHANGED <<pc, told, was, saved, owing, lock, unit, enabled, region,
                 rate, wanted, before>>

CleanUnits(i) ==
  /\ Clean(i, "units", "none")
  /\ private = "none" \/ "slowdeath" \in Environment
  /\ IF told[i].unit THEN StartUnit ELSE UNCHANGED unit
  /\ UNCHANGED <<pc, told, was, saved, owing, lock, enabled, private, region,
                 rate, wanted, before>>

-----------------------------------------------------------------------------
(***************************************************************************)
(* The machine.                                                            *)
(***************************************************************************)
PrivateDies ==
  /\ private = "dying"
  /\ private' = "none"
  /\ UNCHANGED <<process, unit, enabled, region, rate, wanted, before>>

\* The user sets the repeat of a keyboard btkey does not hold, and has no
\* word about on its way to the guardian.
SetRate(k, r) ==
  /\ saved[k] = None /\ owing # k /\ rate[k] # Off
  /\ \A i \in Instance : guard[i] \in {"none", "waiting"}
  /\ rate' = [rate EXCEPT ![k] = r]
  /\ wanted' = [wanted EXCEPT ![k] = r]
  /\ UNCHANGED <<process, unit, enabled, private, region, before>>

Init ==
  /\ pc = [i \in Instance |-> "idle"]
  /\ guard = [i \in Instance |-> "none"]
  /\ told = [i \in Instance |-> Untold]
  /\ was = [i \in Instance |-> FALSE]
  /\ saved = Unsaved /\ owing = None /\ lock = None
  /\ unit \in {"active", "inactive"} /\ enabled \in BOOLEAN
  /\ before = (unit = "active")
  /\ private = "none" /\ region = FALSE
  /\ wanted \in [Keyboard -> Rate] /\ rate = wanted

Start(i) ==
  \/ Hold(i) \/ DisplayStart(i) \/ AskUnit(i) \/ StopUnit(i) \/ Spawn(i)
  \/ KillOnDeath(i) \/ Started(i) \/ Fail(i)

Serve(i) ==
  \/ RestoreOnDeath(i) \/ ForgetRepeat(i) \/ Quit(i)
  \/ \E k \in Keyboard : Hush(i, k) \/ Restore(i, k)

Stop(i) == Terminate(i) \/ Restart(i) \/ DisplayClose(i) \/ Dismiss(i)

Guard(i) ==
  CleanRepeats(i) \/ CleanConsoles(i) \/ CleanKills(i) \/ CleanUnits(i)

Machine == PrivateDies \/ \E k \in Keyboard, r \in Rate : SetRate(k, r)

Next ==
  \/ \E i \in Instance :
       Start(i) \/ Serve(i) \/ Stop(i) \/ Crash(i) \/ Guard(i)
  \/ Machine

Spec == Init /\ [][Next]_vars
-----------------------------------------------------------------------------
(***************************************************************************)
(* Properties.                                                             *)
(***************************************************************************)

Repeat == Rate \cup {Off, None}

\* Every variable keeps to its type; a keyboard found hushed would be saved so.
TypeOK ==
  /\ pc \in [Instance -> {"idle", "held", "shown", "asked", "stopped",
                          "spawned", "waiting", "serving", "telling",
                          "settling", "leaving", "resettling", "reaping",
                          "restarted", "closed", "dead"}]
  /\ guard \in [Instance -> {"none", "waiting", "repeats", "consoles",
                             "kills", "units"}]
  /\ told \in [Instance -> [vt : BOOLEAN, unit : BOOLEAN, kill : BOOLEAN,
                            repeats : [Keyboard -> Repeat]]]
  /\ was \in [Instance -> BOOLEAN]
  /\ saved \in [Keyboard -> Repeat]
  /\ owing \in Keyboard \cup {None} /\ lock \in Instance \cup {None}
  /\ unit \in {"active", "inactive", "failed"} /\ enabled \in BOOLEAN
  /\ private \in {"none", "running", "dying"} /\ region \in BOOLEAN
  /\ rate \in [Keyboard -> Rate \cup {Off}] /\ wanted \in [Keyboard -> Rate]
  /\ before \in BOOLEAN

Busy(i) == pc[i] \notin {"idle", "dead"} \/ guard[i] # "none"

\* One btkey at a time, its guardian's cleanup included: no second one takes
\* the machine over before the last has put it back (single.py).
OneAtATime == \A i, j \in Instance : Busy(i) /\ Busy(j) => i = j

\* The system's bluetoothd is never started underneath the private one that
\* a btkey is using (single.py, ManagedBluetoothd).
OneDaemon == ~(unit = "active" /\ private = "running")

\* When no btkey and no guardian is left, however the last one ended, the
\* machine is as it was: a system bluetoothd if there was one, no private
\* one at work, the whole console, and every keyboard's repeat as its user
\* last set it (guardian.py, Session.run).
PutBack ==
  (\A i \in Instance : ~Busy(i)) =>
    /\ before => unit = "active"
    /\ private # "running"
    /\ ~region
    /\ rate = wanted

\* No repeat is put back over what its user has set since: what the guardian
\* would put back is what it should be (repeat_debt, forget_repeat).
NoStaleDebt ==
  \A i \in Instance : \A k \in Keyboard :
    guard[i] # "none" /\ told[i].repeats[k] # None =>
      told[i].repeats[k] = wanted[k]
=============================================================================
