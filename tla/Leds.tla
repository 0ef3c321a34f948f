--------------------------------- MODULE Leds ---------------------------------
(***************************************************************************)
(* Whose lock state btkey shows: a lock key pressed while forwarding, the  *)
(* host that acts on it and may report what it made of it, and the lights  *)
(* of the keyboards, over a link that comes and goes (Link).               *)
(*                                                                         *)
(* The state of the lock is kept four times: by the host, in               *)
(* BluetoothHID.leds, in Session.leds and in the keyboards' lights.  One   *)
(* lock stands for the five, which are bits of the same masks and toggle   *)
(* apart, and one keyboard for those btkey holds together.                 *)
(***************************************************************************)
EXTENDS Link, Integers, Sequences

CONSTANTS
  LedEnvironment,  \* what may happen around the lights; see LedEvents
  MaxFlight        \* bound: lock keys, or reports, on their way at once

(***************************************************************************)
(* A host that holds the lock when it connects and does not say so; hosts  *)
(* that report among hosts that do not; a console that has its own lock    *)
(* on; and a lock key the host is not told of: one pressed with six others *)
(* down, or down already on a second keyboard.                             *)
(***************************************************************************)
LedEvents == {"silentlock", "mixed", "consolelock", "unheard"}

ASSUME LedsAssumption ==
  /\ LedEnvironment \subseteq LedEvents
  /\ MaxFlight \in Nat \ {0}

VARIABLES
  reporting,    \* the hosts that send LED reports
  lock,         \* the lock, as the host that is connected has it
  keys,         \* lock keys on their way to it
  reports,      \* its reports, on their way to btkey
  linkLeds,     \* BluetoothHID.leds
  leds,         \* Session.leds
  fromHost,     \* Session.leds_from_host
  grabbed,      \* btkey holds the keyboard
  consoleLock,  \* the lock as the console has it, InputDevice.saved_leds
  light,        \* the keyboard's
  written,      \* history: Session wrote it since the link last came or went
  replaced      \* history: this connection came over one not read as gone

flight   == <<lock, keys, reports>>
lights   == <<linkLeds, leds, fromHost, light, written>>
fixed    == <<reporting, consoleLock>>
ledsVars == <<flight, lights, fixed, grabbed, replaced>>
vars     == <<linkVars, ledsVars>>

-----------------------------------------------------------------------------
(***************************************************************************)
(* The link comes and goes.                                                *)
(***************************************************************************)

\* on_connection_state(True): from off, and the lights not written; the
\* link's copy stays if the last connection was not read as gone
ConnectionUp ==
  /\ leds' = FALSE /\ written' = FALSE
  /\ replaced' = (Connected \/ replaced)
  /\ UNCHANGED <<linkLeds, fromHost, light, fixed, grabbed>>

\* A connection starts with nothing on its way; a host that reports says so
\* first if it holds the lock.
Greeting ==
  /\ keys' = 0
  /\ \/ lock' = FALSE /\ reports' = <<>>
     \/ lock' = TRUE /\ \/ announced' \in reporting /\ reports' = <<TRUE>>
                        \/ "silentlock" \in LedEnvironment /\ reports' = <<>>

LinkUp ==
  /\ (\E h \in Host : AdoptInterrupt(h)) \/ InterruptUp
  /\ ConnectionUp /\ Greeting

\* Mutant: the state of a lock that is not ours to show any more, kept.
MutConnectionDown ==
  /\ written' = FALSE
  /\ light' = IF grabbed THEN consoleLock ELSE light
  /\ UNCHANGED leds

\* on_connection_state(False): the console's lights back (restore_leds)
ConnectionDown ==
  /\ leds' = FALSE /\ written' = FALSE
  /\ light' = IF grabbed THEN consoleLock ELSE light

\* Whatever calls disconnect; Session hears only of a link that was up.
LinkDown ==
  /\ Unplugged \/ \E k \in Kind : Lost(k)
  /\ IF Connected THEN ConnectionDown ELSE UNCHANGED <<leds, light, written>>
  /\ linkLeds' = FALSE
  /\ lock' = FALSE /\ keys' = 0 /\ reports' = <<>>
  /\ replaced' = FALSE
  /\ UNCHANGED <<fromHost, fixed, grabbed>>

\* Hosts at the door, and dials that have not come to anything yet
LinkOther ==
  /\ \/ \E h \in Host : \/ Leave(h) \/ AdoptControl(h)
                        \/ \E k \in Kind : Open(h, k) \/ Refuse(h, k)
     \/ Reconnect \/ ControlUp \/ DialFailed
  /\ UNCHANGED ledsVars

-----------------------------------------------------------------------------
(***************************************************************************)
(* Session and the link's copy of the lock.                                *)
(***************************************************************************)

\* apply_leds, and KeyboardSet.set_leds of those held
ApplyLeds(on) ==
  /\ leds' = on /\ written' = TRUE
  /\ light' = IF grabbed THEN on ELSE light

Alive == Connected /\ "interrupt" \notin closed

\* note_lock_key: inferred, until a host has reported
NoteLockKey ==
  IF fromHost THEN UNCHANGED <<leds, light, written>> ELSE ApplyLeds(~leds)

\* handle_key of a lock key: the report is sent, and the lock followed.  The
\* bound is on the keys the host has not acted on.
PressLock ==
  /\ grabbed /\ Alive /\ keys < MaxFlight
  /\ keys' \in {keys + 1} \cup
               (IF "unheard" \in LedEnvironment THEN {keys} ELSE {})
  /\ NoteLockKey
  /\ UNCHANGED <<linkVars, lock, reports, linkLeds, fromHost, fixed, grabbed,
                 replaced>>

\* The host toggles its lock, and reports it if it is one to do so.
HostActs ==
  /\ keys > 0 /\ Alive
  /\ announced \in reporting => Len(reports) < MaxFlight
  /\ keys' = keys - 1
  /\ lock' = ~lock
  /\ reports' = IF announced \in reporting THEN Append(reports, ~lock)
                                           ELSE reports
  /\ UNCHANGED <<linkVars, lights, fixed, grabbed, replaced>>

\* "hosts re-send the report unchanged"
HostResends ==
  /\ Alive /\ announced \in reporting /\ Len(reports) < MaxFlight
  /\ reports' = Append(reports, lock)
  /\ UNCHANGED <<linkVars, lock, keys, lights, fixed, grabbed, replaced>>

\* Mutant: reports compared with a copy that is not kept up.
MutHostLeds(on) == fromHost' = TRUE /\ ApplyLeds(on) /\ UNCHANGED linkLeds

\* on_host_leds, from _note_output_report
HostLeds(on) ==
  /\ linkLeds' = on
  /\ fromHost' = TRUE
  /\ ApplyLeds(on)

\* _note_output_report: a repetition is dropped
ReadReport ==
  /\ Alive /\ reports # <<>>
  /\ reports' = Tail(reports)
  /\ IF Head(reports) = linkLeds THEN UNCHANGED lights
                                 ELSE HostLeds(Head(reports))
  /\ UNCHANGED <<linkVars, lock, keys, fixed, grabbed, replaced>>

-----------------------------------------------------------------------------
(***************************************************************************)
(* The keyboard.                                                           *)
(***************************************************************************)

\* Mutant: nothing claims the lights back.
MutTake ==
  /\ ~grabbed /\ grabbed' = TRUE
  /\ UNCHANGED <<linkVars, flight, lights, fixed, replaced>>

\* take, and push_leds
Take ==
  /\ ~grabbed /\ grabbed' = TRUE
  /\ light' = leds /\ written' = TRUE
  /\ UNCHANGED <<linkVars, flight, linkLeds, leds, fromHost, fixed, replaced>>

\* KeyboardSet.release
Release ==
  /\ grabbed /\ grabbed' = FALSE
  /\ light' = consoleLock
  /\ UNCHANGED <<linkVars, flight, linkLeds, leds, fromHost, written, fixed,
                 replaced>>

-----------------------------------------------------------------------------
LedsInit ==
  /\ Init
  /\ reporting \in IF "mixed" \in LedEnvironment THEN SUBSET Host
                                                 ELSE {{}, Host}
  /\ lock = FALSE /\ keys = 0 /\ reports = <<>>
  /\ linkLeds = FALSE /\ leds = FALSE /\ fromHost = FALSE
  /\ grabbed = FALSE
  /\ consoleLock \in IF "consolelock" \in LedEnvironment THEN BOOLEAN
                                                         ELSE {FALSE}
  /\ light = consoleLock /\ written = FALSE
  /\ replaced = FALSE

LedsNext ==
  \/ LinkUp \/ LinkDown \/ LinkOther
  \/ PressLock \/ HostActs \/ HostResends \/ ReadReport
  \/ Take \/ Release

LedsSpec == LedsInit /\ [][LedsNext]_vars

\* A connect has a timeout of its own, with lights or without.
DialGoesOn == Dialled /\ LedsNext

LedsFairSpec == LedsSpec /\ WF_vars(DialGoesOn)
-----------------------------------------------------------------------------
(***************************************************************************)
(* Properties.                                                             *)
(***************************************************************************)

\* Every variable keeps to its type, no more is on its way than the bound, and
\* the link has a lock only from a host whose reports ended the inference.
LedsTypeOK ==
  /\ reporting \in SUBSET Host
  /\ lock \in BOOLEAN /\ keys \in 0..MaxFlight
  /\ reports \in Seq(BOOLEAN) /\ Len(reports) <= MaxFlight
  /\ linkLeds \in BOOLEAN /\ leds \in BOOLEAN /\ fromHost \in BOOLEAN
  /\ grabbed \in BOOLEAN /\ consoleLock \in BOOLEAN /\ light \in BOOLEAN
  /\ written \in BOOLEAN /\ replaced \in BOOLEAN
  /\ linkLeds => fromHost

\* Once the host has acted on every lock key sent to it and its reports have
\* been read, what Session takes the lock to be is what it is, reported or
\* inferred (note_lock_key, on_host_leds); unless the connection came over one
\* whose end btkey had not read.
LockIsKnown ==
  Alive /\ ~replaced /\ keys = 0 /\ reports = <<>> => leds = lock

\* The keyboard's light is the console's while the console has the keyboard;
\* it is the phone's lock, as the status line has it, once Session has written
\* it since the link came or went; and a light left on is somebody's lock,
\* unless the connection came over one whose end btkey had not read
\* (push_leds, restore_leds).
LightIsTheOwners ==
  /\ ~grabbed => light = consoleLock
  /\ grabbed /\ written => light = leds
  /\ light /\ ~replaced => leds \/ consoleLock

\* A link lost leaves nothing of the host's lock behind.
NothingCarriedOver == announced = None => ~leds /\ ~linkLeds
=============================================================================
