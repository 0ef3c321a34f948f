------------------------------ MODULE Keyboards ------------------------------
(***************************************************************************)
(* Which keyboards btkey holds: evdev.KeyboardSet and the part of Session  *)
(* that watches, takes, gives back and loses keyboards as they are plugged *)
(* in and pulled out, as other programs grab them, and as the console in   *)
(* front changes.                                                          *)
(*                                                                         *)
(* A keyboard is named by its node in /dev/input, and has one key: what    *)
(* one keyboard's keys do to each other is Forwarding's.  The link is up   *)
(* throughout, so that the phone has every report btkey makes.  Session's  *)
(* handlers call one another in a row, so what they change is one record,  *)
(* kb, and each of them an operator from a record to the next; an action   *)
(* is what one turn of the main loop does.                                 *)
(***************************************************************************)
EXTENDS FiniteSets

CONSTANTS
  Path,        \* the nodes a keyboard may appear at
  ModKey,      \* those whose key is a modifier
  Environment  \* what may happen around btkey; see Events below

(***************************************************************************)
(* Plugging and unplugging, and the same before btkey first comes forward, *)
(* or while it waits for the keys to come up; other programs' grabs; a     *)
(* read that fails on a keyboard still there; and a directory that cannot  *)
(* be watched.                                                             *)
(***************************************************************************)
Events == {"hotplug", "earlyplug", "waitplug", "other", "flaky", "nomonitor"}

ASSUME KeyboardsAssumption ==
  /\ ModKey \subseteq Path
  /\ Environment \subseteq Events

VARIABLES
  plugged,     \* the nodes there are, and that may be opened
  other,       \* those another program has grabbed
  down,        \* those whose key is physically down
  foreground,  \* Session.foreground
  waiting,     \* Session.waiting_for_release
  monitor,     \* "off", "watching" the directory, or "polling" it
  settle,      \* a change of it is settling (Session.device_settle), or is
               \* the polling timer's to find
  running,     \* run has not come to its end
  kb

(***************************************************************************)
(* The record kb.  KeyboardSet and its devices:                            *)
(*   devices    the keyboards in the set                                   *)
(*   open       those whose descriptor is open                             *)
(*   dead       those of them whose node went away under the descriptor    *)
(*   grabbed, refused, had, ledsSaved, repeatSaved                         *)
(*              InputDevice.grabbed, .refused, .was_held, .saved_leds and  *)
(*              .saved_repeat                                              *)
(*   asleep     KeyboardSet.asleep                                         *)
(* Session:                                                                *)
(*   watches    the keys of Session.watches                                *)
(*   stale      those whose source is for a device since forgotten         *)
(*   believed   the keys and modifiers Session believes down               *)
(*   debts      what the guardian would put back (repeat_debt)             *)
(* What others have of it:                                                 *)
(*   ready      the descriptors with something to read                     *)
(*   lights     the keyboards showing the phone's lock state               *)
(*   hushed     the keyboards whose repeat is off                          *)
(*   phone      the keys the phone believes down                           *)
(*   lent       those of them that btkey told it of with the console still *)
(*              holding their keyboard, a history of keyboard_gone         *)
(*   console    the keys the console believes down                         *)
(***************************************************************************)
Held(k) == (k.devices \cap k.open) \ k.dead

machine == <<plugged, other, down>>
session == <<foreground, waiting, monitor, settle, running>>
vars    == <<machine, session, kb>>

-----------------------------------------------------------------------------
(***************************************************************************)
(* KeyboardSet.                                                            *)
(***************************************************************************)

\* InputDevice.pressed_keys, over the whole set
HeldKeys(k) == down \cap Held(k)

\* What was changed of each of D put back: a write to a dead node fails
PutBack(k, D) ==
  [k EXCEPT !.lights = @ \ (D \cap k.ledsSaved \cap Held(k)),
            !.hushed = @ \ (D \cap k.repeatSaved \cap Held(k)),
            !.ledsSaved = @ \ D,
            !.debts = @ \ (D \cap k.repeatSaved),
            !.repeatSaved = @ \ D]

\* InputDevice.close: the grab goes with the descriptor
Close(k, D) ==
  [k EXCEPT !.open = @ \ D, !.dead = @ \ D, !.ready = @ \ D,
            !.grabbed = @ \ D]

\* KeyboardSet.release, of each of D
Release(k, D) == Close(PutBack(k, D), D)

\* KeyboardSet.forget: the device is gone, and a watch on it outlives it
Forget(k, D) ==
  [Release(k, D) EXCEPT !.devices = @ \ D, !.refused = @ \ D, !.had = @ \ D,
                        !.stale = @ \cup (k.watches \cap D)]

Discard(k) == Forget(k, k.devices \ k.grabbed)

\* KeyboardSet.take, of each of D
TakeEach(k, D) ==
  [k EXCEPT !.grabbed = @ \cup D, !.had = @ \cup D, !.refused = @ \ D,
            !.ledsSaved = @ \cup D,
            !.hushed = @ \cup (D \ k.repeatSaved),
            !.debts = @ \cup (D \ k.repeatSaved),
            !.repeatSaved = @ \cup D]

Grabbable(k) == k.grabbed \cup (Held(k) \ other)

\* KeyboardSet.grab_all: what would not come is released, and remembered
GrabAll(k) ==
  LET no == k.devices \ Grabbable(k)
  IN  [Release(TakeEach(k, Grabbable(k)), no) EXCEPT !.refused = @ \cup no]

Lost(k) == (k.devices \ Grabbable(k)) \cap k.had # {}

-----------------------------------------------------------------------------
(***************************************************************************)
(* Session.                                                                *)
(***************************************************************************)

\* send_keyboard, with these keys and modifiers down from now on
SendKeyboard(k, now) ==
  [k EXCEPT !.believed = now, !.phone = now, !.lent = now \ k.grabbed]

\* release_all
LetGo(k) == SendKeyboard(k, {})

\* Mutant: the modifiers that are down are told, and the other keys not asked.
MutKeyboardGone(k) ==
  SendKeyboard(k, (k.believed \ ModKey) \cup (HeldKeys(k) \cap ModKey))

KeyboardGone(k) ==
  SendKeyboard(k, (k.believed \cap HeldKeys(k)) \cup (HeldKeys(k) \cap ModKey))

Unwatch(k, D) == [k EXCEPT !.watches = @ \ D, !.stale = @ \ D]

\* Mutant: forgotten and closed while still watched.
MutDrop(k, D) == IF D = {} THEN k ELSE KeyboardGone(Forget(k, D))

\* drop_device, of each of D
Drop(k, D) == IF D = {} THEN k ELSE KeyboardGone(Forget(Unwatch(k, D), D))

\* KeyboardSet.refresh.  discover passes over a node that does not open; one
\* that opens later, for its attributes, is plugged then.
Refresh(k) ==
  LET added == plugged \ k.devices
  IN  [k EXCEPT !.devices = @ \cup added,
                !.open = IF k.asleep THEN @ ELSE @ \cup added]

PushLeds(k) == [k EXCEPT !.lights = @ \cup (k.grabbed \cap Held(k))]

\* rescan_devices, with btkey's console in front or not
Rescan(k, front) ==
  LET seen == Drop(Refresh(k), k.devices \ plugged)
  IN  IF front /\ plugged \ k.devices # {} THEN PushLeds(seen) ELSE seen

\* A path that has a watch already is left as it is.
Watch(k, D) == [k EXCEPT !.watches = @ \cup D]

WatchHeld(k) == Watch(Unwatch(k, k.devices \ k.grabbed), k.grabbed)

SyncModifiers(k) ==
  [k EXCEPT !.believed = (@ \ ModKey) \cup (HeldKeys(k) \cap ModKey)]

\* The taking itself, looking again if a keyboard btkey had is another's
Grab(k) ==
  IF Lost(k) THEN GrabAll(Rescan(Discard(GrabAll(k)), TRUE)) ELSE GrabAll(k)

\* Mutant: no waiting for the keys.
MutTakenAtOnce(k) == PushLeds(SyncModifiers(WatchHeld(Grab(k))))

\* take_keyboards
Taken(k) ==
  IF HeldKeys(k) # {} THEN Watch(k, k.devices)
                      ELSE PushLeds(SyncModifiers(WatchHeld(Grab(k))))

\* What take_keyboards makes of kb, and of waiting_for_release
Take(k) ==
  /\ kb' = Taken(k)
  /\ waiting' = (HeldKeys(k) # {})

\* sleep_devices
Sleep(k) ==
  [Release(Unwatch(k, k.devices), k.devices) EXCEPT !.asleep = TRUE]

\* wake_devices: open_all, and what is not there any more is dropped
Wake(k) ==
  LET there == k.devices \cap plugged
  IN  Drop([k EXCEPT !.asleep = FALSE, !.open = @ \cup there],
           k.devices \ (there \cup k.open))

-----------------------------------------------------------------------------
(***************************************************************************)
(* The machine around btkey.  A key reaches whoever grabs the keyboard, or *)
(* else the console and every descriptor open on it.                       *)
(***************************************************************************)
Exclusive(p) == p \in other \cup (kb.grabbed \ kb.dead)

Heard(p) ==
  IF p \in Held(kb) \ other THEN kb.ready \cup {p} ELSE kb.ready

KeyDown(p) ==
  /\ p \in plugged \ down
  /\ down' = down \cup {p}
  /\ kb' = [kb EXCEPT !.ready = Heard(p),
                      !.console = IF Exclusive(p) THEN @ ELSE @ \cup {p}]
  /\ UNCHANGED <<plugged, other, session>>

KeyUp(p) ==
  /\ p \in down
  /\ down' = down \ {p}
  /\ kb' = [kb EXCEPT !.ready = Heard(p),
                      !.console = IF Exclusive(p) THEN @ ELSE @ \ {p}]
  /\ UNCHANGED <<plugged, other, session>>

Pluggable ==
  /\ "hotplug" \in Environment
  /\ waiting => "waitplug" \in Environment
  /\ ~foreground /\ ~kb.asleep => "earlyplug" \in Environment

Changed == settle' = (settle \/ monitor # "off")

Plug(p) ==
  /\ Pluggable /\ p \notin plugged
  /\ plugged' = plugged \cup {p}
  /\ Changed
  /\ UNCHANGED <<other, down, foreground, waiting, monitor, running, kb>>

\* The kernel lets its keys up, and a descriptor on it only gives an error.
Unplug(p) ==
  /\ Pluggable /\ p \in plugged
  /\ plugged' = plugged \ {p}
  /\ other' = other \ {p}
  /\ down' = down \ {p}
  /\ kb' = [kb EXCEPT !.lights = @ \ {p}, !.hushed = @ \ {p},
                      !.console = @ \ {p},
                      !.dead = @ \cup (kb.open \cap {p}),
                      !.ready = @ \cup (kb.open \cap {p})]
  /\ Changed
  /\ UNCHANGED <<foreground, waiting, monitor, running>>

\* What the console believes is not upset by it: the key is up.
OtherTakes(p) ==
  /\ "other" \in Environment /\ p \in plugged \ down /\ ~Exclusive(p)
  /\ other' = other \cup {p}
  /\ UNCHANGED <<plugged, down, session, kb>>

OtherLetsGo(p) ==
  /\ p \in other
  /\ other' = other \ {p}
  /\ UNCHANGED <<plugged, down, session, kb>>

-----------------------------------------------------------------------------
(***************************************************************************)
(* The handlers.                                                           *)
(***************************************************************************)
Served(p) == running /\ p \in kb.ready \cap (kb.watches \ kb.stale)

Read(p) == [kb EXCEPT !.ready = @ \ {p}]

\* on_device_input, the device having gone away or failed to be read
InputGone(p) ==
  /\ Served(p)
  /\ p \in kb.dead \/ "flaky" \in Environment
  /\ kb' = Drop(kb, {p})
  /\ UNCHANGED <<machine, session>>

\* on_device_input of a keyboard not held: is the last key up?
InputWaiting(p) ==
  /\ Served(p) /\ p \notin kb.dead \cup kb.grabbed
  /\ \/ waiting /\ HeldKeys(kb) = {} /\ Take(Read(p))
     \/ ~(waiting /\ HeldKeys(kb) = {}) /\ kb' = Read(p) /\ UNCHANGED waiting
  /\ UNCHANGED <<machine, foreground, monitor, settle, running>>

\* on_device_input of a keyboard held: the phone is told
Input(p) ==
  /\ Served(p) /\ p \in kb.grabbed \ kb.dead
  /\ LET now == IF p \in down THEN kb.believed \cup {p} ELSE kb.believed \ {p}
     IN  kb' = SendKeyboard(Read(p), now)
  /\ UNCHANGED <<machine, session>>

\* settle_devices.  A descriptor that died is served before its timer is due.
Settle ==
  /\ running /\ settle /\ monitor # "polling"
  /\ kb.dead \cap (kb.watches \ kb.stale) = {}
  /\ settle' = FALSE
  /\ IF foreground THEN Take(Rescan(Discard(kb), TRUE))
                   ELSE kb' = Rescan(Discard(kb), FALSE) /\ UNCHANGED waiting
  /\ UNCHANGED <<machine, foreground, monitor, running>>

\* rescan_devices as the timer that stands in for the watch calls it
RescanTimer ==
  /\ running /\ monitor = "polling"
  /\ kb' = Rescan(kb, foreground)
  /\ settle' = FALSE
  /\ UNCHANGED <<machine, foreground, waiting, monitor, running>>

\* watch_for_devices: told of changes, or left to look for them
WatchForDevices ==
  \/ monitor' = "watching"
  \/ monitor' = "polling" /\ "nomonitor" \in Environment

\* Mutant: no look at what was plugged in meanwhile.
MutComeForward ==
  /\ running /\ ~foreground
  /\ foreground' = TRUE
  /\ WatchForDevices
  /\ Take(Wake(kb))
  /\ UNCHANGED <<machine, settle, running>>

\* set_foreground(True)
ComeForward ==
  /\ running /\ ~foreground
  /\ foreground' = TRUE
  /\ WatchForDevices
  /\ Take(Rescan(Wake(kb), TRUE))
  /\ UNCHANGED <<machine, settle, running>>

UnwatchForDevices == settle' = FALSE

\* set_foreground(False)
LeaveForeground ==
  /\ running /\ foreground
  /\ foreground' = FALSE
  /\ monitor' = "off" /\ UnwatchForDevices
  /\ waiting' = FALSE
  /\ kb' = Sleep(LetGo(kb))
  /\ UNCHANGED <<machine, running>>

\* The finally of run: release_all, and KeyboardSet.close
Stop ==
  /\ running
  /\ running' = FALSE
  /\ settle' = FALSE /\ monitor' = "off"
  /\ kb' = [Sleep(LetGo(kb)) EXCEPT !.devices = {}, !.watches = {},
                                     !.stale = {}]
  /\ UNCHANGED <<machine, foreground, waiting>>

-----------------------------------------------------------------------------
\* run has looked for keyboards once, and opened them
Init ==
  /\ plugged \in SUBSET Path /\ plugged # {}
  /\ other = {} /\ down \in SUBSET plugged
  /\ foreground = FALSE /\ waiting = FALSE
  /\ monitor = "off" /\ settle = FALSE /\ running = TRUE
  /\ kb = [devices |-> plugged, open |-> plugged, dead |-> {}, grabbed |-> {},
           refused |-> {}, had |-> {}, ledsSaved |-> {}, repeatSaved |-> {},
           asleep |-> FALSE, watches |-> {}, stale |-> {}, believed |-> {},
           debts |-> {}, ready |-> {}, lights |-> {}, hushed |-> {},
           phone |-> {}, lent |-> {}, console |-> down]

Machine ==
  \E p \in Path : \/ KeyDown(p) \/ KeyUp(p) \/ Plug(p) \/ Unplug(p)
                  \/ OtherTakes(p) \/ OtherLetsGo(p)

Inputs == \E p \in Path : InputGone(p) \/ InputWaiting(p) \/ Input(p)

Next ==
  \/ Machine \/ Inputs
  \/ Settle \/ RescanTimer \/ ComeForward \/ LeaveForeground \/ Stop

Spec == Init /\ [][Next]_vars
-----------------------------------------------------------------------------
(***************************************************************************)
(* Properties.                                                             *)
(***************************************************************************)

\* A watch is for the descriptor btkey has open now, never for one it has
\* closed: the loop would spin on that, and the keyboard be dead
\* (unwatch_device: "Always before closing its fd").
WatchedIsOpen == running => kb.stale = {} /\ kb.watches \subseteq kb.open

\* In front, told of changes, with nothing held down and nothing settling,
\* btkey has every keyboard there is, but for those it was refused
\* (settle_devices, grab_all).
EveryKeyboardTaken ==
  running /\ monitor = "watching" /\ ~waiting /\ ~settle /\ kb.dead = {} =>
    \A p \in plugged : p \in kb.grabbed \cap kb.watches \/ p \in kb.refused

\* Nothing sticks on the phone when a keyboard goes, or is let go of: a key
\* it believes down is down, or its release is there to be read from a
\* keyboard btkey holds (keyboard_gone).  Only a modifier of a keyboard that
\* was still the console's when the phone was told of it is not promised.
NothingSticks ==
  /\ \A p \in kb.phone \ kb.lent :
       \/ p \in down
       \/ p \in kb.ready \cap kb.grabbed \cap (kb.watches \ kb.stale)
  /\ kb.lent \subseteq ModKey

\* Taking keyboards takes no key-up away from the console (take_keyboards).
ConsoleKeepsNoKey == (kb.grabbed \ kb.dead) \cap kb.console = {}
=============================================================================
