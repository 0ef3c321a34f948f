----------------------------- MODULE Forwarding -----------------------------
(***************************************************************************)
(* Keystrokes in, HID reports out: Session.on_device_input, handle_key and *)
(* the reports they send, for one keyboard that stays plugged in, together *)
(* with everything that may cut into a keystroke between its press and its *)
(* release: the console in front changing, the link coming and going, a    *)
(* pairing that borrows the keyboard, the hotplug settle, and the stop.    *)
(*                                                                         *)
(* The keyboard is the kernel's view of it (the keys down, and the events  *)
(* queued on btkey's descriptor); the phone is the last reports it read;   *)
(* the console is the set of keys the console's own handler believes down. *)
(* btkey runs one GLib main loop, so every handler is one action, except   *)
(* that the loop over one read's events is one action per event, with      *)
(* nothing else of btkey in between; the user is free to type meanwhile.   *)
(***************************************************************************)
EXTENDS Integers, Sequences, FiniteSets

CONSTANTS
  Plain,         \* keys of keycodes.KEYBOARD that are no function key
  Esc,           \* KEY_ESC, one of them
  Fn,            \* the function keys, F1 to F12
  Mods,          \* the keys of keycodes.MODIFIERS
  Alts, Ctrls,   \* which of those are Alt, and which Ctrl
  Media,         \* the keys of keycodes.CONSUMER
  Keyboard,      \* the keys this keyboard has
  TopRowMedia,   \* keycodes.TOP_ROW_MEDIA: the media key of a function key
  ErrorRollOver, \* the usage that fills the slots when too many are down
  NoUsage,       \* the consumer report that says nothing is down
  Slots,         \* how many keys a keyboard report can name (6)
  MaxRead,       \* how many events one read of the descriptor returns (64)
  Capacity,      \* how many events the kernel queues for one descriptor
  Environment    \* what may happen around btkey; see Events below

Codes == Plain \cup Fn \cup Mods \cup Media

(***************************************************************************)
(* What a run lets happen: the link lost, at a write or between two of     *)
(* them ("linkloss") or between two and with no modifier held              *)
(* ("idleloss"), a phone asking to pair, a host that decides the function  *)
(* row, the kernel's queue overflowing, a key pressed in the breath        *)
(* between btkey's last look and its grab.                                 *)
(***************************************************************************)
Events ==
  {"linkloss", "idleloss", "pairing", "toprow", "overflow", "breath"}

ASSUME KeyAssumption ==
  /\ Keyboard \subseteq Codes
  /\ Esc \in Plain
  /\ Alts \subseteq Mods
  /\ Ctrls \subseteq Mods
  /\ TopRowMedia \in [Fn -> Media]
  /\ Plain \cap Fn = {} /\ Plain \cap Mods = {} /\ Plain \cap Media = {}
  /\ Fn \cap Mods = {} /\ Fn \cap Media = {} /\ Mods \cap Media = {}
  /\ ErrorRollOver \notin Codes
  /\ NoUsage \notin Codes

ASSUME BoundAssumption ==
  /\ Slots \in Nat \ {0}
  /\ MaxRead \in Nat \ {0}
  /\ Capacity \in Nat \ {0}
  /\ Environment \subseteq Events

VARIABLES
  down,        \* the keys physically down, which EVIOCGKEY answers
  events,      \* read and not yet handled, then queued and not yet read
  reading,     \* how many of them read_keys has returned and not handled
  grabbed,     \* the keyboard is grabbed (InputDevice.grabbed)
  foreground,  \* Session.foreground
  waiting,     \* Session.waiting_for_release
  pressed,     \* Session.pressed
  modifiers,   \* Session.modifiers
  topRow,      \* Session.top_row is TOP_ROW_MEDIA
  pairing,     \* Session.pairing.active
  connected,   \* Session.link.connected
  phone,       \* the last keyboard and consumer reports the host read
  inFront,     \* the kernel's answer: our console is in front
  notice,      \* the console watch is ready
  running,     \* "running", "stopping" after quit(), "stopped" after run()
  console,     \* the keys the console's own handler believes down
  breath       \* the keys pressed in the breath before a grab, and not
               \* heard by the console to come up since

device  == <<down, events, reading, console, breath>>
session == <<grabbed, foreground, waiting, pressed, modifiers>>
link    == <<connected, phone>>
rest    == <<topRow, pairing, inFront, notice, running>>
vars    == <<device, session, link, rest>>

-----------------------------------------------------------------------------
(***************************************************************************)
(* The kernel's queue of events for btkey's descriptor.  Events of one     *)
(* descriptor are closed with it; those already read are not.              *)
(***************************************************************************)
Event(k, press) == [key |-> k, press |-> press]

Transition == [key : Keyboard, press : BOOLEAN]

Report == [mods : SUBSET Mods,
           keys : SUBSET (Plain \cup Fn \cup {ErrorRollOver}),
           usage : Media \cup {NoUsage}]

Nothing == [mods |-> {}, keys |-> {}, usage |-> NoUsage]

Open == foreground /\ running # "stopped"

Unread == Len(events) - reading

\* A full queue is thrown away but for the newest event (SYN_DROPPED, which
\* read_keys takes for one of the non-key events it ignores).
Queue(ev, e) ==
  IF Unread < Capacity THEN Append(ev, e)
                       ELSE Append(SubSeq(ev, 1, reading), e)

MayQueue == Unread < Capacity \/ "overflow" \in Environment

(***************************************************************************)
(* The user.  A key reaches the console unless btkey has the grab, and     *)
(* btkey's descriptor while that is open, grabbed or not.                  *)
(***************************************************************************)
KeyDown(k) ==
  /\ k \notin down
  /\ down' = down \cup {k}
  /\ console' = IF grabbed THEN console ELSE console \cup {k}
  /\ \/ Open /\ MayQueue /\ events' = Queue(events, Event(k, TRUE))
     \/ ~Open /\ UNCHANGED events
  /\ UNCHANGED <<reading, breath, session, link, rest>>

KeyUp(k) ==
  /\ k \in down
  /\ down' = down \ {k}
  /\ console' = IF grabbed THEN console ELSE console \ {k}
  /\ breath' = IF grabbed THEN breath ELSE breath \ {k}
  /\ \/ Open /\ MayQueue /\ events' = Queue(events, Event(k, FALSE))
     \/ ~Open /\ UNCHANGED events
  /\ UNCHANGED <<reading, session, link, rest>>

\* Alt+Fn on a console btkey does not hold, VT_ACTIVATE, or a chvt.
ConsoleMoves ==
  /\ inFront' = ~inFront
  /\ notice' = TRUE
  /\ UNCHANGED <<device, session, link, topRow, pairing, running>>

-----------------------------------------------------------------------------
(***************************************************************************)
(* Reports.  A write that fails makes the link disconnect, and the state   *)
(* callback of that release_all, before the caller goes on.                *)
(***************************************************************************)
Usages(p) == IF Cardinality(p) > Slots THEN {ErrorRollOver} ELSE p

LinkLost ==
  /\ connected' = FALSE
  /\ phone' = Nothing
  /\ pressed' = {}
  /\ modifiers' = {}

WriteFails == connected /\ "linkloss" \in Environment /\ LinkLost

\* send_keyboard, with these keys and modifiers down from now on
SendKeyboard(p, m) ==
  \/ /\ connected
     /\ phone' = [phone EXCEPT !.keys = Usages(p), !.mods = m]
     /\ pressed' = p
     /\ modifiers' = m
     /\ UNCHANGED connected
  \/ WriteFails
  \/ /\ ~connected
     /\ pressed' = p
     /\ modifiers' = m
     /\ UNCHANGED link

SendConsumer(usage) ==
  \/ /\ connected
     /\ phone' = [phone EXCEPT !.usage = usage]
     /\ UNCHANGED <<connected, pressed, modifiers>>
  \/ WriteFails
  \/ ~connected /\ UNCHANGED <<link, pressed, modifiers>>

\* Mutant: release_all without its keyboard report.
MutNoKeyboardZero == [phone EXCEPT !.usage = NoUsage]

Released == IF connected THEN Nothing ELSE phone

ReleaseAll ==
  \/ /\ pressed' = {}
     /\ modifiers' = {}
     /\ phone' = Released
     /\ UNCHANGED connected
  \/ WriteFails

(***************************************************************************)
(* Session.take_keyboards, on the queue ev: wait while anything is down,   *)
(* else grab and adopt the modifiers.  EVIOCGKEY and EVIOCGRAB are two     *)
(* calls, and one key may go down in the breath between them: the console  *)
(* gets that press, and so do the queue and sync_modifiers.                *)
(***************************************************************************)
\* Mutant: grabbing at once, whatever is down.
MutWait(ev) ==
  /\ down # {}
  /\ waiting' = TRUE
  /\ grabbed' = TRUE
  /\ events' = ev
  /\ UNCHANGED <<down, console, breath, modifiers>>

Wait(ev) ==
  /\ down # {}
  /\ waiting' = TRUE
  /\ events' = ev
  /\ UNCHANGED <<down, console, breath, grabbed, modifiers>>

Late == {{}} \cup {{k} : k \in IF "breath" \in Environment THEN Keyboard ELSE {}}

SyncModifiers(held) == modifiers' = held \cap Mods

Grab(ev) ==
  /\ down = {}
  /\ waiting' = FALSE
  /\ grabbed' = TRUE
  /\ \E late \in Late :
       /\ Cardinality(late) + Len(ev) <= Capacity
       /\ down' = late
       /\ SyncModifiers(late)
       /\ console' = IF grabbed THEN console ELSE console \cup late
       /\ breath' = IF grabbed THEN breath ELSE breath \cup late
       /\ \/ late = {} /\ events' = ev
          \/ \E k \in late : events' = Append(ev, Event(k, TRUE))

TakeKeyboards(ev) == Wait(ev) \/ Grab(ev)

(***************************************************************************)
(* Session.set_foreground(False): let go on the phone, then of the         *)
(* keyboard.  What is queued goes with the descriptor; unhandled are the   *)
(* events this read has already returned.                                  *)
(***************************************************************************)
\* Mutant: no release_all.
MutLeaveForeground(unhandled) ==
  /\ foreground' = FALSE
  /\ waiting' = FALSE
  /\ grabbed' = FALSE
  /\ events' = unhandled
  /\ UNCHANGED <<connected, phone, pressed, modifiers>>

LeaveForeground(unhandled) ==
  /\ foreground' = FALSE
  /\ waiting' = FALSE
  /\ grabbed' = FALSE
  /\ events' = unhandled
  /\ ReleaseAll

-----------------------------------------------------------------------------
(***************************************************************************)
(* Session.on_device_input.  Ungrabbed, what is read is thrown away, and   *)
(* the last key up is what takes the keyboard.  Grabbed, each event goes   *)
(* to handle_key.                                                          *)
(***************************************************************************)
Idle == reading = 0 /\ running # "stopped"

Drain(n) == SubSeq(events, n + 1, Len(events))

\* Mutant: no take_keyboards once the keys are up.
MutReadWaiting ==
  /\ Idle /\ Open /\ ~grabbed
  /\ \E n \in 1..Len(events) : n <= MaxRead /\ events' = Drain(n)
  /\ UNCHANGED <<down, console, breath, reading, session, link, rest>>

ReadWaiting ==
  /\ Idle /\ Open /\ ~grabbed
  /\ \E n \in 1..Len(events) :
       /\ n <= MaxRead
       /\ \/ waiting /\ down = {} /\ Grab(Drain(n))
          \/ /\ ~(waiting /\ down = {})
             /\ events' = Drain(n)
             /\ UNCHANGED <<down, console, breath, grabbed, waiting, modifiers>>
  /\ UNCHANGED <<reading, foreground, pressed, link, rest>>

ReadGrabbed ==
  /\ Idle /\ Open /\ grabbed
  /\ \E n \in 1..Len(events) : n <= MaxRead /\ reading' = n
  /\ UNCHANGED <<down, events, console, breath, session, link, rest>>

Key   == Head(events).key
Press == Head(events).press

\* The next event of the read goes to handle_key.
Handling ==
  /\ reading > 0 /\ running # "stopped"
  /\ reading' = reading - 1
  /\ UNCHANGED <<down, console, breath, topRow, inFront, notice>>

Next1 == events' = Tail(events)

AltHeld  == modifiers \cap Alts # {}
CtrlHeld == modifiers \cap Ctrls # {}

Chord == Press /\ AltHeld /\ (Key \in Fn \/ (Key = Esc /\ ~CtrlHeld))

\* Mutant: modifiers not followed during a pairing.
MutModifiersNow ==
  IF pairing THEN modifiers
  ELSE IF Press THEN modifiers \cup {Key} ELSE modifiers \ {Key}

ModifiersNow == IF Press THEN modifiers \cup {Key} ELSE modifiers \ {Key}

HandleModifier ==
  /\ Handling /\ Next1
  /\ Key \in Mods
  /\ \/ pairing /\ modifiers' = ModifiersNow /\ UNCHANGED <<pressed, link>>
     \/ ~pairing /\ SendKeyboard(pressed, ModifiersNow)
  /\ UNCHANGED <<grabbed, foreground, waiting, pairing, running>>

\* Alt+Fn: switch_vt, to our own console or to another.
HandleSwitch ==
  /\ Handling
  /\ Chord /\ Key \in Fn
  /\ \/ foreground /\ LeaveForeground(SubSeq(events, 2, reading))
     \/ Next1 /\ UNCHANGED <<session, link>>
  /\ UNCHANGED <<pairing, running>>

HandleQuit ==
  /\ Handling /\ Next1
  /\ Chord /\ Key = Esc
  /\ running' = "stopping"
  /\ UNCHANGED <<session, link, pairing>>

\* Pairing.handle_key: a press may be the one that ends the entry.
HandlePairing ==
  /\ Handling /\ Next1
  /\ Key \notin Mods /\ ~Chord /\ pairing
  /\ pairing' \in IF Press THEN BOOLEAN ELSE {TRUE}
  /\ UNCHANGED <<session, link, running>>

CodeOf(k) == IF topRow /\ k \in Fn THEN TopRowMedia[k] ELSE k

Code == CodeOf(Key)

Forwarded == Key \notin Mods /\ ~Chord /\ ~pairing

HandleConsumer ==
  /\ Handling /\ Next1
  /\ Forwarded /\ Code \in Media
  /\ SendConsumer(IF Press THEN Code ELSE NoUsage)
  /\ UNCHANGED <<grabbed, foreground, waiting, pairing, running>>

HandlePlain ==
  /\ Handling /\ Next1
  /\ Forwarded /\ Code \in Plain \cup Fn
  /\ SendKeyboard(IF Press THEN pressed \cup {Code} ELSE pressed \ {Code},
                  modifiers)
  /\ UNCHANGED <<grabbed, foreground, waiting, pairing, running>>

-----------------------------------------------------------------------------
(***************************************************************************)
(* The other handlers of the main loop.                                    *)
(***************************************************************************)

\* console_changed and poll_foreground
Poll ==
  /\ Idle /\ notice
  /\ notice' = FALSE
  /\ \/ inFront = foreground /\ UNCHANGED <<device, session, link>>
     \/ /\ inFront /\ ~foreground
        /\ foreground' = TRUE
        /\ TakeKeyboards(<<>>)
        /\ UNCHANGED <<reading, pressed, link>>
     \/ /\ ~inFront /\ foreground
        /\ LeaveForeground(<<>>)
        /\ UNCHANGED <<down, reading, console, breath>>
  /\ UNCHANGED <<topRow, pairing, inFront, running>>

\* settle_devices, with this keyboard held and something else plugged in
Settle ==
  /\ Idle /\ foreground /\ grabbed
  /\ TakeKeyboards(events)
  /\ UNCHANGED <<reading, foreground, pressed, link, rest>>

\* on_connection_state(True): the host decides the function row
LinkUp ==
  /\ Idle /\ ~connected
  /\ connected' = TRUE
  /\ topRow' \in IF "toprow" \in Environment THEN BOOLEAN ELSE {topRow}
  /\ UNCHANGED <<device, session, phone, pairing, inFront, notice, running>>

\* link.disconnect and on_connection_state(False)
LinkDown ==
  /\ Idle /\ connected
  /\ \/ "linkloss" \in Environment
     \/ "idleloss" \in Environment /\ modifiers = {}
  /\ LinkLost
  /\ UNCHANGED <<device, grabbed, foreground, waiting, rest>>

PairingStart ==
  /\ Idle /\ "pairing" \in Environment
  /\ pairing' = TRUE
  /\ UNCHANGED <<device, session, link, topRow, inFront, notice, running>>

\* on_cancelled, or abandon when the time is up
PairingEnd ==
  /\ Idle /\ pairing
  /\ pairing' = FALSE
  /\ UNCHANGED <<device, session, link, topRow, inFront, notice, running>>

Signal ==
  /\ Idle /\ running = "running"
  /\ running' = "stopping"
  /\ UNCHANGED <<device, session, link, topRow, pairing, inFront, notice>>

\* the finally of run: release_all, keyboards.close, link.stop
Teardown ==
  /\ Idle /\ running = "stopping"
  /\ running' = "stopped"
  /\ grabbed' = FALSE
  /\ events' = <<>>
  /\ LinkLost
  /\ UNCHANGED <<down, reading, console, breath, foreground, waiting,
                 topRow, pairing, inFront, notice>>

-----------------------------------------------------------------------------
Init ==
  /\ down \in SUBSET Keyboard
  /\ console = down
  /\ events = <<>> /\ reading = 0 /\ breath = {}
  /\ grabbed = FALSE /\ foreground = FALSE /\ waiting = FALSE
  /\ pressed = {} /\ modifiers = {}
  /\ connected = FALSE /\ phone = Nothing
  /\ topRow \in BOOLEAN /\ pairing = FALSE
  /\ inFront = TRUE /\ notice = TRUE
  /\ running = "running"

User == ConsoleMoves \/ \E k \in Keyboard : KeyDown(k) \/ KeyUp(k)

Handle ==
  \/ HandleModifier \/ HandleSwitch \/ HandleQuit
  \/ HandlePairing \/ HandleConsumer \/ HandlePlain

Loop ==
  \/ ReadWaiting \/ ReadGrabbed \/ Handle
  \/ Poll \/ Settle \/ LinkUp \/ LinkDown
  \/ PairingStart \/ PairingEnd \/ Signal \/ Teardown

Next == User \/ Loop

Spec == Init /\ [][Next]_vars

\* The main loop serves a ready descriptor in the end, and finishes a batch
\* it has begun; nothing obliges the user, the link or the console to act.
Fairness == WF_vars(ReadWaiting) /\ WF_vars(ReadGrabbed) /\ WF_vars(Handle)
            /\ WF_vars(Poll)

FairSpec == Spec /\ Fairness
-----------------------------------------------------------------------------
(***************************************************************************)
(* Properties.                                                             *)
(***************************************************************************)

\* Every variable keeps to its type: reports name codes of keys or the
\* rollover marker, events are key transitions, and no more are counted as
\* read than there are.
TypeOK ==
  /\ down \in SUBSET Keyboard
  /\ console \in SUBSET Keyboard /\ breath \in SUBSET Keyboard
  /\ events \in Seq(Transition)
  /\ reading \in Nat /\ reading <= Len(events)
  /\ grabbed \in BOOLEAN /\ foreground \in BOOLEAN /\ waiting \in BOOLEAN
  /\ pressed \in SUBSET (Plain \cup Fn)
  /\ modifiers \in SUBSET Mods
  /\ connected \in BOOLEAN
  /\ phone \in Report
  /\ topRow \in BOOLEAN /\ pairing \in BOOLEAN
  /\ inFront \in BOOLEAN /\ notice \in BOOLEAN
  /\ running \in {"running", "stopping", "stopped"}

\* The keys the phone believes down are those of the report btkey would make
\* now, or none: across rollover, failed writes, switches, pairings and the
\* stop, no change of Session.pressed is left untold (send_keyboard).
ReportIsCurrent == phone.keys \in {{}, Usages(pressed)}

Coming(k, press) == \E i \in DOMAIN events : events[i] = Event(k, press)

\* A key with its release still to be handled counts as held.
Held(k) == k \in down \/ Coming(k, FALSE)

\* While the keyboard is grabbed, btkey believes no modifier down that is
\* not, so no bare key is taken for a chord (sync_modifiers).
NoPhantomModifier == grabbed => \A k \in modifiers : Held(k)

\* And while it is grabbed btkey knows every modifier that is down, so Alt+Fn
\* always switches console, during a pairing too (handle_key, sync_modifiers).
EveryModifierKnown ==
  grabbed => \A k \in down \cap Mods : k \in modifiers \/ Coming(k, TRUE)

\* A grab takes from the console the key-up of each key that went down in the
\* breath before it, until the console next hears that key come up, and of no
\* other (take_keyboards waits for the keys to come up).
ConsoleKeepsNoKey ==
  IF grabbed THEN console = breath
  ELSE breath \subseteq console /\ console \subseteq down \cup breath

\* The wait ends: with the keys up, btkey takes the keyboard unless one goes
\* down again, or its console goes away (take_keyboards).
WaitEnds ==
  waiting /\ ~grabbed /\ down = {} ~>
    grabbed \/ down # {} \/ ~foreground \/ running = "stopped"
=============================================================================
