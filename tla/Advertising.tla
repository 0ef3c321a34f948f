---------------------------- MODULE Advertising -----------------------------
(***************************************************************************)
(* Keeping the class of device: Advertising writes the class it wants over *)
(* HCI, bluetoothd recomputes its own over that whenever the profiles      *)
(* change, and Advertising puts it back, told by a PropertiesChanged       *)
(* signal or, failing that, by looking every RECHECK_SECONDS.              *)
(*                                                                         *)
(* The class is what bluetoothd's property says.  A write reaches it some  *)
(* time after it was sent, and a signal reaches the main loop some time    *)
(* after it was emitted, though neither takes as long as the time from one *)
(* look to the next.                                                       *)
(***************************************************************************)
EXTENDS Integers, Sequences

CONSTANTS
  Classes,         \* the classes of device
  Wanted,          \* Advertising.wanted_class
  Good,            \* those that have all the service bits of the wanted one
  NoClass,         \* what a read that failed answers (None)
  MaxMoves,        \* how often bluetoothd recomputes the class
  ClassEnvironment \* what may happen around it; see Events below

(***************************************************************************)
(* "unreadable" is a read of the property that fails.  "lost" is a signal  *)
(* that never comes for a class bluetoothd has not set just before, and    *)
(* "relapse" for one it has; "nowatch" a bus that accepts no watch.        *)
(* "writefails" is an HCI socket that refuses, and "window" a class        *)
(* recomputed between start's write and its watch.                         *)
(***************************************************************************)
Events == {"unreadable", "lost", "relapse", "nowatch", "writefails", "window"}

ASSUME AdvertisingAssumption ==
  /\ Wanted \in Good /\ Good \subseteq Classes
  /\ NoClass \notin Classes
  /\ MaxMoves \in Nat
  /\ ClassEnvironment \subseteq Events

VARIABLES
  class,       \* bluetoothd's Class property
  moves,       \* how often bluetoothd has recomputed it
  wire,        \* writes sent that have not reached the property
  signals,     \* the signals emitted and not dispatched, oldest first
  due,         \* of the writes and of the signals, those due by the next look
  phase,       \* where Advertising.start and stop have got to
  watched,     \* class_watch is not None
  seen,        \* Advertising.seen
  unsignalled  \* Advertising.unsignalled

adapter == <<class, moves>>

classVars ==
  <<adapter, wire, signals, due, phase, watched, seen, unsignalled>>

Least(m, n) == IF m < n THEN m ELSE n

-----------------------------------------------------------------------------
(***************************************************************************)
(* bluetoothd and the controller.                                          *)
(***************************************************************************)

\* The property becomes c, and a signal says so to whoever watches.
Signalled(c) ==
  /\ phase \in {"watching", "on"} /\ watched
  /\ signals' = Append(signals, c)

Unsignalled(c) ==
  /\ \/ phase \notin {"watching", "on"}
     \/ ~watched
     \/ "lost" \in ClassEnvironment
  /\ \/ phase \in {"off", "stopped"} \/ c \in Good
     \/ /\ phase \in {"written", "watching"}
        /\ wire > 0 \/ "window" \in ClassEnvironment
     \/ /\ phase = "on"
        /\ c \notin {seen, unsignalled} \/ "relapse" \in ClassEnvironment
  /\ UNCHANGED signals

\* The profiles have changed, and bluetoothd sets the class they make.
Recompute(c) ==
  /\ moves < MaxMoves /\ c # class
  /\ moves' = moves + 1
  /\ class' = c
  /\ Signalled(c) \/ Unsignalled(c)
  /\ UNCHANGED <<wire, due, phase, watched, seen, unsignalled>>

\* A write gets there.  The controller says so to bluetoothd, which says so
\* on the bus when that is a change.
Applied ==
  /\ wire > 0
  /\ wire' = wire - 1
  /\ due' = [due EXCEPT !.writes = Least(@, wire - 1)]
  /\ class' = Wanted
  /\ \/ class # Wanted /\ (Signalled(Wanted) \/ Unsignalled(Wanted))
     \/ class = Wanted /\ UNCHANGED signals
  /\ UNCHANGED <<moves, phase, watched, seen, unsignalled>>

-----------------------------------------------------------------------------
(***************************************************************************)
(* Advertising.  A write that fails is logged and left at that.            *)
(***************************************************************************)
Write ==
  \/ wire' = wire + 1
  \/ "writefails" \in ClassEnvironment /\ wire' = wire

PutBack(current) ==
  IF current \in Good THEN UNCHANGED wire ELSE Write

Readings == {class} \cup (IF "unreadable" \in ClassEnvironment THEN {NoClass} ELSE {})

\* start, a step at a time, since bluetoothd does not wait for it: the
\* write, the watch, and the class it takes for the one it was told of.
StartWrite ==
  /\ phase = "off"
  /\ phase' = "written"
  /\ Write
  /\ UNCHANGED <<adapter, signals, due, watched, seen, unsignalled>>

StartWatch ==
  /\ phase = "written"
  /\ phase' = "watching"
  /\ watched' \in IF "nowatch" \in ClassEnvironment THEN BOOLEAN ELSE {TRUE}
  /\ UNCHANGED <<adapter, wire, signals, due, seen, unsignalled>>

StartLook ==
  /\ phase = "watching"
  /\ phase' = "on"
  /\ seen' \in Readings
  /\ due' = [writes |-> wire, signals |-> Len(signals)]
  /\ UNCHANGED <<adapter, wire, signals, watched, unsignalled>>

\* Mutant: class_changed compares with what it was told before.
MutClassChanged ==
  /\ phase = "on" /\ signals # <<>>
  /\ signals' = Tail(signals)
  /\ due' = [due EXCEPT !.signals = IF @ = 0 THEN 0 ELSE @ - 1]
  /\ seen' = Head(signals)
  /\ IF Head(signals) = seen THEN UNCHANGED wire ELSE PutBack(Head(signals))
  /\ UNCHANGED <<adapter, phase, watched, unsignalled>>

\* class_changed, called with the oldest signal
ClassChanged ==
  /\ phase = "on" /\ signals # <<>>
  /\ signals' = Tail(signals)
  /\ due' = [due EXCEPT !.signals = IF @ = 0 THEN 0 ELSE @ - 1]
  /\ seen' = Head(signals)
  /\ PutBack(Head(signals))
  /\ UNCHANGED <<adapter, phase, watched, unsignalled>>

(***************************************************************************)
(* recheck.  What was on its way at one look has arrived by the next.      *)
(***************************************************************************)
Look ==
  /\ phase = "on"
  /\ due = [writes |-> 0, signals |-> 0]

LookAgainLater ==
  /\ due' = [writes |-> wire', signals |-> Len(signals)]
  /\ UNCHANGED <<adapter, signals, phase, watched>>

LookSame ==
  /\ Look
  /\ \E current \in Readings : current \in {NoClass, seen}
  /\ unsignalled' = NoClass
  /\ UNCHANGED <<wire, seen>>
  /\ LookAgainLater

\* Mutant: the correction waits for the second look.
MutLookFirst ==
  /\ Look
  /\ class \notin {seen, unsignalled}
  /\ unsignalled' = class
  /\ UNCHANGED <<wire, seen>>
  /\ LookAgainLater

LookFirst ==
  /\ Look
  /\ class \notin {seen, unsignalled}
  /\ unsignalled' = class
  /\ PutBack(class)
  /\ UNCHANGED seen
  /\ LookAgainLater

\* The second look at the same difference: no PropertiesChanged said so.
LookSecond ==
  /\ Look
  /\ class # seen /\ class = unsignalled
  /\ unsignalled' = NoClass
  /\ seen' = class
  /\ UNCHANGED wire
  /\ LookAgainLater

Recheck == LookSame \/ LookFirst \/ LookSecond

Stop ==
  /\ phase = "on"
  /\ phase' = "stopped"
  /\ watched' = FALSE
  /\ signals' = <<>>
  /\ due' = [due EXCEPT !.signals = 0]
  /\ UNCHANGED <<adapter, wire, seen, unsignalled>>

-----------------------------------------------------------------------------
ClassInit ==
  /\ class \in Classes /\ moves = 0
  /\ wire = 0 /\ signals = <<>>
  /\ due = [writes |-> 0, signals |-> 0]
  /\ phase = "off" /\ watched = FALSE
  /\ seen = NoClass /\ unsignalled = NoClass

Bluetoothd == Applied \/ \E c \in Classes : Recompute(c)

Start == StartWrite \/ StartWatch \/ StartLook

ClassNext == Bluetoothd \/ Start \/ ClassChanged \/ Recheck \/ Stop

ClassSpec == ClassInit /\ [][ClassNext]_classVars

\* A write reaches the controller, a signal the main loop, and the timer
\* fires for as long as btkey runs, and does not for ever find the property
\* unreadable.  Nothing obliges bluetoothd.
Fairness ==
  /\ WF_classVars(Applied) /\ WF_classVars(Start)
  /\ WF_classVars(ClassChanged) /\ WF_classVars(Recheck)

FairClassSpec == ClassSpec /\ Fairness
-----------------------------------------------------------------------------
(***************************************************************************)
(* Properties.                                                             *)
(***************************************************************************)
\* Every variable keeps to its type.
ClassTypeOK ==
  /\ class \in Classes /\ moves \in 0..MaxMoves
  /\ wire \in Nat /\ signals \in Seq(Classes)
  /\ due \in [writes : Nat, signals : Nat]
  /\ phase \in {"off", "written", "watching", "on", "stopped"}
  /\ watched \in BOOLEAN
  /\ seen \in Classes \cup {NoClass}
  /\ unsignalled \in Classes \cup {NoClass}

\* While the class is wrong, something that will put it back is on its way:
\* a write, a signal that will make one, or a difference that the next look
\* will see and has not given up on (class_changed, recheck, put_back).
NothingForgotten ==
  phase = "on" /\ class \notin Good =>
    \/ wire > 0
    \/ \E i \in DOMAIN signals : signals[i] \notin Good
    \/ class \notin {seen, unsignalled}

\* And so a class that lost the bits gets them back, for as long as btkey
\* runs (the module's promise that it is "put back whenever bluetoothd
\* recomputes it").
IsPutBack ==
  phase = "on" /\ class \notin Good ~> class \in Good \/ phase = "stopped"
=============================================================================
