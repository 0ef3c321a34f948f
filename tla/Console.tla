------------------------------- MODULE Console -------------------------------
(***************************************************************************)
(* Which console is in front, and how btkey comes to know: vt.Consoles,    *)
(* and Session's half of it, whose foreground the watchdog follows         *)
(* (Watchdog).                                                             *)
(*                                                                         *)
(* The kernel changes consoles a while after it is asked to, and says so   *)
(* by making the watched attribute ready; reading the attribute takes the  *)
(* readiness away, and only then does btkey ask what is in front.  Where   *)
(* the attribute cannot be watched btkey asks on a timer.  A console may   *)
(* change between any two of these.                                        *)
(***************************************************************************)
EXTENDS Watchdog

CONSTANTS
  VT,              \* the consoles
  Ours,            \* Consoles.vt
  None,            \* no console
  VTEnvironment    \* what may happen around the console; see VTEvents below

(***************************************************************************)
(* A change of console between the first look and the watch; a change that *)
(* btkey counts on and the kernel does not make; one asked for while       *)
(* another is under way.                                                   *)
(***************************************************************************)
VTEvents == {"latewatch", "switchfails", "overtaken"}

ASSUME ConsoleAssumption ==
  /\ Ours \in VT /\ None \notin VT
  /\ VTEnvironment \subseteq VTEvents

VARIABLES
  front,    \* the console in front
  wanted,   \* the one the kernel is about to change to
  ready,    \* the watched attribute has news
  watch,    \* "new", "looked", then "watching" or "asking"
  looking   \* console_changed has read it, and not asked yet

console     == <<front, wanted, ready, watch, looking>>
consoleVars == <<vars, console>>

-----------------------------------------------------------------------------
(***************************************************************************)
(* The kernel, and those who ask it for a console.                         *)
(***************************************************************************)

\* Somebody at a keyboard that is not grabbed, or another program.
SomeoneAsks ==
  /\ wanted # None => "overtaken" \in VTEnvironment
  /\ wanted' \in VT
  /\ UNCHANGED <<vars, front, ready, watch, looking>>

\* No change is made to the console that is in front already.
SwitchDone ==
  /\ wanted # None
  /\ watch = "looked" => "latewatch" \in VTEnvironment
  /\ front' = wanted /\ wanted' = None
  /\ ready' = (ready \/ (watch = "watching" /\ front # wanted))
  /\ UNCHANGED <<vars, watch, looking>>


InFront == front = Ours
Behind  == foreground # InFront

\* What is there to be served before the loop blocks, or a second passes.
Noticed == ready \/ looking \/ (watch = "asking" /\ Behind)

\* Refused, harmlessly unless btkey has let go for it.
SwitchRefused ==
  /\ wanted # None
  /\ Behind /\ ~Noticed => "switchfails" \in VTEnvironment
  /\ wanted' = None
  /\ UNCHANGED <<vars, front, ready, watch, looking>>

-----------------------------------------------------------------------------
(***************************************************************************)
(* Session.                                                                *)
(***************************************************************************)

\* poll_foreground: set_foreground of what VT_GETSTATE says
PollForeground ==
  CASE InFront /\ ~foreground -> ComeForward
    [] ~InFront /\ foreground -> LeaveForeground
    [] OTHER                  -> Turning /\ UNCHANGED vars

\* run: the first look
FirstLook ==
  /\ watch = "new" /\ watch' = "looked"
  /\ PollForeground
  /\ UNCHANGED <<front, wanted, ready, looking>>

\* watch_foreground; the read that arms the watch takes away what there was
WatchForeground ==
  /\ watch = "looked" /\ Turning
  /\ watch' \in {"watching", "asking"}
  /\ ready' = FALSE
  /\ UNCHANGED <<vars, front, wanted, looking>>

\* Mutant: rearmed, and carried on as if the news were enough.
MutConsoleChanged ==
  /\ watch = "watching" /\ ready /\ ~looking /\ Turning
  /\ ready' = FALSE
  /\ UNCHANGED <<vars, front, wanted, watch, looking>>

\* console_changed, as far as rearm
ConsoleChanged ==
  /\ watch = "watching" /\ ready /\ ~looking /\ Turning
  /\ ready' = FALSE /\ looking' = TRUE
  /\ UNCHANGED <<vars, front, wanted, watch>>

\* and from there on
AskTheKernel ==
  /\ looking /\ looking' = FALSE
  /\ PollForeground
  /\ UNCHANGED <<front, wanted, ready, watch>>

\* Mutant: the watch given up, and nothing in its place.
MutAskForTheConsole ==
  /\ watch' = "lost"
  /\ PollForeground

\* ask_for_the_console
AskForTheConsole ==
  /\ watch' = "asking"
  /\ PollForeground

\* console_changed, of an error or an attribute it cannot read
WatchFails ==
  /\ watch = "watching" /\ ~looking
  /\ AskForTheConsole
  /\ ready' = FALSE
  /\ UNCHANGED <<front, wanted, looking>>

\* The timer's poll_foreground; one that changes nothing is left out.
TimedLook ==
  /\ watch = "asking" /\ Behind
  /\ PollForeground
  /\ UNCHANGED console

\* switch_vt, of another console than ours
SwitchVT ==
  /\ watch \in {"watching", "asking"} /\ ~looking /\ grabbed
  /\ LeaveForeground
  /\ wanted' \in VT \ {Ours}
  /\ UNCHANGED <<front, ready, watch, looking>>

Started == watch \in {"watching", "asking"}

SessionElse ==
  /\ Started /\ ~looking
  /\ \/ TakeKeyboards \/ Beat \/ Hang
     \/ Block /\ ~Noticed
     \/ Disarm \/ LastReport \/ GiveBack \/ Dismiss
  /\ UNCHANGED console

\* A look takes less than a second; a change of console takes its time.
SecondPasses ==
  /\ Started \/ pc = "taking"
  /\ Turning => ~Noticed
  /\ Tick
  /\ UNCHANGED console

Around == (Crash \/ Guard) /\ UNCHANGED console

-----------------------------------------------------------------------------
ConsoleInit ==
  /\ Init
  /\ front \in VT /\ wanted = None /\ ready = FALSE
  /\ watch = "new" /\ looking = FALSE

\* set_foreground, after the keyboards
TakenOver == WatchMyself /\ UNCHANGED console

Looks ==
  \/ FirstLook \/ WatchForeground
  \/ ConsoleChanged \/ AskTheKernel \/ WatchFails \/ TimedLook
  \/ TakenOver

ConsoleNext ==
  \/ SomeoneAsks \/ SwitchDone \/ SwitchRefused
  \/ Looks \/ SwitchVT \/ SessionElse
  \/ SecondPasses \/ Around

ConsoleSpec == ConsoleInit /\ [][ConsoleNext]_consoleVars

\* The kernel changes consoles, the guardian runs, time passes, and of what
\* is ready nothing waits for ever.
ConsoleFairSpec ==
  /\ ConsoleSpec
  /\ WF_consoleVars(SwitchDone) /\ WF_consoleVars(Around /\ Guard)
  /\ WF_consoleVars(SecondPasses) /\ WF_consoleVars(Looks)
-----------------------------------------------------------------------------
(***************************************************************************)
(* Properties.                                                             *)
(***************************************************************************)

\* Every variable keeps to its type.
ConsoleTypeOK ==
  /\ front \in VT /\ wanted \in VT \cup {None}
  /\ ready \in BOOLEAN /\ looking \in BOOLEAN
  /\ watch \in {"new", "looked", "watching", "asking"}

Running == pc \in {"loop", "taking"}

\* If btkey is wrong about the console in front, something is on its way that
\* will tell it: news, a look under way, the timer, or the change that it has
\* itself just asked for (vt.rearm: "a read at the wrong moment swallows a
\* notification").
NoNewsIsMissed ==
  Running /\ Started /\ Behind =>
    Noticed \/ (~foreground /\ wanted \notin {None, Ours})

\* And in the end btkey follows, taking the keyboards or letting them go.
FollowsTheConsole ==
  Running /\ Behind ~> ~Running \/ hung \/ ~Behind
=============================================================================
