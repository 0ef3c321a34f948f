------------------------------ MODULE Watchdog ------------------------------
(***************************************************************************)
(* The watchdog: Session's heartbeats and guardian._guard, which kills a   *)
(* btkey that has gone quiet so that the kernel lets go of its keyboards.  *)
(*                                                                         *)
(* Time is whole seconds.  A pipe carries btkey's messages in order; the   *)
(* guardian does nothing but read it, so it reads without delay.  A        *)
(* handler of the main loop may block, and while it does the heartbeat     *)
(* timer waits; or it may hang, and never come back.                       *)
(***************************************************************************)
EXTENDS Naturals, Sequences

CONSTANTS
  Heartbeat,    \* HEARTBEAT_MS, in seconds
  Deadline,     \* WATCHDOG_SECONDS
  MaxBlock,     \* the longest a due heartbeat is kept waiting by handlers
  MaxTeardown,  \* how long the teardown blocks, the keyboards given back
  MaxPipe,      \* bounds how many messages wait to be read
  Environment   \* what may happen around btkey; see Events below

(***************************************************************************)
(* A handler of the loop that hangs; a hang on the way from the keyboards  *)
(* taken to the watchdog armed; the last report of the teardown, if it may *)
(* block for good; btkey killed from outside.                              *)
(***************************************************************************)
Events == {"hang", "takehang", "lasthang", "crash"}

ASSUME WatchdogAssumption ==
  /\ Heartbeat \in Nat \ {0} /\ Deadline \in Nat \ {0}
  /\ MaxBlock \in Nat /\ MaxTeardown \in Nat /\ MaxPipe \in Nat \ {0}
  /\ Environment \subseteq Events

VARIABLES
  pc,          \* "loop", "taking", "disarmed", "released", "closing", "gone";
               \* or "killed"
  left,        \* how long what btkey is in still blocks
  hung,        \* and whether it ever returns
  foreground,  \* Session.foreground
  grabbed,     \* the keyboards are grabbed
  beating,     \* Session.heartbeat_timer is running
  beat,        \* and when it is next due
  pipe,        \* the messages not yet read
  guard,       \* "watching", then "dismissed", "cleaning" or "killing"
  armed,       \* _guard's watchdog is set
  quiet,       \* since it last read anything, while it is
  silence      \* since btkey hung with the keyboards, up to past the deadline

btkey    == <<pc, left, hung, foreground, grabbed, beating, beat>>
guardian == <<guard, armed, quiet>>
vars     == <<btkey, pipe, guardian, silence>>

-----------------------------------------------------------------------------
(***************************************************************************)
(* btkey.                                                                  *)
(***************************************************************************)
Tell(message) == Len(pipe) < MaxPipe /\ pipe' = Append(pipe, message)

Turning == pc = "loop" /\ left = 0 /\ ~hung

\* A timer that is due is served before the loop blocks again.
Due == beating /\ beat = 0

\* Mutant: armed, and no heartbeat sent.
MutWatchMyself ==
  /\ pc = "taking" /\ left = 0 /\ ~hung
  /\ pc' = "loop"
  /\ Tell("arm")
  /\ UNCHANGED <<left, hung, foreground, grabbed, beating, beat, guardian,
                 silence>>

\* set_foreground(True), taking the keyboards or waiting to; it opens and
\* asks every one of them, and the watchdog is not armed yet
ComeForward ==
  /\ Turning /\ ~foreground
  /\ pc' = "taking"
  /\ foreground' = TRUE
  /\ grabbed' \in BOOLEAN
  /\ left' \in 0..MaxBlock
  /\ hung' \in {FALSE} \cup {grabbed' /\ "takehang" \in Environment}
  /\ UNCHANGED <<beating, beat, pipe, guardian, silence>>

\* and its last step, watch_myself
WatchMyself ==
  /\ pc = "taking" /\ left = 0 /\ ~hung
  /\ pc' = "loop"
  /\ Tell("arm")
  /\ beating' = TRUE /\ beat' = Heartbeat
  /\ UNCHANGED <<left, hung, foreground, grabbed, guardian, silence>>

TakeKeyboards ==
  /\ Turning /\ foreground /\ ~grabbed
  /\ grabbed' = TRUE
  /\ UNCHANGED <<pc, left, hung, foreground, beating, beat, pipe, guardian,
                 silence>>

\* Mutant: the heartbeat stopped and the guardian not told.
MutUnwatchMyself == beating' = FALSE /\ UNCHANGED <<beat, pipe>>

UnwatchMyself == beating' = FALSE /\ Tell("disarm") /\ UNCHANGED beat

\* set_foreground(False)
LeaveForeground ==
  /\ Turning /\ foreground
  /\ foreground' = FALSE
  /\ grabbed' = FALSE
  /\ UnwatchMyself
  /\ UNCHANGED <<pc, left, hung, guardian, silence>>

Beat ==
  /\ Turning /\ Due
  /\ beat' = Heartbeat
  /\ Tell("ping")
  /\ UNCHANGED <<pc, left, hung, foreground, grabbed, beating, guardian,
                 silence>>

\* A handler that blocks: a send to a phone that does not take it, or
\* connect_audio's call to BlueZ.
Block ==
  /\ Turning /\ ~Due
  /\ left' \in 1..MaxBlock
  /\ UNCHANGED <<pc, hung, foreground, grabbed, beating, beat, pipe, guardian,
                 silence>>

Hang ==
  /\ Turning /\ "hang" \in Environment
  /\ hung' = TRUE
  /\ UNCHANGED <<pc, left, foreground, grabbed, beating, beat, pipe, guardian,
                 silence>>

\* quit, and the finally of run: the watchdog is disarmed
Disarm ==
  /\ Turning
  /\ pc' = "disarmed"
  /\ beating' = FALSE
  /\ Tell("disarm")
  /\ UNCHANGED <<left, hung, foreground, grabbed, beat, guardian, silence>>

\* then release_all, which sends, while the keyboards are held
LastReport ==
  /\ pc = "disarmed"
  /\ pc' = "released"
  /\ left' \in 0..MaxBlock
  /\ hung' \in {FALSE} \cup {grabbed /\ "lasthang" \in Environment}
  /\ UNCHANGED <<foreground, grabbed, beating, beat, pipe, guardian,
                 silence>>

\* then the keyboards closed, and the services stopped, that takes a while
GiveBack ==
  /\ pc = "released" /\ left = 0 /\ ~hung
  /\ pc' = "closing"
  /\ grabbed' = FALSE
  /\ left' \in 0..MaxTeardown
  /\ UNCHANGED <<hung, foreground, beating, beat, pipe, guardian, silence>>

Dismiss ==
  /\ pc = "closing" /\ left = 0
  /\ pc' = "gone"
  /\ Tell("done")
  /\ UNCHANGED <<left, hung, foreground, grabbed, beating, beat, guardian,
                 silence>>

Gone == pc \in {"gone", "killed"}

\* The process dies, and the grabs go with its descriptors.
Die == pc' = "killed" /\ grabbed' = FALSE

Crash ==
  /\ ~Gone /\ "crash" \in Environment
  /\ Die
  /\ UNCHANGED <<left, hung, foreground, beating, beat, pipe, guardian,
                 silence>>

-----------------------------------------------------------------------------
(***************************************************************************)
(* The guardian.                                                           *)
(***************************************************************************)

\* Any message at all restarts the wait.
Read ==
  /\ guard = "watching" /\ pipe # <<>>
  /\ pipe' = Tail(pipe)
  /\ armed' = CASE Head(pipe) = "arm"    -> TRUE
                [] Head(pipe) = "disarm" -> FALSE
                [] OTHER                 -> armed
  /\ quiet' = 0
  /\ guard' = IF Head(pipe) = "done" THEN "dismissed" ELSE guard
  /\ UNCHANGED <<btkey, silence>>

EndOfFile ==
  /\ guard = "watching" /\ pipe = <<>> /\ Gone
  /\ guard' = "cleaning"
  /\ UNCHANGED <<btkey, pipe, armed, quiet, silence>>

\* Mutant: a second late.
MutExpired == guard = "watching" /\ armed /\ pipe = <<>> /\ quiet > Deadline

Expired == guard = "watching" /\ armed /\ pipe = <<>> /\ quiet >= Deadline

\* Nothing was read before the deadline.
Kill ==
  /\ Expired /\ ~Gone
  /\ Die
  /\ guard' = "killing"
  /\ UNCHANGED <<left, hung, foreground, beating, beat, pipe, armed, quiet,
                 silence>>

-----------------------------------------------------------------------------
\* A second passes.  Nobody who is free to act lets one pass first.
Tick ==
  /\ ~Gone
  /\ pipe = <<>> /\ ~Expired
  /\ ~(Turning /\ Due)
  /\ ~(pc = "taking" /\ left = 0 /\ ~hung)
  /\ left' = IF left > 0 THEN left - 1 ELSE 0
  /\ beat' = IF beating /\ beat > 0 THEN beat - 1 ELSE beat
  /\ quiet' = IF armed THEN quiet + 1 ELSE quiet
  /\ silence' = IF hung /\ grabbed /\ silence <= Deadline
                 THEN silence + 1 ELSE silence
  /\ UNCHANGED <<pc, hung, foreground, grabbed, beating, pipe, guard, armed>>

Init ==
  /\ pc = "loop" /\ left = 0 /\ hung = FALSE
  /\ foreground = FALSE /\ grabbed = FALSE
  /\ beating = FALSE /\ beat = 0
  /\ pipe = <<>>
  /\ guard = "watching" /\ armed = FALSE /\ quiet = 0
  /\ silence = 0

Session ==
  \/ ComeForward \/ WatchMyself \/ TakeKeyboards \/ LeaveForeground
  \/ Beat \/ Block \/ Hang
  \/ Disarm \/ LastReport \/ GiveBack \/ Dismiss

Guard == Read \/ EndOfFile \/ Kill

Next == Session \/ Crash \/ Guard \/ Tick

Spec == Init /\ [][Next]_vars
-----------------------------------------------------------------------------
(***************************************************************************)
(* Properties.                                                             *)
(***************************************************************************)

\* Every variable keeps to its type.
TypeOK ==
  /\ pc \in {"loop", "taking", "disarmed", "released", "closing", "gone",
             "killed"}
  /\ left \in Nat /\ hung \in BOOLEAN
  /\ foreground \in BOOLEAN /\ grabbed \in BOOLEAN
  /\ beating \in BOOLEAN /\ beat \in 0..Heartbeat
  /\ pipe \in Seq({"arm", "disarm", "ping", "done"})
  /\ guard \in {"watching", "dismissed", "cleaning", "killing"}
  /\ armed \in BOOLEAN /\ quiet \in Nat /\ silence \in Nat

\* The guardian kills only a btkey that hangs, never one that is only kept
\* from its heartbeat for a while (HEARTBEAT_MS and WATCHDOG_SECONDS).
SparesTheLiving == guard = "killing" => hung

\* A btkey that hangs in its loop with the keyboards grabbed has them for no
\* longer than the deadline, whatever it had last told the guardian
\* (watch_myself).  Nothing bounds a hang elsewhere: between the keyboards
\* taken and the watchdog armed, and in the teardown's last report.
HangIsBounded == pc = "loop" => silence <= Deadline

\* With another console in front btkey holds nothing, and once it has said
\* so the guardian leaves it alone, however long it blocks (watch_myself).
BackgroundIsLeftAlone ==
  ~foreground /\ pipe = <<>> => ~grabbed /\ ~armed
=============================================================================
