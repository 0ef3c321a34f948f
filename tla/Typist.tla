------------------------------- MODULE Typist -------------------------------
(***************************************************************************)
(* Typing text on the phone: typist.Typist, which turns what is pasted at  *)
(* the console into reports and sends one at a tick, and sweep.Sweep,      *)
(* which has it press every key position while the phone's layout is       *)
(* learnt.  Both share the link with the keys being pressed.               *)
(*                                                                         *)
(* The phone hears a stroke when a report names a key that the one before  *)
(* did not: of a key that the keyboard holds down it hears none, however   *)
(* often the text types it.  Text comes as characters, each one stroke of a key; Esc is    *)
(* the character that may be the start of a longer sequence, and Rest what *)
(* makes an arrow key of it.                                               *)
(***************************************************************************)
EXTENDS Naturals, Sequences, SequencesExt

CONSTANTS
  Letters,     \* the strokes that characters stand for: [mods, key]
  Esc, Rest,   \* the strokes of Escape, and of the rest of an arrow alone
  Arrow,       \* the stroke of the arrow key
  Positions,   \* the strokes a sweep makes, in their order
  Physical,    \* a key of the keyboard, that text may type too
  Modifier,    \* a modifier of the keyboard, that text may use too
  MaxChunk,    \* how many characters arrive at once (4096)
  QueueLimit,  \* typist.QUEUE_LIMIT
  MaxAsked,    \* bounds the strokes asked for in a behaviour
  MaxPolls,    \* bounds the progress timers that run at once
  Environment  \* what may happen around btkey; see Events below

(***************************************************************************)
(* The link lost, even by the report being sent; text that arrives between *)
(* the last report and the tick that finds the queue empty; a sweep asked  *)
(* for with text still queued; a cancel in that same moment; the link back *)
(* before a sweep has noticed that it went.                                *)
(***************************************************************************)
Events == {"linkloss", "latetext", "latesweep", "latecancel", "quickback"}

Chars  == Letters \cup {Esc, Rest}
Stroke == Chars \cup {Arrow} \cup Range(Positions)

ASSUME TypistAssumption ==
  /\ \A s \in Stroke : s = [mods |-> s.mods, key |-> s.key]
  /\ Positions \in Seq(Range(Positions))
  /\ MaxChunk \in Nat \ {0} /\ QueueLimit \in Nat
  /\ MaxAsked \in Nat /\ MaxPolls \in Nat
  /\ Environment \subseteq Events

VARIABLES
  queue,      \* Typist.queue: the reports to send
  timer,      \* Typist.timer is running
  pending,    \* Typist.pending holds an Escape that may be more
  escTimer,   \* Typist.escape_timer is running
  sweeping,   \* Sweep.running
  polling,    \* how many of its progress timers are running
  pressed,    \* Session.pressed
  modifiers,  \* Session.modifiers
  connected,  \* Session.link.connected
  host,       \* the last report the host read
  asked,      \* the strokes asked for, but for those given up
  heard,      \* the strokes the host heard, or had down from the keyboard
  goal,       \* how many it has to hear for the sweep to be whole
  verdict     \* what the last sweep said of itself: "done", or "stopped"

typing == <<queue, timer, pending, escTimer>>
sweep  == <<sweeping, polling, goal, verdict>>
keys   == <<pressed, modifiers, connected>>
vars   == <<typing, sweep, keys, host, asked, heard>>

-----------------------------------------------------------------------------
(***************************************************************************)
(* Reports, and what the host makes of one.                                *)
(***************************************************************************)
Report(mods, ks) == [mods |-> mods, keys |-> ks]

Released == Report({}, {})

\* Session.send_keyboard, with the keys p and the modifiers m down
SendKeys(p, m) ==
  /\ pressed' = p /\ modifiers' = m
  /\ host' = IF connected THEN Report(m, p) ELSE host

-----------------------------------------------------------------------------
(***************************************************************************)
(* Typist.                                                                 *)
(***************************************************************************)

\* Mutants: no gap for a repeat; none for a change of modifiers.
MutQueueStroke(q, s) ==
  IF q # <<>> /\ Last(q).mods # s.mods
    THEN q \o <<Report(Last(q).mods \cap s.mods, {}), Report(s.mods, {s.key})>>
    ELSE Append(q, Report(s.mods, {s.key}))
MutQueueModifiers(q, s) ==
  IF q # <<>> /\ Last(q).keys = {s.key}
    THEN q \o <<Report(Last(q).mods \cap s.mods, {}), Report(s.mods, {s.key})>>
    ELSE Append(q, Report(s.mods, {s.key}))

\* _stroke
QueueStroke(q, s) ==
  IF q # <<>> /\ (Last(q).keys = {s.key} \/ Last(q).mods # s.mods)
    THEN q \o <<Report(Last(q).mods \cap s.mods, {}), Report(s.mods, {s.key})>>
    ELSE Append(q, Report(s.mods, {s.key}))

QueueAll(q, strokes) == FoldLeft(QueueStroke, q, strokes)

\* enqueue: each stroke with a release of its own
Plainly(strokes) ==
  FoldLeft(LAMBDA q, s : q \o <<Report(s.mods, {s.key}), Released>>, <<>>, strokes)

(***************************************************************************)
(* escapes.decode, of text that may begin with the Escape held back: a     *)
(* Rest after an Escape makes an arrow, and an Escape at the very end may  *)
(* be more, so it is not decoded yet.                                      *)
(***************************************************************************)
Incomplete(text) == text # <<>> /\ Last(text) = Esc

Decoded(text) ==
  FoldLeft(LAMBDA s, c :
             IF c = Rest /\ s # <<>> /\ Last(s) = Esc
               THEN Append(Front(s), Arrow) ELSE Append(s, c),
           <<>>, IF Incomplete(text) THEN Front(text) ELSE text)

\* What is queued is asked for, and a timer drains it.
Type(strokes) ==
  /\ queue' = QueueAll(queue, strokes)
  /\ asked' = asked \o strokes
  /\ timer' = (timer \/ queue' # <<>>)

\* Mutant: the timer stopped and not started again.
MutWaitForTheRest(text) ==
  /\ pending' = Incomplete(text)
  /\ escTimer' = FALSE

\* _wait_for_the_rest
WaitForTheRest(text) ==
  /\ pending' = Incomplete(text)
  /\ escTimer' = Incomplete(text)

\* The last report sent, and the tick that finds nothing more not yet come.
Idle == queue = <<>> /\ timer

\* on_text_input and type_text, our console being in front
TextInput ==
  /\ connected /\ Len(queue) <= QueueLimit
  /\ Idle => "latetext" \in Environment
  /\ \E n \in 1..MaxChunk : \E chunk \in [1..n -> Chars] :
       LET text == IF pending THEN <<Esc>> \o chunk ELSE chunk
       IN  /\ Len(asked) + Len(text) <= MaxAsked
           /\ Type(Decoded(text))
           /\ WaitForTheRest(text)
  /\ UNCHANGED <<sweep, keys, host, heard>>

\* _give_up_waiting: it was Escape
GiveUpWaiting ==
  /\ escTimer
  /\ Idle => "latetext" \in Environment
  /\ escTimer' = FALSE
  /\ pending' = FALSE
  /\ Type(IF pending THEN <<Esc>> ELSE <<>>)
  /\ UNCHANGED <<sweep, keys, host, heard>>

\* The link goes, and on_connection_state(False) has Session release_all.
Unlinked ==
  /\ connected' = FALSE
  /\ pressed' = {} /\ modifiers' = {}
  /\ host' = Released

Forget == asked' = heard

\* drain: what is queued for a host that is gone is dropped
DrainDropped ==
  /\ timer /\ ~connected
  /\ queue' = <<>> /\ timer' = FALSE
  /\ Forget
  /\ UNCHANGED <<pending, escTimer, sweep, keys, host, heard>>

\* Mutant: the link given back as the last stroke left it.
MutDrainEmpty ==
  /\ timer /\ connected /\ queue = <<>>
  /\ timer' = FALSE
  /\ UNCHANGED <<queue, pending, escTimer, sweep, keys, host, asked, heard>>

\* drain: nothing left, and the link is given back to the keys
DrainEmpty ==
  /\ timer /\ connected /\ queue = <<>>
  /\ timer' = FALSE
  /\ SendKeys(pressed, modifiers)
  /\ UNCHANGED <<queue, pending, escTimer, sweep, connected, asked, heard>>

New(r) == r.keys \ host.keys

\* A stroke of a key that is down already, for the keyboard holds it.
Held(r) == r.keys # {} /\ r.keys \subseteq host.keys \cap pressed

\* drain: the next report
DrainReport ==
  /\ timer /\ connected /\ queue # <<>>
  /\ queue' = Tail(queue)
  /\ LET r == Head(queue)
     IN  \/ /\ host' = r
            /\ heard' = IF New(r) = {} /\ ~Held(r) THEN heard
                        ELSE Append(heard, [mods |-> r.mods,
                                            key |-> CHOOSE k \in r.keys : TRUE])
            /\ UNCHANGED keys
         \/ "linkloss" \in Environment /\ Unlinked /\ UNCHANGED heard
  /\ UNCHANGED <<timer, pending, escTimer, sweep, asked>>

\* clear
Clear ==
  /\ queue' = <<>> /\ timer' = FALSE
  /\ pending' = FALSE /\ escTimer' = FALSE
  /\ Forget
  /\ \/ queue # <<>> /\ SendKeys(pressed, modifiers)
     \/ queue = <<>> /\ UNCHANGED <<pressed, modifiers, host>>

-----------------------------------------------------------------------------
(***************************************************************************)
(* Sweep.                                                                  *)
(***************************************************************************)

\* learn_layout or learn_accents, and start
Learn ==
  /\ connected /\ polling < MaxPolls
  /\ timer => "latesweep" \in Environment
  /\ Len(asked) + Len(Positions) <= MaxAsked
  /\ queue' = queue \o Plainly(Positions)
  /\ asked' = asked \o Positions
  /\ timer' = TRUE
  /\ sweeping' = TRUE /\ polling' = polling + 1
  /\ goal' = Len(asked')
  /\ UNCHANGED <<pending, escTimer, verdict, keys, host, heard>>

Finish(word) == sweeping' = FALSE /\ verdict' = word /\ UNCHANGED goal

\* poll, the phone having disconnected
PollStopped ==
  /\ sweeping /\ polling > 0 /\ ~connected
  /\ polling' = polling - 1
  /\ Clear
  /\ Finish("stopped")
  /\ UNCHANGED <<connected, heard>>

\* Mutant: done at its first timer, whatever is still queued.
MutPollDone ==
  /\ sweeping /\ polling > 0 /\ connected
  /\ polling' = polling - 1
  /\ Finish("done")
  /\ UNCHANGED <<typing, keys, host, asked, heard>>

\* poll: with nothing queued any more, it is done
PollDone ==
  /\ sweeping /\ polling > 0 /\ connected /\ queue = <<>>
  /\ polling' = polling - 1
  /\ Finish("done")
  /\ UNCHANGED <<typing, keys, host, asked, heard>>

\* poll, its sweep over
PollLate ==
  /\ ~sweeping /\ polling > 0
  /\ polling' = polling - 1
  /\ UNCHANGED <<typing, sweeping, goal, verdict, keys, host, asked, heard>>

Cancel ==
  /\ sweeping
  /\ Idle => "latecancel" \in Environment
  /\ Clear
  /\ Finish("stopped")
  /\ UNCHANGED <<polling, connected, heard>>

-----------------------------------------------------------------------------
(***************************************************************************)
(* The keys, the console and the link.                                     *)
(***************************************************************************)
PressKey   == pressed = {} /\ SendKeys({Physical}, modifiers)
ReleaseKey == pressed # {} /\ SendKeys({}, modifiers)

PressModifier   == modifiers = {} /\ SendKeys(pressed, {Modifier})
ReleaseModifier == modifiers # {} /\ SendKeys(pressed, {})

ReleaseAll == SendKeys({}, {})

\* Forwarding's handle_key, and set_foreground(False)'s release_all
Keyboard ==
  /\ \/ PressKey \/ ReleaseKey
     \/ PressModifier \/ ReleaseModifier
     \/ ReleaseAll
  /\ UNCHANGED <<typing, sweep, connected, asked, heard>>

LinkDown ==
  /\ connected /\ "linkloss" \in Environment
  /\ Unlinked
  /\ UNCHANGED <<typing, sweep, asked, heard>>

\* A tick is 8 ms: no host is back before the one that finds it gone.
LinkUp ==
  /\ ~connected /\ ~timer
  /\ sweeping => "quickback" \in Environment
  /\ connected' = TRUE
  /\ UNCHANGED <<typing, sweep, pressed, modifiers, host, asked, heard>>

-----------------------------------------------------------------------------
Init ==
  /\ queue = <<>> /\ timer = FALSE
  /\ pending = FALSE /\ escTimer = FALSE
  /\ sweeping = FALSE /\ polling = 0 /\ goal = 0 /\ verdict = "none"
  /\ pressed = {} /\ modifiers = {} /\ connected = TRUE /\ host = Released
  /\ asked = <<>> /\ heard = <<>>

Drain == DrainDropped \/ DrainEmpty \/ DrainReport
Poll  == PollStopped \/ PollDone \/ PollLate

Next ==
  \/ TextInput \/ GiveUpWaiting \/ Drain
  \/ Learn \/ Poll \/ Cancel
  \/ Keyboard \/ LinkDown \/ LinkUp

Spec == Init /\ [][Next]_vars

\* Timers expire; nobody has to type, or to stop.
FairSpec ==
  Spec /\ WF_vars(Drain) /\ WF_vars(GiveUpWaiting) /\ WF_vars(Poll)
-----------------------------------------------------------------------------
(***************************************************************************)
(* Properties.                                                             *)
(***************************************************************************)

\* The phone hears what was asked for, each stroke once and in order, up to
\* what is given up (typist._stroke): repeats and changes of modifiers too,
\* and whatever is pressed on the keyboard meanwhile.  A stroke of a key that
\* the keyboard holds at that moment is the exception: it counts as heard.
Promise ==
  INSTANCE TypedText WITH Stroke <- Stroke, asked <- asked, heard <- heard
PromiseKept == Promise!Spec

\* Once nothing is being typed, all that was asked for and not given up has
\* been heard, but for strokes of a key held on the keyboard: no repeat is
\* lost in the report before it (_stroke).
AllHeard == ~timer => heard = asked

\* With nothing being typed, nothing is down on the phone but the keys and
\* the modifiers of the keyboard: a paste, a sweep or a cancelled one leaves
\* none of its own behind (drain, clear).
LinkGivenBack ==
  connected /\ ~timer =>
    host.keys \subseteq pressed /\ host.mods \subseteq modifiers

\* No report of a paste presses a key and at once lets go of a modifier that
\* a stroke before it pressed: the host may apply the old modifiers to it
\* (_stroke).  Of a modifier held on the keyboard it may: the queue knows
\* nothing of those.
ReleasesApart ==
  [][DrainReport /\ connected' /\ New(Head(queue)) # {}
       => host.mods \ modifiers \subseteq host'.mods]_vars

\* A sweep that says it is done was heard whole (Sweep.poll).
DoneIsWhole ==
  [][verdict' = "done" /\ sweeping /\ ~sweeping' => Len(heard) >= goal]_vars

\* What is held back as the start of a sequence is decided once no more text
\* comes: Escape pressed alone reaches the phone (_wait_for_the_rest).
EscapeDecided == <>[][~TextInput]_vars => []<>~pending
=============================================================================
