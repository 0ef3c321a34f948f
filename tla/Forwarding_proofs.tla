-------------------------- MODULE Forwarding_proofs --------------------------
(***************************************************************************)
(* What Forwarding guarantees for every keyboard, rollover limit, read     *)
(* size and kernel queue.                                                  *)
(***************************************************************************)
EXTENDS Strays, SequenceTheorems, FiniteSetTheorems, TLAPS

-----------------------------------------------------------------------------
(***************************************************************************)
(* The kernel's queue: what queueing, reading and handling do to the       *)
(* sequence of events.                                                     *)
(***************************************************************************)

\* Queueing an event keeps every event already read, and the newest is last.
LEMMA QueueFacts ==
  ASSUME TypeOK, NEW e \in Transition
  PROVE  /\ Queue(events, e) \in Seq(Transition)
         /\ Len(Queue(events, e)) >= reading + 1
<1>1. events \in Seq(Transition) /\ reading \in Nat /\ reading <= Len(events)
  BY DEF TypeOK
<1>2. CASE Unread < Capacity
  <2>1. Queue(events, e) = Append(events, e)
    BY <1>2 DEF Queue
  <2> QED
    BY <1>1, <2>1, AppendProperties, LenProperties
<1>3. CASE ~(Unread < Capacity)
  <2>1. Queue(events, e) = Append(SubSeq(events, 1, reading), e)
    BY <1>3 DEF Queue
  <2>2. \A i \in 1..reading : events[i] \in Transition
    BY <1>1, ElementOfSeq, LenProperties
  <2>3. /\ SubSeq(events, 1, reading) \in Seq(Transition)
        /\ Len(SubSeq(events, 1, reading)) = reading
    BY <1>1, <2>2, SubSeqProperties
  <2> QED
    BY <1>1, <2>1, <2>3, AppendProperties
<1> QED BY <1>2, <1>3

\* What is left of the queue after a read of n events.
LEMMA DrainFacts ==
  ASSUME TypeOK, NEW n \in 1..Len(events)
  PROVE  /\ Drain(n) \in Seq(Transition)
         /\ Len(Drain(n)) = Len(events) - n
         /\ \A i \in 1..Len(Drain(n)) : Drain(n)[i] = events[n + i]
<1>1. events \in Seq(Transition) /\ Len(events) \in Nat
  BY LenProperties DEF TypeOK
<1>2. \A i \in n + 1..Len(events) : events[i] \in Transition
  BY <1>1, ElementOfSeq
<1> QED
  BY <1>1, <1>2, SubSeqProperties DEF Drain

\* The events left when the first is handled.
LEMMA TailFacts ==
  ASSUME TypeOK, reading > 0
  PROVE  /\ events # <<>>
         /\ Head(events) = events[1]
         /\ Head(events) \in Transition
         /\ Tail(events) \in Seq(Transition)
         /\ Len(Tail(events)) = Len(events) - 1
         /\ \A i \in 1..Len(Tail(events)) : Tail(events)[i] = events[i + 1]
<1>1. events \in Seq(Transition) /\ Len(events) \in Nat /\ Len(events) > 0
  BY LenProperties DEF TypeOK
<1>2. events # <<>>
  BY <1>1
<1> QED
  BY <1>1, <1>2, HeadTailProperties

\* What one read has returned and not yet handled, but for its first event.
LEMMA UnhandledFacts ==
  ASSUME TypeOK, reading > 0
  PROVE  /\ SubSeq(events, 2, reading) \in Seq(Transition)
         /\ Len(SubSeq(events, 2, reading)) = reading - 1
<1>1. events \in Seq(Transition) /\ Len(events) \in Nat /\ reading \in Nat
      /\ reading <= Len(events)
  BY LenProperties DEF TypeOK
<1>2. \A i \in 2..reading : events[i] \in Transition
  BY <1>1, ElementOfSeq
<1> QED
  BY <1>1, <1>2, SubSeqProperties

-----------------------------------------------------------------------------
(***************************************************************************)
(* Type correctness.                                                       *)
(***************************************************************************)

\* A report built from known keys is a report.
LEMMA ReportType ==
  ASSUME NEW p \in SUBSET (Plain \cup Fn)
  PROVE  Usages(p) \in SUBSET (Plain \cup Fn \cup {ErrorRollOver})
BY DEF Usages

LEMMA NothingType == Nothing \in Report
BY DEF Nothing, Report

LEMMA KeyboardReportType ==
  ASSUME NEW r \in Report, NEW p \in SUBSET (Plain \cup Fn),
         NEW m \in SUBSET Mods
  PROVE  [r EXCEPT !.keys = Usages(p), !.mods = m] \in Report
<1>1. Usages(p) \in SUBSET (Plain \cup Fn \cup {ErrorRollOver})
  BY ReportType
<1> QED BY <1>1 DEF Report

LEMMA ConsumerReportType ==
  ASSUME NEW r \in Report, NEW u \in Media \cup {NoUsage}
  PROVE  [r EXCEPT !.usage = u] \in Report
BY DEF Report

\* Taking the keyboards, on a queue no longer than it was, keeps the types.
LEMMA TakeType ==
  ASSUME TypeOK, NEW ev \in Seq(Transition), TakeKeyboards(ev)
  PROVE  /\ down' \in SUBSET Keyboard
         /\ console' \in SUBSET Keyboard /\ breath' \in SUBSET Keyboard
         /\ events' \in Seq(Transition) /\ Len(events') >= Len(ev)
         /\ grabbed' \in BOOLEAN /\ waiting' \in BOOLEAN
         /\ modifiers' \in SUBSET Mods
<1>1. CASE Wait(ev)
  BY <1>1, LenProperties DEF Wait, TypeOK
<1>2. CASE Grab(ev)
  <2>1. PICK late \in Late :
          /\ down' = late
          /\ modifiers' = late \cap Mods
          /\ console' = IF grabbed THEN console ELSE console \cup late
          /\ breath' = IF grabbed THEN breath ELSE breath \cup late
          /\ \/ late = {} /\ events' = ev
             \/ \E k \in late : events' = Append(ev, Event(k, TRUE))
    BY <1>2 DEF Grab, SyncModifiers
  <2>2. late \in SUBSET Keyboard
    BY DEF Late
  <2>3. events' \in Seq(Transition) /\ Len(events') >= Len(ev)
    <3>1. CASE late = {} /\ events' = ev
      BY <3>1, LenProperties
    <3>2. ASSUME NEW k \in late, events' = Append(ev, Event(k, TRUE))
          PROVE  events' \in Seq(Transition) /\ Len(events') >= Len(ev)
      <4>1. Event(k, TRUE) \in Transition
        BY <2>2 DEF Event, Transition
      <4>2. Len(ev) \in Nat
        BY LenProperties
      <4>3. /\ Append(ev, Event(k, TRUE)) \in Seq(Transition)
            /\ Len(Append(ev, Event(k, TRUE))) = Len(ev) + 1
        BY <4>1, AppendProperties
      <4>4. Len(events') = Len(ev) + 1
        BY <3>2, <4>3
      <4>5. events' \in Seq(Transition)
        BY <3>2, <4>3
      <4>6. Len(events') >= Len(ev)
        BY <4>2, <4>4
      <4> QED
        BY <4>5, <4>6
    <3> QED BY <2>1, <3>1, <3>2
  <2> QED
    BY <1>2, <2>1, <2>2, <2>3 DEF Grab, TypeOK
<1> QED BY <1>1, <1>2 DEF TakeKeyboards

\* The phone, the link and what btkey believes down after a report is sent.
ReportsOK ==
  /\ pressed \in SUBSET (Plain \cup Fn)
  /\ modifiers \in SUBSET Mods
  /\ connected \in BOOLEAN
  /\ phone \in Report

LEMMA LinkLostType == LinkLost => ReportsOK'
BY NothingType DEF LinkLost, ReportsOK

LEMMA SendKeyboardType ==
  ASSUME TypeOK, NEW p \in SUBSET (Plain \cup Fn), NEW m \in SUBSET Mods,
         SendKeyboard(p, m)
  PROVE  ReportsOK'
BY LinkLostType, KeyboardReportType
   DEF SendKeyboard, WriteFails, TypeOK, ReportsOK, link

LEMMA SendConsumerType ==
  ASSUME TypeOK, NEW u \in Media \cup {NoUsage}, SendConsumer(u)
  PROVE  ReportsOK'
BY LinkLostType, ConsumerReportType
   DEF SendConsumer, WriteFails, TypeOK, ReportsOK, link

LEMMA ReleaseAllType ==
  ASSUME TypeOK, ReleaseAll
  PROVE  ReportsOK'
BY LinkLostType, NothingType DEF ReleaseAll, Released, WriteFails, TypeOK, ReportsOK

\* The kernel's queue and the events of the current read.
EventsOK ==
  /\ events \in Seq(Transition)
  /\ reading \in Nat /\ reading <= Len(events)

LEMMA NoEventsType ==
  ASSUME events' = <<>>, reading' = 0
  PROVE  EventsOK'
BY EmptySeq DEF EventsOK

LEMMA HandleType ==
  ASSUME TypeOK, Handle
  PROVE  TypeOK'
<1>1. Handling
  BY DEF Handle, HandleModifier, HandleSwitch, HandleQuit, HandlePairing,
         HandleConsumer, HandlePlain
<1>2. /\ reading > 0 /\ reading \in Nat /\ reading' = reading - 1
      /\ UNCHANGED <<down, console, breath, topRow, inFront, notice>>
  BY <1>1 DEF Handling, TypeOK
<1>3. /\ Head(events) \in Transition
      /\ Tail(events) \in Seq(Transition)
      /\ Len(Tail(events)) = Len(events) - 1
  BY <1>2, TailFacts
<1>4. Key \in Codes /\ Press \in BOOLEAN
  BY <1>3, KeyAssumption DEF Key, Press, Transition
<1>5. /\ SubSeq(events, 2, reading) \in Seq(Transition)
      /\ Len(SubSeq(events, 2, reading)) = reading - 1
  BY <1>2, UnhandledFacts
<1>6. Code \in Codes
  BY <1>4, KeyAssumption DEF Code, CodeOf, Codes
<1>7. Len(events) \in Nat /\ reading <= Len(events)
  BY LenProperties DEF TypeOK
<1>8. CASE HandleModifier
  <2>1. /\ ModifiersNow \in SUBSET Mods
        /\ pressed \in SUBSET (Plain \cup Fn)
    BY <1>8 DEF HandleModifier, ModifiersNow, TypeOK
  <2>2. ReportsOK'
    <3>1. CASE pairing
      BY <1>8, <2>1, <3>1 DEF HandleModifier, ReportsOK, TypeOK, link
    <3>2. CASE ~pairing
      BY <1>8, <2>1, <3>2, SendKeyboardType DEF HandleModifier
    <3> QED BY <3>1, <3>2
  <2> QED
    BY <1>8, <1>2, <1>3, <1>7, <2>2
       DEF HandleModifier, Next1, ReportsOK, TypeOK
<1>9. CASE HandleSwitch
  <2>1. CASE foreground /\ LeaveForeground(SubSeq(events, 2, reading))
    <3>1. ReportsOK'
      BY <2>1, ReleaseAllType DEF LeaveForeground
    <3> QED
      <4>1. EventsOK'
        BY <1>2, <1>5, <2>1 DEF LeaveForeground, EventsOK
      <4> QED
        BY <1>9, <1>2, <2>1, <3>1, <4>1
           DEF HandleSwitch, LeaveForeground, ReportsOK, EventsOK, TypeOK
  <2>2. CASE Next1 /\ UNCHANGED <<session, link>>
    BY <1>9, <1>2, <1>3, <1>7, <2>2
       DEF HandleSwitch, Next1, session, link, TypeOK
  <2> QED BY <1>9, <2>1, <2>2 DEF HandleSwitch
<1>10. CASE HandleQuit
  BY <1>10, <1>2, <1>3, <1>7
     DEF HandleQuit, Next1, session, link, TypeOK
<1>11. CASE HandlePairing
  <2>1. pairing' \in BOOLEAN
    BY <1>11 DEF HandlePairing
  <2> QED
    BY <1>11, <1>2, <1>3, <1>7, <2>1
       DEF HandlePairing, Next1, session, link, TypeOK
<1>12. CASE HandleConsumer
  <2>1. (IF Press THEN Code ELSE NoUsage) \in Media \cup {NoUsage}
    BY <1>12 DEF HandleConsumer
  <2>2. ReportsOK'
    BY <1>12, <2>1, SendConsumerType DEF HandleConsumer
  <2> QED
    BY <1>12, <1>2, <1>3, <1>7, <2>2
       DEF HandleConsumer, Next1, ReportsOK, TypeOK
<1>13. CASE HandlePlain
  <2>1. (IF Press THEN pressed \cup {Code} ELSE pressed \ {Code})
          \in SUBSET (Plain \cup Fn)
    BY <1>13 DEF HandlePlain, TypeOK
  <2>2. ReportsOK'
    BY <1>13, <2>1, SendKeyboardType DEF HandlePlain, TypeOK
  <2> QED
    BY <1>13, <1>2, <1>3, <1>7, <2>2
       DEF HandlePlain, Next1, ReportsOK, TypeOK
<1> QED
  BY <1>8, <1>9, <1>10, <1>11, <1>12, <1>13 DEF Handle

LEMMA TypeInductive ==
  ASSUME TypeOK, [Next]_vars
  PROVE  TypeOK'
<1>1. ASSUME NEW k \in Keyboard, KeyDown(k) \/ KeyUp(k)
      PROVE  TypeOK'
  <2>1. Event(k, TRUE) \in Transition /\ Event(k, FALSE) \in Transition
    BY DEF Event, Transition
  <2>2. events' \in Seq(Transition) /\ reading <= Len(events')
    <3>1. CASE Open
      <4>1. PICK e \in Transition : events' = Queue(events, e)
        BY <1>1, <2>1, <3>1 DEF KeyDown, KeyUp
      <4>2. /\ Queue(events, e) \in Seq(Transition)
            /\ Len(Queue(events, e)) >= reading + 1
        BY QueueFacts
      <4> QED
        BY <4>1, <4>2, LenProperties DEF TypeOK
    <3>2. CASE ~Open
      BY <1>1, <3>2 DEF KeyDown, KeyUp, TypeOK
    <3> QED BY <3>1, <3>2
  <2> QED
    BY <1>1, <2>2 DEF KeyDown, KeyUp, TypeOK, session, link, rest
<1>2. CASE ConsoleMoves
  BY <1>2 DEF ConsoleMoves, TypeOK, device, session, link
<1>3. CASE ReadWaiting
  <2>1. PICK n \in 1..Len(events) :
          \/ waiting /\ down = {} /\ Grab(Drain(n))
          \/ /\ events' = Drain(n)
             /\ UNCHANGED <<down, console, breath, grabbed, waiting,
                            modifiers>>
    BY <1>3 DEF ReadWaiting
  <2>2. /\ reading = 0 /\ UNCHANGED <<reading, foreground, pressed, link, rest>>
    BY <1>3 DEF ReadWaiting, Idle
  <2>3. Drain(n) \in Seq(Transition) /\ Len(Drain(n)) \in Nat
    BY DrainFacts, LenProperties
  <2>4. CASE Grab(Drain(n))
    BY <2>2, <2>3, <2>4, TakeType, LenProperties
       DEF TakeKeyboards, TypeOK, link, rest
  <2>5. CASE /\ events' = Drain(n)
             /\ UNCHANGED <<down, console, breath, grabbed, waiting, modifiers>>
    BY <2>2, <2>3, <2>5 DEF TypeOK, link, rest
  <2> QED BY <2>1, <2>4, <2>5
<1>4. CASE ReadGrabbed
  <2>1. PICK n \in 1..Len(events) : reading' = n
    BY <1>4 DEF ReadGrabbed
  <2> QED
    BY <1>4, <2>1, LenProperties DEF ReadGrabbed, TypeOK, session, link, rest
<1>5. CASE Handle
  BY <1>5, HandleType
<1>6. CASE Poll
  <2>1. reading = 0 /\ notice' = FALSE
        /\ UNCHANGED <<topRow, pairing, inFront, running>>
    BY <1>6 DEF Poll, Idle
  <2>2. <<>> \in Seq(Transition) /\ Len(<<>>) = 0
    BY EmptySeq
  <2>3. CASE UNCHANGED <<device, session, link>>
    BY <2>1, <2>3 DEF TypeOK, device, session, link
  <2>4. CASE /\ foreground' = TRUE
             /\ TakeKeyboards(<<>>)
             /\ UNCHANGED <<reading, pressed, link>>
    BY <2>1, <2>2, <2>4, TakeType, LenProperties DEF TypeOK, link
  <2>5. CASE /\ LeaveForeground(<<>>)
             /\ UNCHANGED <<down, reading, console, breath>>
    <3>1. ReportsOK'
      BY <2>5, ReleaseAllType DEF LeaveForeground
    <3>2. EventsOK'
      BY <2>1, <2>5, NoEventsType DEF LeaveForeground
    <3> QED
      BY <2>1, <2>5, <3>1, <3>2
         DEF LeaveForeground, ReportsOK, EventsOK, TypeOK
  <2> QED BY <1>6, <2>3, <2>4, <2>5 DEF Poll
<1>7. CASE Settle
  <2>1. events \in Seq(Transition) /\ Len(events) \in Nat
        /\ reading \in Nat /\ reading <= Len(events)
    BY LenProperties DEF TypeOK
  <2>2. Len(events') \in Nat /\ Len(events') >= Len(events)
        /\ events' \in Seq(Transition)
    BY <1>7, <2>1, TakeType, LenProperties DEF Settle
  <2> QED
    BY <1>7, <2>1, <2>2, TakeType DEF Settle, TypeOK, link, rest
<1>8. CASE LinkUp
  BY <1>8 DEF LinkUp, TypeOK, device, session
<1>9. CASE LinkDown
  BY <1>9, LinkLostType
     DEF LinkDown, ReportsOK, TypeOK, device, rest
<1>10. CASE PairingStart \/ PairingEnd
  BY <1>10 DEF PairingStart, PairingEnd, TypeOK, device, session, link
<1>11. CASE Signal
  BY <1>11 DEF Signal, TypeOK, device, session, link
<1>12. CASE Teardown
  <2>1. EventsOK'
    BY <1>12, NoEventsType DEF Teardown, Idle
  <2>2. ReportsOK'
    BY <1>12, LinkLostType DEF Teardown
  <2> QED
    BY <1>12, <2>1, <2>2 DEF Teardown, ReportsOK, EventsOK, TypeOK
<1>13. CASE UNCHANGED vars
  BY <1>13 DEF TypeOK, vars, device, session, link, rest
<1> QED
  BY <1>1, <1>2, <1>3, <1>4, <1>5, <1>6, <1>7, <1>8, <1>9, <1>10, <1>11,
     <1>12, <1>13 DEF Next, User, Loop

\* Every variable of a session keeps to its type, whatever the environment
\* does.
THEOREM TypeCorrect == Spec => []TypeOK
<1>1. Init => TypeOK
  <2>1. Init => EventsOK
    BY EmptySeq DEF Init, EventsOK
  <2>2. Init => ReportsOK
    BY NothingType DEF Init, ReportsOK
  <2> QED
    BY <2>1, <2>2 DEF Init, EventsOK, ReportsOK, TypeOK
<1>2. TypeOK /\ [Next]_vars => TypeOK'
  BY TypeInductive
<1> QED
  BY <1>1, <1>2, PTL DEF Spec

-----------------------------------------------------------------------------
(***************************************************************************)
(* Reports: every change of what btkey believes down is told, or the link  *)
(* is down and the phone believes nothing.                                 *)
(***************************************************************************)
ReportInv == ReportIsCurrent /\ (~connected => phone = Nothing)

LEMMA ReportInvSent ==
  ASSUME TypeOK, ReportInv, NEW p, NEW m, SendKeyboard(p, m)
  PROVE  ReportInv'
<1>1. CASE /\ connected
           /\ phone' = [phone EXCEPT !.keys = Usages(p), !.mods = m]
           /\ pressed' = p
           /\ UNCHANGED connected
  <2>1. phone'.keys = Usages(p)
    BY <1>1 DEF TypeOK, Report
  <2> QED
    BY <1>1, <2>1 DEF ReportInv, ReportIsCurrent, Usages
<1>2. CASE LinkLost
  BY <1>2 DEF LinkLost, ReportInv, ReportIsCurrent, Nothing
<1>3. CASE ~connected /\ pressed' = p /\ UNCHANGED link
  BY <1>3 DEF ReportInv, ReportIsCurrent, Nothing, link
<1> QED BY <1>1, <1>2, <1>3 DEF SendKeyboard, WriteFails

LEMMA ReportInvConsumer ==
  ASSUME TypeOK, ReportInv, NEW u, SendConsumer(u)
  PROVE  ReportInv'
<1>1. CASE /\ connected
           /\ phone' = [phone EXCEPT !.usage = u]
           /\ UNCHANGED <<connected, pressed, modifiers>>
  <2>1. phone'.keys = phone.keys
    BY <1>1 DEF TypeOK, Report
  <2> QED
    BY <1>1, <2>1 DEF ReportInv, ReportIsCurrent, Usages
<1>2. CASE LinkLost
  BY <1>2 DEF LinkLost, ReportInv, ReportIsCurrent, Nothing
<1>3. CASE ~connected /\ UNCHANGED <<link, pressed, modifiers>>
  BY <1>3 DEF ReportInv, ReportIsCurrent, Usages, link
<1> QED BY <1>1, <1>2, <1>3 DEF SendConsumer, WriteFails

LEMMA ReportInvReleased ==
  ASSUME ReportInv, ReleaseAll
  PROVE  ReportInv'
BY DEF ReleaseAll, Released, WriteFails, LinkLost, ReportInv, ReportIsCurrent,
   Nothing

LEMMA ReportInvKept ==
  ASSUME ReportInv, UNCHANGED <<pressed, link>>
  PROVE  ReportInv'
BY DEF ReportInv, ReportIsCurrent, Usages, link

LEMMA ReportInvInductive ==
  ASSUME TypeOK, ReportInv, [Next]_vars
  PROVE  ReportInv'
<1>1. CASE HandleModifier
  BY <1>1, ReportInvSent, ReportInvKept DEF HandleModifier
<1>2. CASE HandleSwitch
  BY <1>2, ReportInvReleased, ReportInvKept
     DEF HandleSwitch, LeaveForeground, session
<1>3. CASE HandleConsumer
  BY <1>3, ReportInvConsumer DEF HandleConsumer
<1>4. CASE HandlePlain
  BY <1>4, ReportInvSent DEF HandlePlain
<1>5. CASE Poll
  BY <1>5, ReportInvReleased, ReportInvKept DEF Poll, LeaveForeground, session
<1>6. CASE LinkUp
  BY <1>6 DEF LinkUp, ReportInv, ReportIsCurrent, Usages, session
<1>7. CASE LinkDown \/ Teardown
  BY <1>7 DEF LinkDown, Teardown, LinkLost, ReportInv,
     ReportIsCurrent, Nothing
<1>8. CASE UNCHANGED <<pressed, link>>
  BY <1>8, ReportInvKept
<1>9. CASE \/ User \/ ReadWaiting \/ ReadGrabbed \/ HandleQuit
           \/ HandlePairing \/ Settle \/ PairingStart \/ PairingEnd \/ Signal
           \/ UNCHANGED vars
  <2>1. UNCHANGED <<pressed, link>>
    BY <1>9 DEF User, ConsoleMoves, KeyDown, KeyUp, ReadWaiting, ReadGrabbed,
       HandleQuit, HandlePairing, Settle, PairingStart, PairingEnd, Signal,
       vars, session
  <2> QED BY <2>1, ReportInvKept
<1> QED
  BY <1>1, <1>2, <1>3, <1>4, <1>5, <1>6, <1>7, <1>9 DEF Next, Loop, Handle

\* The report the phone acts on is always the one btkey would send now, or
\* the phone believes no key down: no press or release is left untold by any
\* handler, whatever fails on the way.
THEOREM ReportsCurrent == Spec => []ReportIsCurrent
<1>1. Init => ReportInv
  BY DEF Init, ReportInv, ReportIsCurrent, Nothing
<1>2. TypeOK /\ ReportInv /\ [Next]_vars => ReportInv'
  BY ReportInvInductive
<1>3. ReportInv => ReportIsCurrent
  BY DEF ReportInv
<1> QED
  BY <1>1, <1>2, <1>3, TypeCorrect, PTL DEF Spec

-----------------------------------------------------------------------------
(***************************************************************************)
(* The console: taking the keyboard takes no key-up from it.               *)
(***************************************************************************)
LEMMA ConsoleGrab ==
  ASSUME ConsoleKeepsNoKey, NEW ev, TakeKeyboards(ev)
  PROVE  ConsoleKeepsNoKey'
<1>1. CASE Wait(ev)
  BY <1>1 DEF Wait, ConsoleKeepsNoKey
<1>2. CASE Grab(ev)
  BY <1>2 DEF Grab, ConsoleKeepsNoKey
<1> QED BY <1>1, <1>2 DEF TakeKeyboards

LEMMA ConsoleInductive ==
  ASSUME TypeOK, ConsoleKeepsNoKey, [Next]_vars
  PROVE  ConsoleKeepsNoKey'
<1>1. ASSUME NEW k \in Keyboard, KeyDown(k) \/ KeyUp(k)
      PROVE  ConsoleKeepsNoKey'
  <2>1. grabbed' = grabbed
    BY <1>1 DEF KeyDown, KeyUp, session
  <2>2. CASE KeyDown(k)
    BY <2>1, <2>2 DEF KeyDown, ConsoleKeepsNoKey
  <2>3. CASE KeyUp(k)
    BY <2>1, <2>3 DEF KeyUp, ConsoleKeepsNoKey
  <2> QED BY <1>1, <2>2, <2>3
<1>2. CASE ReadWaiting
  <2>1. PICK n \in 1..Len(events) :
          \/ Grab(Drain(n))
          \/ UNCHANGED <<down, console, breath, grabbed, waiting, modifiers>>
    BY <1>2 DEF ReadWaiting
  <2> QED
    BY <2>1, ConsoleGrab DEF TakeKeyboards, ConsoleKeepsNoKey
<1>3. CASE Poll
  <2>1. CASE UNCHANGED <<device, session, link>>
    BY <2>1 DEF device, session, ConsoleKeepsNoKey
  <2>2. CASE TakeKeyboards(<<>>)
    BY <2>2, ConsoleGrab
  <2>3. CASE LeaveForeground(<<>>) /\ UNCHANGED <<down, reading, console, breath>>
    BY <2>3 DEF LeaveForeground, ConsoleKeepsNoKey
  <2> QED BY <1>3, <2>1, <2>2, <2>3 DEF Poll
<1>4. CASE Settle
  BY <1>4, ConsoleGrab DEF Settle
<1>5. CASE HandleSwitch
  BY <1>5 DEF HandleSwitch, Handling, LeaveForeground, ConsoleKeepsNoKey,
     session
<1>6. CASE Teardown
  BY <1>6 DEF Teardown, ConsoleKeepsNoKey
<1>7. CASE \/ ConsoleMoves \/ ReadGrabbed \/ HandleModifier \/ HandleQuit
           \/ HandlePairing \/ HandleConsumer \/ HandlePlain
           \/ LinkUp \/ LinkDown \/ PairingStart \/ PairingEnd \/ Signal
           \/ UNCHANGED vars
  <2>1. UNCHANGED <<down, console, breath, grabbed>>
    BY <1>7 DEF ConsoleMoves, ReadGrabbed, HandleModifier, HandleQuit,
       HandlePairing, HandleConsumer, HandlePlain, Handling, LinkUp, LinkDown,
       PairingStart, PairingEnd, Signal, vars, device, session
  <2> QED BY <2>1 DEF ConsoleKeepsNoKey
<1> QED
  BY <1>1, <1>2, <1>3, <1>4, <1>5, <1>6, <1>7 DEF Next, User, Loop, Handle

\* A grab takes from the console the key-ups of the keys pressed in the breath
\* between btkey's last look and it, and of no other: what the console believes
\* down is exactly those keys while btkey has the keyboard, and no more than
\* they and the keys that are down while it has not.
THEOREM ConsoleKept == Spec => []ConsoleKeepsNoKey
<1>1. Init => ConsoleKeepsNoKey
  BY DEF Init, ConsoleKeepsNoKey
<1>2. TypeOK /\ ConsoleKeepsNoKey /\ [Next]_vars => ConsoleKeepsNoKey'
  BY ConsoleInductive
<1> QED
  BY <1>1, <1>2, TypeCorrect, PTL DEF Spec

-----------------------------------------------------------------------------
(***************************************************************************)
(* The queue tells the truth: the last event of a key says whether it is   *)
(* down.  It holds while the descriptor is open and its queue never full.  *)
(***************************************************************************)
TruthAt(ev, d, i) ==
  \/ ev[i].press = (ev[i].key \in d)
  \/ \E j \in i + 1..Len(ev) : ev[j].key = ev[i].key /\ ev[j].press # ev[i].press

Truth(ev, d) == \A i \in 1..Len(ev) : TruthAt(ev, d, i)

LEMMA TruthEmpty == ASSUME NEW d PROVE Truth(<<>>, d)
BY EmptySeq DEF Truth

\* One more key event is queued as the key goes up or down.
LEMMA TruthAppend ==
  ASSUME NEW ev \in Seq(Transition), NEW d, NEW d2, Truth(ev, d),
         NEW k \in Keyboard, NEW press \in BOOLEAN,
         press = (k \in d2), d \ {k} = d2 \ {k}
  PROVE  Truth(Append(ev, Event(k, press)), d2)
<1> DEFINE ev2 == Append(ev, Event(k, press))
<1>1. Len(ev) \in Nat
  BY LenProperties
<1>2. Event(k, press) \in Transition
  BY DEF Event, Transition
<1>3. /\ Len(ev2) = Len(ev) + 1
      /\ \A i \in 1..Len(ev) : ev2[i] = ev[i]
      /\ ev2[Len(ev) + 1] = Event(k, press)
  BY <1>2, AppendProperties
<1> HIDE DEF ev2
<1> SUFFICES ASSUME NEW i \in 1..Len(ev2)
             PROVE  TruthAt(ev2, d2, i)
  BY DEF Truth, ev2
<1>4. CASE i = Len(ev) + 1
  BY <1>3, <1>4 DEF TruthAt, Event
<1>5. CASE i \in 1..Len(ev) /\ ev[i].key = k
  <2>1. ev2[i] = ev[i] /\ ev[i].press \in BOOLEAN
    <3>1. ev[i] \in Transition
      BY <1>5, ElementOfSeq
    <3> QED BY <1>3, <1>5, <3>1 DEF Transition
  <2>2. CASE ev[i].press = press
    BY <1>5, <2>1, <2>2 DEF TruthAt
  <2>3. CASE ev[i].press # press
    <3>1. Len(ev) + 1 \in i + 1..Len(ev2)
      BY <1>1, <1>3, <1>5
    <3>2. ev2[Len(ev) + 1].key = k /\ ev2[Len(ev) + 1].press = press
      BY <1>3 DEF Event
    <3> QED BY <1>5, <2>1, <2>3, <3>1, <3>2 DEF TruthAt
  <2> QED BY <2>2, <2>3
<1>6. CASE i \in 1..Len(ev) /\ ev[i].key # k
  <2>1. ev2[i] = ev[i] /\ (ev[i].key \in d2 <=> ev[i].key \in d)
    BY <1>3, <1>6
  <2>2. TruthAt(ev, d, i)
    BY <1>6 DEF Truth
  <2>3. CASE ev[i].press = (ev[i].key \in d)
    BY <2>1, <2>3 DEF TruthAt
  <2>4. ASSUME NEW j \in i + 1..Len(ev), ev[j].key = ev[i].key,
               ev[j].press # ev[i].press
        PROVE  TruthAt(ev2, d2, i)
    <3>1. j \in 1..Len(ev) /\ j \in i + 1..Len(ev2)
      BY <1>1, <1>3, <1>6
    <3> QED BY <1>3, <2>1, <2>4, <3>1 DEF TruthAt
  <2> QED BY <2>2, <2>3, <2>4 DEF TruthAt
<1> QED BY <1>1, <1>3, <1>4, <1>5, <1>6

\* The first n events are gone: read and thrown away, or handled.
LEMMA TruthDrop ==
  ASSUME NEW ev \in Seq(Transition), NEW d, Truth(ev, d),
         NEW n \in 0..Len(ev), NEW ev2,
         Len(ev2) = Len(ev) - n,
         \A i \in 1..Len(ev2) : ev2[i] = ev[n + i]
  PROVE  Truth(ev2, d)
<1>1. Len(ev) \in Nat
  BY LenProperties
<1> SUFFICES ASSUME NEW i \in 1..Len(ev2)
             PROVE  TruthAt(ev2, d, i)
  BY DEF Truth
<1>2. n + i \in 1..Len(ev) /\ ev2[i] = ev[n + i]
  BY <1>1
<1>3. TruthAt(ev, d, n + i)
  BY <1>2 DEF Truth
<1>4. CASE ev[n + i].press = (ev[n + i].key \in d)
  BY <1>2, <1>4 DEF TruthAt
<1>5. ASSUME NEW j \in n + i + 1..Len(ev), ev[j].key = ev[n + i].key,
             ev[j].press # ev[n + i].press
      PROVE  TruthAt(ev2, d, i)
  <2>1. j - n \in i + 1..Len(ev2) /\ j - n \in 1..Len(ev2) /\ n + (j - n) = j
    BY <1>1, <1>2
  <2>2. ev2[j - n] = ev[j]
    BY <2>1
  <2> QED BY <1>2, <1>5, <2>1, <2>2 DEF TruthAt
<1> QED BY <1>3, <1>4, <1>5 DEF TruthAt

LEMMA TruthTail ==
  ASSUME TypeOK, NEW d, Truth(events, d), reading > 0
  PROVE  Truth(Tail(events), d)
<1> DEFINE ev2 == Tail(events)
<1>1. /\ Len(ev2) = Len(events) - 1
      /\ \A i \in 1..Len(ev2) : ev2[i] = events[i + 1]
      /\ Len(events) \in Nat /\ reading \in Nat /\ reading <= Len(events)
      /\ events \in Seq(Transition)
  BY TailFacts, LenProperties DEF TypeOK
<1> HIDE DEF ev2
<1>2. \A i \in 1..Len(ev2) : i + 1 = 1 + i
  BY <1>1
<1>3. \A i \in 1..Len(ev2) : ev2[i] = events[1 + i]
  BY <1>1, <1>2
<1>4. 1 \in 0..Len(events)
  BY <1>1
<1>5. Truth(ev2, d)
  BY <1>1, <1>3, <1>4, TruthDrop
<1> QED BY <1>5 DEF ev2

LEMMA TruthDrain ==
  ASSUME TypeOK, NEW d, Truth(events, d), NEW n \in 1..Len(events)
  PROVE  Truth(Drain(n), d)
<1>1. events \in Seq(Transition) /\ n \in 0..Len(events)
  BY LenProperties DEF TypeOK
<1> QED BY <1>1, DrainFacts, TruthDrop

(***************************************************************************)
(* What is still to be handled of a key.                                   *)
(***************************************************************************)
In(ev, e) == \E i \in DOMAIN ev : ev[i] = e

LEMMA ComingIsIn ==
  \A k, p : Coming(k, p) <=> In(events, Event(k, p))
BY DEF Coming, In

LEMMA InAppend ==
  ASSUME NEW ev \in Seq(Transition), NEW e \in Transition, NEW x,
         In(ev, x) \/ e = x
  PROVE  In(Append(ev, e), x)
<1> DEFINE ev2 == Append(ev, e)
<1>1. /\ Len(ev) \in Nat /\ DOMAIN ev = 1..Len(ev)
      /\ ev2 \in Seq(Transition)
      /\ Len(ev2) = Len(ev) + 1
      /\ \A i \in 1..Len(ev) : ev2[i] = ev[i]
      /\ ev2[Len(ev) + 1] = e
  BY AppendProperties, LenProperties
<1> HIDE DEF ev2
<1>2. DOMAIN ev2 = 1..Len(ev) + 1
  BY <1>1, LenProperties
<1>3. Len(ev) + 1 \in DOMAIN ev2
  BY <1>1, <1>2
<1>4. \A i \in DOMAIN ev : i \in DOMAIN ev2 /\ ev2[i] = ev[i]
  BY <1>1, <1>2
<1>5. In(ev2, x)
  BY <1>1, <1>3, <1>4 DEF In
<1> QED BY <1>5 DEF ev2

LEMMA InTail ==
  ASSUME TypeOK, reading > 0, NEW x, In(events, x), Head(events) # x
  PROVE  In(Tail(events), x)
<1> DEFINE ev2 == Tail(events)
<1>1. events \in Seq(Transition) /\ Len(events) \in Nat
      /\ DOMAIN events = 1..Len(events)
  BY LenProperties DEF TypeOK
<1>2. /\ Head(events) = events[1]
      /\ ev2 \in Seq(Transition)
      /\ Len(ev2) = Len(events) - 1
      /\ \A i \in 1..Len(ev2) : ev2[i] = events[i + 1]
  BY TailFacts
<1> HIDE DEF ev2
<1>3. DOMAIN ev2 = 1..Len(events) - 1
  BY <1>2, LenProperties
<1>4. PICK i \in 1..Len(events) : events[i] = x
  BY <1>1 DEF In
<1>5. i # 1
  BY <1>2, <1>4
<1>6. i - 1 \in DOMAIN ev2 /\ i - 1 \in 1..Len(ev2) /\ (i - 1) + 1 = i
  BY <1>1, <1>2, <1>3, <1>4, <1>5
<1>7. ev2[i - 1] = x
  BY <1>2, <1>4, <1>6
<1>8. In(ev2, x)
  BY <1>6, <1>7 DEF In
<1> QED BY <1>8 DEF ev2

\* The key of the event about to be handled is as the event says, or news of
\* the contrary comes after it.
LEMMA HeadTold ==
  ASSUME TypeOK, Truth(events, down), reading > 0
  PROVE  Press = (Key \in down) \/ In(Tail(events), Event(Key, ~Press))
<1> DEFINE ev2 == Tail(events)
<1>1. events \in Seq(Transition) /\ Len(events) \in Nat /\ Len(events) >= 1
  BY LenProperties DEF TypeOK
<1>2. /\ Head(events) = events[1] /\ Head(events) \in Transition
      /\ ev2 \in Seq(Transition)
      /\ Len(ev2) = Len(events) - 1
      /\ \A i \in 1..Len(ev2) : ev2[i] = events[i + 1]
  BY TailFacts
<1> HIDE DEF ev2
<1>3. TruthAt(events, down, 1)
  BY <1>1 DEF Truth
<1>4. ASSUME NEW j \in 2..Len(events), events[j].key = events[1].key,
             events[j].press # events[1].press
      PROVE  In(ev2, Event(Key, ~Press))
  <2>1. events[j] \in Transition /\ events[1] \in Transition
    BY <1>1, ElementOfSeq
  <2>2. events[j] = Event(Key, ~Press)
    BY <1>2, <1>4, <2>1 DEF Transition, Event, Key, Press
  <2>3. j - 1 \in 1..Len(ev2) /\ (j - 1) + 1 = j
    BY <1>1, <1>2
  <2>4. ev2[j - 1] = Event(Key, ~Press)
    BY <1>2, <2>2, <2>3
  <2>5. DOMAIN ev2 = 1..Len(ev2)
    BY <1>2, LenProperties
  <2> QED BY <2>3, <2>4, <2>5 DEF In
<1>5. 1 + 1 = 2
  OBVIOUS
<1> QED BY <1>2, <1>3, <1>4, <1>5 DEF TruthAt, Key, Press, ev2
-----------------------------------------------------------------------------
(***************************************************************************)
(* While the descriptor is open and the kernel loses nothing, the queue    *)
(* tells the truth; and only a grabbed keyboard has events to handle.      *)
(***************************************************************************)
NoOverflow == "overflow" \notin Environment

OpenInv ==
  /\ grabbed => Open
  /\ Open /\ reading > 0 => grabbed
  /\ Open => Truth(events, down)

LEMMA UserQueues ==
  ASSUME NoOverflow, TypeOK, NEW k \in Keyboard, KeyDown(k) \/ KeyUp(k), Open
  PROVE  /\ events' = Append(events, Event(k, k \in down'))
         /\ down \ {k} = down' \ {k}
         /\ Event(k, k \in down') \in Transition
<1>1. Unread < Capacity
  BY DEF NoOverflow, KeyDown, KeyUp, MayQueue
<1>2. CASE KeyDown(k)
  <2>1. k \in down' /\ events' = Append(events, Event(k, TRUE))
    BY <1>1, <1>2 DEF KeyDown, Queue
  <2> QED BY <1>2, <2>1 DEF KeyDown, Event, Transition
<1>3. CASE KeyUp(k)
  <2>1. k \notin down' /\ events' = Append(events, Event(k, FALSE))
    BY <1>1, <1>3 DEF KeyUp, Queue
  <2>2. (k \in down') = FALSE
    BY <2>1
  <2> QED BY <1>3, <2>1, <2>2 DEF KeyUp, Event, Transition
<1> QED BY <1>2, <1>3

LEMMA GrabQueue ==
  ASSUME NEW ev \in Seq(Transition), Grab(ev), Truth(ev, down)
  PROVE  /\ Truth(events', down')
         /\ \A x : In(ev, x) => In(events', x)
         /\ \A k \in down' : In(events', Event(k, TRUE))
         /\ modifiers' = down' \cap Mods
         /\ down = {} /\ grabbed' = TRUE /\ waiting' = FALSE
<1>1. PICK late \in Late :
        /\ down' = late
        /\ modifiers' = late \cap Mods
        /\ \/ late = {} /\ events' = ev
           \/ \E k \in late : events' = Append(ev, Event(k, TRUE))
  BY DEF Grab, SyncModifiers
<1>2. down = {} /\ grabbed' = TRUE /\ waiting' = FALSE
  BY DEF Grab
<1>3. CASE late = {} /\ events' = ev
  BY <1>1, <1>2, <1>3
<1>4. ASSUME NEW k \in late, events' = Append(ev, Event(k, TRUE))
      PROVE  /\ Truth(events', down')
             /\ \A x : In(ev, x) => In(events', x)
             /\ \A y \in down' : In(events', Event(y, TRUE))
  <2>1. late = {k} /\ k \in Keyboard
    BY <1>4 DEF Late
  <2>2. Event(k, TRUE) \in Transition
    BY <2>1 DEF Event, Transition
  <2>3. Truth(Append(ev, Event(k, TRUE)), {k})
    <3>1. {} \ {k} = {k} \ {k} /\ TRUE = (k \in {k})
      OBVIOUS
    <3> QED BY <1>2, <2>1, <3>1, TruthAppend
  <2> QED
    BY <1>1, <1>4, <2>1, <2>2, <2>3, InAppend
<1> QED BY <1>1, <1>2, <1>3, <1>4

LEMMA OpenInductive ==
  ASSUME NoOverflow, TypeOK, OpenInv, [Next]_vars
  PROVE  OpenInv'
<1>1. events \in Seq(Transition) /\ reading \in Nat
  BY DEF TypeOK
<1>2. ASSUME NEW k \in Keyboard, KeyDown(k) \/ KeyUp(k)
      PROVE  OpenInv'
  <2>1. UNCHANGED <<reading, grabbed, foreground, running>>
    BY <1>2 DEF KeyDown, KeyUp, session, rest
  <2>2. ASSUME Open PROVE Truth(events', down')
    <3> DEFINE p == k \in down'
    <3>1. /\ events' = Append(events, Event(k, p)) /\ p \in BOOLEAN
          /\ down \ {k} = down' \ {k}
      BY <1>2, <2>2, UserQueues
    <3>2. Truth(events, down)
      BY <2>2 DEF OpenInv
    <3> HIDE DEF p
    <3>3. p = (k \in down')
      BY DEF p
    <3> QED BY <1>1, <3>1, <3>2, <3>3, TruthAppend
  <2> QED BY <2>1, <2>2 DEF OpenInv, Open
<1>3. CASE ReadWaiting
  <2>1. PICK n \in 1..Len(events) :
          \/ Grab(Drain(n))
          \/ /\ events' = Drain(n)
             /\ UNCHANGED <<down, console, breath, grabbed, waiting, modifiers>>
    BY <1>3 DEF ReadWaiting
  <2>2. /\ Open /\ reading = 0
        /\ UNCHANGED <<reading, foreground, running>>
    BY <1>3 DEF ReadWaiting, Idle, rest
  <2>3. Drain(n) \in Seq(Transition) /\ Truth(Drain(n), down)
    BY <2>2, DrainFacts, TruthDrain DEF OpenInv
  <2>4. CASE Grab(Drain(n))
    BY <2>2, <2>3, <2>4, GrabQueue DEF OpenInv, Open
  <2>5. CASE /\ events' = Drain(n)
             /\ UNCHANGED <<down, console, breath, grabbed, waiting, modifiers>>
    BY <2>2, <2>3, <2>5 DEF OpenInv, Open
  <2> QED BY <2>1, <2>4, <2>5
<1>4. CASE Handle /\ events' = Tail(events) /\ UNCHANGED <<grabbed, foreground>>
  <2>1. /\ reading > 0 /\ reading' = reading - 1 /\ UNCHANGED down
        /\ running' \in {running, "stopping"}
    BY <1>4 DEF Handle, HandleModifier, HandleSwitch, HandleQuit,
       HandlePairing, HandleConsumer, HandlePlain, Handling
  <2>2. Truth(events, down) => Truth(events', down')
    BY <1>4, <2>1, TruthTail
  <2>3. Open' => Open
    <3>1. CASE HandleQuit
      <4>1. grabbed \/ ~Open
        BY <2>1 DEF OpenInv
      <4>2. Open' => foreground
        BY <1>4 DEF Open
      <4>3. running # "stopped"
        BY <3>1 DEF HandleQuit, Handling
      <4> QED BY <4>2, <4>3 DEF Open
    <3>2. CASE running' = running
      BY <1>4, <3>2 DEF Open
    <3> QED BY <1>4, <3>1, <3>2 DEF Handle, HandleModifier, HandleSwitch,
       HandlePairing, HandleConsumer, HandlePlain
  <2> QED BY <1>1, <1>4, <2>1, <2>2, <2>3 DEF OpenInv, Open
<1>5. ASSUME NEW ev \in Seq(Transition), LeaveForeground(ev)
      PROVE  OpenInv'
  BY <1>5 DEF LeaveForeground, OpenInv, Open
<1>6. ASSUME NEW ev \in Seq(Transition), TakeKeyboards(ev), Truth(ev, down)
      PROVE  Truth(events', down')
  BY <1>6, GrabQueue DEF TakeKeyboards, Wait
<1>7. CASE HandleSwitch
  <2>1. CASE Next1 /\ UNCHANGED <<session, link>>
    BY <1>4, <1>7, <2>1 DEF Handle, Next1, session
  <2>2. CASE LeaveForeground(SubSeq(events, 2, reading))
    BY <1>5, <1>7, <2>2, UnhandledFacts DEF HandleSwitch, Handling
  <2> QED BY <1>7, <2>1, <2>2 DEF HandleSwitch
<1>8. CASE \/ HandleModifier \/ HandleQuit \/ HandlePairing
           \/ HandleConsumer \/ HandlePlain
  BY <1>4, <1>8 DEF Handle, Next1, HandleModifier, HandleQuit, HandlePairing,
     HandleConsumer, HandlePlain, session
<1>9. CASE ReadGrabbed
  BY <1>9 DEF ReadGrabbed, OpenInv, Open, session, rest
<1>10. CASE Poll
  <2>1. <<>> \in Seq(Transition) /\ Truth(<<>>, down)
    BY EmptySeq, TruthEmpty
  <2>2. reading = 0 /\ running # "stopped" /\ UNCHANGED running
    BY <1>10 DEF Poll, Idle
  <2>3. CASE UNCHANGED <<device, session, link>>
    BY <2>2, <2>3 DEF OpenInv, Open, device, session
  <2>4. CASE LeaveForeground(<<>>)
    BY <1>5, <2>1, <2>4
  <2>5. CASE /\ foreground' = TRUE
             /\ TakeKeyboards(<<>>)
             /\ UNCHANGED <<reading, pressed, link>>
    <3>1. Truth(events', down')
      BY <1>6, <2>1, <2>5
    <3> QED BY <2>2, <2>5, <3>1 DEF OpenInv, Open
  <2> QED BY <1>10, <2>3, <2>4, <2>5 DEF Poll
<1>11. CASE Settle
  <2>1. Open /\ reading = 0 /\ UNCHANGED <<reading, foreground, running>>
    BY <1>11 DEF Settle, Idle, Open, rest
  <2> QED BY <1>1, <1>6, <1>11, <2>1 DEF Settle, OpenInv, Open
<1>12. CASE Signal
  BY <1>12 DEF Signal, Idle, OpenInv, Open, device, session
<1>13. CASE Teardown
  BY <1>13 DEF Teardown, OpenInv, Open
<1>14. CASE UNCHANGED <<events, down, reading, grabbed, foreground, running>>
  BY <1>14 DEF OpenInv, Open
<1>15. CASE \/ ConsoleMoves \/ LinkUp \/ LinkDown \/ PairingStart
            \/ PairingEnd \/ UNCHANGED vars
  BY <1>14, <1>15 DEF ConsoleMoves, LinkUp, LinkDown, PairingStart, PairingEnd,
     vars, device, session, rest
<1> QED
  BY <1>2, <1>3, <1>7, <1>8, <1>9, <1>10, <1>11, <1>12, <1>13, <1>15
     DEF Next, User, Loop, Handle

LEMMA OpenInvariant ==
  ASSUME NoOverflow
  PROVE  Spec => []OpenInv
<1>1. Init => OpenInv
  BY EmptySeq DEF Init, OpenInv, Truth, Open
<1>2. TypeOK /\ OpenInv /\ [Next]_vars => OpenInv'
  BY OpenInductive
<1> QED
  BY <1>1, <1>2, TypeCorrect, PTL DEF Spec

-----------------------------------------------------------------------------
(***************************************************************************)
(* Modifiers: btkey believes none down that is not.                        *)
(***************************************************************************)

\* What is down, or has its release to come, stays so while events are added.
LEMMA HeldByUser ==
  ASSUME NoOverflow, TypeOK, NEW k \in Keyboard, KeyDown(k) \/ KeyUp(k), Open,
         NEW m, Held(m)
  PROVE  Held(m)'
<1>1. /\ events' = Append(events, Event(k, k \in down'))
      /\ down \ {k} = down' \ {k}
      /\ Event(k, k \in down') \in Transition
      /\ events \in Seq(Transition)
  BY UserQueues DEF TypeOK
<1>2. CASE In(events, Event(m, FALSE))
  <2>1. In(events', Event(m, FALSE))
    BY <1>1, <1>2, InAppend
  <2> QED BY <2>1 DEF Held, Coming, In
<1>3. CASE m \in down
  <2>1. CASE m \in down'
    BY <2>1 DEF Held
  <2>2. CASE m \notin down'
    <3>1. m = k /\ (k \in down') = FALSE
      BY <1>1, <1>3, <2>2
    <3>2. In(events', Event(m, FALSE))
      BY <1>1, <3>1, InAppend
    <3> QED BY <3>2 DEF Held, Coming, In
  <2> QED BY <2>1, <2>2
<1> QED BY <1>2, <1>3 DEF Held, Coming, In

\* Handling an event leaves held what is, but for the key it releases.
LEMMA HeldByHandle ==
  ASSUME TypeOK, reading > 0, events' = Tail(events), down' = down,
         NEW m, Held(m), Head(events) # Event(m, FALSE)
  PROVE  Held(m)'
<1>1. CASE In(events, Event(m, FALSE))
  BY <1>1, InTail DEF Held, Coming, In
<1> QED BY <1>1 DEF Held, Coming, In

LEMMA PhantomHandle ==
  ASSUME TypeOK, OpenInv, NoPhantomModifier, Handle, grabbed',
         events' = Tail(events)
  PROVE  NoPhantomModifier'
<1>1. /\ reading > 0 /\ down' = down /\ Handling
  BY DEF Handle, HandleModifier, HandleSwitch, HandleQuit,
     HandlePairing, HandleConsumer, HandlePlain, Handling
<1>2. CASE grabbed
  <2>1. Head(events) \in Transition
    BY <1>1, TailFacts
  <2>2. Head(events) = Event(Key, Press) /\ Press \in BOOLEAN
    BY <2>1 DEF Transition, Event, Key, Press
  <2>3. \A m \in modifiers : Held(m)
    BY <1>2 DEF NoPhantomModifier
  <2>4. ASSUME NEW m \in modifiers, m # Key \/ Press
        PROVE  Held(m)'
    <3>1. Head(events) # Event(m, FALSE)
      BY <2>2, <2>4 DEF Event
    <3> QED BY <1>1, <2>3, <3>1, HeldByHandle
  <2>5. Press => Key \in down' \/ In(events', Event(Key, FALSE))
    <3>1. Truth(events, down)
      BY <1>2 DEF OpenInv
    <3>2. Press = (Key \in down) \/ In(Tail(events), Event(Key, ~Press))
      BY <1>1, <3>1, HeadTold
    <3>3. ASSUME Press PROVE Key \in down \/ In(events', Event(Key, FALSE))
      BY <2>2, <3>2, <3>3
    <3> QED BY <1>1, <3>3
  <2>6. CASE HandleModifier
    <3>1. modifiers' = ModifiersNow \/ modifiers' = {}
      BY <2>6 DEF HandleModifier, SendKeyboard, WriteFails, LinkLost
    <3>2. ASSUME NEW m \in ModifiersNow PROVE Held(m)'
      <4>1. \/ m \in modifiers /\ (m # Key \/ Press)
            \/ m = Key /\ Press
        BY DEF ModifiersNow
      <4>2. ASSUME m = Key, Press PROVE Held(m)'
        <5>1. m \in down' \/ In(events', Event(m, FALSE))
          BY <2>5, <4>2
        <5> QED BY <5>1 DEF Held, Coming, In
      <4> QED BY <2>4, <4>1, <4>2
    <3> QED BY <3>1, <3>2 DEF NoPhantomModifier
  <2>7. CASE ~HandleModifier
    <3>1. Key \notin Mods
      BY <2>7, KeyAssumption DEF Handle, HandleSwitch, HandleQuit, HandlePairing,
         HandleConsumer, HandlePlain, Forwarded, Chord
    <3>2. modifiers' = modifiers \/ modifiers' = {}
      BY <2>7 DEF Handle, HandleSwitch, HandleQuit, HandlePairing,
         HandleConsumer, HandlePlain, LeaveForeground, ReleaseAll,
         SendKeyboard, SendConsumer, WriteFails, LinkLost, session
    <3>3. \A m \in modifiers : m # Key
      BY <3>1 DEF TypeOK
    <3> QED BY <2>4, <3>2, <3>3 DEF NoPhantomModifier
  <2> QED BY <2>6, <2>7
<1>3. CASE ~grabbed
  BY <1>3 DEF Handle, HandleModifier, HandleSwitch, HandleQuit, HandlePairing,
     HandleConsumer, HandlePlain, LeaveForeground, session
<1> QED BY <1>2, <1>3

LEMMA PhantomInductive ==
  ASSUME NoOverflow, TypeOK, OpenInv, NoPhantomModifier, [Next]_vars
  PROVE  NoPhantomModifier'
<1>1. ASSUME NEW k \in Keyboard, KeyDown(k) \/ KeyUp(k), grabbed
      PROVE  NoPhantomModifier'
  <2>1. UNCHANGED <<grabbed, modifiers>> /\ Open
    BY <1>1 DEF KeyDown, KeyUp, session, OpenInv
  <2> QED BY <1>1, <2>1, HeldByUser DEF NoPhantomModifier
<1>2. ASSUME NEW ev \in Seq(Transition), Grab(ev)
      PROVE  NoPhantomModifier'
  BY <1>2 DEF Grab, SyncModifiers, NoPhantomModifier, Held
<1>3. CASE Handle
  <2>1. CASE events' = Tail(events)
    BY <1>3, <2>1, PhantomHandle DEF NoPhantomModifier
  <2>2. CASE HandleSwitch /\ LeaveForeground(SubSeq(events, 2, reading))
    BY <2>2 DEF LeaveForeground, NoPhantomModifier
  <2> QED
    BY <1>3, <2>1, <2>2 DEF Handle, Next1, HandleModifier, HandleSwitch,
       HandleQuit, HandlePairing, HandleConsumer, HandlePlain
<1>4. CASE ReadWaiting
  <2>1. ~grabbed /\ \E n \in 1..Len(events) :
          \/ Grab(Drain(n))
          \/ UNCHANGED grabbed
    BY <1>4 DEF ReadWaiting
  <2> QED BY <1>2, <2>1, DrainFacts DEF NoPhantomModifier
<1>5. CASE Poll
  <2>1. CASE UNCHANGED <<device, session, link>>
    BY <2>1 DEF device, session, NoPhantomModifier, Held, Coming
  <2>2. CASE LeaveForeground(<<>>)
    BY <2>2 DEF LeaveForeground, NoPhantomModifier
  <2>3. CASE ~foreground /\ Wait(<<>>)
    BY <2>3 DEF Wait, NoPhantomModifier, OpenInv, Open
  <2>4. CASE Grab(<<>>)
    BY <1>2, <2>4, EmptySeq
  <2> QED BY <1>5, <2>1, <2>2, <2>3, <2>4 DEF Poll, TakeKeyboards
<1>6. CASE Settle
  <2>1. CASE Wait(events)
    BY <2>1 DEF Wait, NoPhantomModifier, Held, Coming
  <2>2. CASE Grab(events)
    BY <1>2, <2>2 DEF TypeOK
  <2> QED BY <1>6, <2>1, <2>2 DEF Settle, TakeKeyboards
<1>7. CASE UNCHANGED <<events, down, grabbed, modifiers>>
  BY <1>7 DEF NoPhantomModifier, Held, Coming
<1>8. CASE LinkDown \/ Teardown
  BY <1>8 DEF LinkDown, Teardown, LinkLost, NoPhantomModifier
<1>9. CASE \/ ConsoleMoves \/ ReadGrabbed \/ LinkUp \/ PairingStart
           \/ PairingEnd \/ Signal \/ UNCHANGED vars
  BY <1>7, <1>9 DEF ConsoleMoves, ReadGrabbed, LinkUp, PairingStart, PairingEnd,
     Signal, vars, device, session
<1>10. ASSUME NEW k \in Keyboard, KeyDown(k) \/ KeyUp(k), ~grabbed
       PROVE  NoPhantomModifier'
  BY <1>10 DEF KeyDown, KeyUp, session, NoPhantomModifier
<1> QED
  BY <1>1, <1>3, <1>4, <1>5, <1>6, <1>8, <1>9, <1>10 DEF Next, User, Loop

\* While it holds the keyboard, btkey believes no modifier down that is not:
\* no bare key is ever taken for a chord.  The kernel's queue must not
\* overflow, since an event lost is a release never heard of.
THEOREM NoPhantom ==
  ASSUME NoOverflow
  PROVE  Spec => []NoPhantomModifier
<1>1. Init => NoPhantomModifier
  BY DEF Init, NoPhantomModifier
<1>2. TypeOK /\ OpenInv /\ NoPhantomModifier /\ [Next]_vars
        => NoPhantomModifier'
  BY PhantomInductive
<1> QED
  BY <1>1, <1>2, TypeCorrect, OpenInvariant, PTL DEF Spec

-----------------------------------------------------------------------------
(***************************************************************************)
(* And knows every one that is: a modifier physically down is believed     *)
(* down, or its press is still to be handled.  A report that the link      *)
(* refuses is followed by release_all, which forgets them.                 *)
(***************************************************************************)
NoLinkLoss == "linkloss" \notin Environment

\* Handling an event keeps to come what is, but for the event itself.
LEMMA ComingByHandle ==
  ASSUME TypeOK, reading > 0, events' = Tail(events),
         NEW k, NEW p, Coming(k, p), Head(events) # Event(k, p)
  PROVE  Coming(k, p)'
<1>1. In(events, Event(k, p))
  BY DEF Coming, In
<1>2. In(events', Event(k, p))
  BY <1>1, InTail
<1> QED BY <1>2 DEF Coming, In

LEMMA KnownHandle ==
  ASSUME NoLinkLoss, TypeOK, OpenInv, EveryModifierKnown, Handle, grabbed',
         events' = Tail(events)
  PROVE  EveryModifierKnown'
<1>1. /\ reading > 0 /\ down' = down
  BY DEF Handle, HandleModifier, HandleSwitch, HandleQuit,
     HandlePairing, HandleConsumer, HandlePlain, Handling
<1>2. grabbed
  BY DEF Handle, HandleModifier, HandleSwitch, HandleQuit, HandlePairing,
     HandleConsumer, HandlePlain, LeaveForeground, session
<1>3. Head(events) = Event(Key, Press) /\ Press \in BOOLEAN
  <2>1. Head(events) \in Transition
    BY <1>1, TailFacts
  <2> QED BY <2>1 DEF Transition, Event, Key, Press
<1>4. \A k \in down \cap Mods : k \in modifiers \/ Coming(k, TRUE)
  BY <1>2 DEF EveryModifierKnown
<1>5. ~WriteFails
  BY DEF NoLinkLoss, WriteFails
<1>6. ASSUME NEW k \in down \cap Mods, k # Key
      PROVE  k \in modifiers \/ Coming(k, TRUE)'
  <2>1. Head(events) # Event(k, TRUE)
    BY <1>3, <1>6 DEF Event
  <2> QED BY <1>1, <1>4, <2>1, ComingByHandle
<1>7. CASE HandleModifier
  <2>1. modifiers' = ModifiersNow
    BY <1>5, <1>7 DEF HandleModifier, SendKeyboard
  <2>2. ASSUME NEW k \in down \cap Mods, k # Key
        PROVE  k \in modifiers' \/ Coming(k, TRUE)'
    BY <1>6, <2>1, <2>2 DEF ModifiersNow
  <2>3. ASSUME NEW k \in down \cap Mods, k = Key
        PROVE  k \in modifiers' \/ Coming(k, TRUE)'
    <3>1. CASE Press
      BY <2>1, <2>3, <3>1 DEF ModifiersNow
    <3>2. CASE ~Press
      <4>1. Press = (Key \in down) \/ In(Tail(events), Event(Key, ~Press))
        BY <1>1, <1>2, HeadTold DEF OpenInv
      <4>2. (~Press) = TRUE
        BY <3>2
      <4>3. In(events', Event(k, TRUE))
        BY <2>3, <3>2, <4>1, <4>2
      <4> QED BY <4>3 DEF Coming, In
    <3> QED BY <3>1, <3>2
  <2> QED BY <1>1, <2>2, <2>3 DEF EveryModifierKnown
<1>8. CASE ~HandleModifier
  <2>1. Key \notin Mods
    BY <1>8, KeyAssumption DEF Handle, HandleSwitch, HandleQuit, HandlePairing,
       HandleConsumer, HandlePlain, Forwarded, Chord
  <2>2. ~LeaveForeground(SubSeq(events, 2, reading))
    BY DEF LeaveForeground
  <2>3. modifiers' = modifiers
    BY <1>5, <1>8, <2>2 DEF Handle, HandleSwitch, HandleQuit, HandlePairing,
       HandleConsumer, HandlePlain, SendKeyboard, SendConsumer, session
  <2> QED BY <1>1, <1>6, <2>1, <2>3 DEF EveryModifierKnown
<1> QED BY <1>7, <1>8

LEMMA KnownInductive ==
  ASSUME NoOverflow, NoLinkLoss, TypeOK, OpenInv, EveryModifierKnown,
         [Next]_vars
  PROVE  EveryModifierKnown'
<1>1. ASSUME NEW k \in Keyboard, KeyDown(k) \/ KeyUp(k)
      PROVE  EveryModifierKnown'
  <2>1. UNCHANGED <<grabbed, modifiers>>
    BY <1>1 DEF KeyDown, KeyUp, session
  <2>2. SUFFICES ASSUME grabbed, NEW m \in down' \cap Mods
                 PROVE  m \in modifiers \/ Coming(m, TRUE)'
    BY <2>1 DEF EveryModifierKnown
  <2>3. /\ events' = Append(events, Event(k, k \in down'))
        /\ down \ {k} = down' \ {k}
        /\ Event(k, k \in down') \in Transition
        /\ events \in Seq(Transition)
    BY <1>1, <2>2, UserQueues DEF OpenInv, TypeOK
  <2>4. CASE m = k
    <3>1. (k \in down') = TRUE
      BY <2>2, <2>4
    <3>2. In(events', Event(m, TRUE))
      BY <2>3, <2>4, <3>1, InAppend
    <3> QED BY <3>2 DEF Coming, In
  <2>5. CASE m # k
    <3>1. m \in down \cap Mods
      BY <2>2, <2>3, <2>5
    <3>2. m \in modifiers \/ Coming(m, TRUE)
      BY <2>2, <3>1 DEF EveryModifierKnown
    <3>3. ASSUME Coming(m, TRUE) PROVE Coming(m, TRUE)'
      <4>1. In(events', Event(m, TRUE))
        BY <2>3, <3>3, ComingIsIn, InAppend
      <4> QED BY <4>1 DEF Coming, In
    <3> QED BY <3>2, <3>3
  <2> QED BY <2>4, <2>5
<1>2. ASSUME NEW ev \in Seq(Transition), Grab(ev)
      PROVE  EveryModifierKnown'
  BY <1>2 DEF Grab, SyncModifiers, EveryModifierKnown
<1>3. CASE Handle
  <2>1. CASE events' = Tail(events)
    BY <1>3, <2>1, KnownHandle DEF EveryModifierKnown
  <2>2. CASE HandleSwitch /\ LeaveForeground(SubSeq(events, 2, reading))
    BY <2>2 DEF LeaveForeground, EveryModifierKnown
  <2> QED
    BY <1>3, <2>1, <2>2 DEF Handle, Next1, HandleModifier, HandleSwitch,
       HandleQuit, HandlePairing, HandleConsumer, HandlePlain
<1>4. CASE ReadWaiting
  <2>1. ~grabbed /\ \E n \in 1..Len(events) :
          \/ Grab(Drain(n))
          \/ UNCHANGED grabbed
    BY <1>4 DEF ReadWaiting
  <2> QED BY <1>2, <2>1, DrainFacts DEF EveryModifierKnown
<1>5. CASE Poll
  <2>1. CASE UNCHANGED <<device, session, link>>
    BY <2>1 DEF device, session, EveryModifierKnown, Coming
  <2>2. CASE LeaveForeground(<<>>)
    BY <2>2 DEF LeaveForeground, EveryModifierKnown
  <2>3. CASE ~foreground /\ Wait(<<>>)
    BY <2>3 DEF Wait, EveryModifierKnown, OpenInv, Open
  <2>4. CASE Grab(<<>>)
    BY <1>2, <2>4, EmptySeq
  <2> QED BY <1>5, <2>1, <2>2, <2>3, <2>4 DEF Poll, TakeKeyboards
<1>6. CASE Settle
  <2>1. CASE Wait(events)
    BY <2>1 DEF Wait, EveryModifierKnown, Coming
  <2>2. CASE Grab(events)
    BY <1>2, <2>2 DEF TypeOK
  <2> QED BY <1>6, <2>1, <2>2 DEF Settle, TakeKeyboards
<1>7. CASE UNCHANGED <<events, down, grabbed, modifiers>>
  BY <1>7 DEF EveryModifierKnown, Coming
<1>8. CASE LinkDown \/ Teardown
  BY <1>8 DEF NoLinkLoss, LinkDown, LinkLost, Teardown, EveryModifierKnown,
     Coming, device
<1>9. CASE \/ ConsoleMoves \/ ReadGrabbed \/ LinkUp \/ PairingStart
           \/ PairingEnd \/ Signal \/ UNCHANGED vars
  BY <1>7, <1>9 DEF ConsoleMoves, ReadGrabbed, LinkUp, PairingStart, PairingEnd,
     Signal, vars, device, session
<1> QED
  BY <1>1, <1>3, <1>4, <1>5, <1>6, <1>8, <1>9 DEF Next, User, Loop

\* While it holds the keyboard and its link holds, btkey knows every modifier
\* that is down, so Alt+Fn always switches console, during a pairing too.  A
\* link lost makes release_all forget a modifier still held, and the kernel's
\* queue must lose nothing.
THEOREM ModifiersKnown ==
  ASSUME NoOverflow, NoLinkLoss
  PROVE  Spec => []EveryModifierKnown
<1>1. Init => EveryModifierKnown
  BY DEF Init, EveryModifierKnown
<1>2. TypeOK /\ OpenInv /\ EveryModifierKnown /\ [Next]_vars
        => EveryModifierKnown'
  BY KnownInductive
<1> QED
  BY <1>1, <1>2, TypeCorrect, OpenInvariant, PTL DEF Spec

-----------------------------------------------------------------------------
(***************************************************************************)
(* The background: leaving the foreground lets everything go, and what is  *)
(* told while the keyboard is not held is the rest of a read.              *)
(***************************************************************************)
LEMMA LeavingReleases ==
  ASSUME ReportInv, NEW ev, LeaveForeground(ev)
  PROVE  AllReleased
BY DEF LeaveForeground, ReleaseAll, Released, WriteFails, LinkLost, ReportInv,
   AllReleased

\* The console lost, by a chord or by anybody else, is the phone let go of, in
\* the same step and whatever the size of the read it happens in.
THEOREM LeavingLetsGo ==
  Spec => [][foreground /\ ~foreground' => phone' = Nothing]_vars
<1>1. Init => ReportInv
  BY DEF Init, ReportInv, ReportIsCurrent, Nothing
<1>2. TypeOK /\ ReportInv /\ [Next]_vars => ReportInv'
  BY ReportInvInductive
<1>3. TypeOK /\ ReportInv /\ [Next]_vars
        => [foreground /\ ~foreground' => phone' = Nothing]_vars
  <2> SUFFICES ASSUME TypeOK, ReportInv, Next, foreground, ~foreground'
               PROVE  phone' = Nothing
    OBVIOUS
  <2>1. HandleSwitch \/ Poll
    BY DEF Next, User, Loop, Handle, ConsoleMoves, KeyDown, KeyUp, ReadWaiting,
       ReadGrabbed, HandleModifier, HandleQuit, HandlePairing, HandleConsumer,
       HandlePlain, Settle, LinkUp, LinkDown, PairingStart, PairingEnd, Signal,
       Teardown, session
  <2>2. CASE HandleSwitch
    BY <2>2, LeavingReleases DEF HandleSwitch, session, AllReleased
  <2>3. CASE Poll
    BY <2>3, LeavingReleases DEF Poll, session, AllReleased
  <2> QED BY <2>1, <2>2, <2>3
<1> QED
  BY <1>1, <1>2, <1>3, TypeCorrect, PTL DEF Spec

\* The history is of Forwarding's behaviours.
LEMMA HistoryOnly == StraySpec => Spec
<1>1. [StrayNext]_strayVars => [Next]_vars
  BY DEF StrayNext, strayVars
<1> QED
  BY <1>1, PTL DEF StraySpec, Spec

\* How it goes on.
StrayStep ==
  stray' = IF AllReleased THEN {}
           ELSE (stray \ Recovered) \cup Stranded \cup Renamed

\* All that the phone and btkey believe down is strayed.
Strayed ==
  /\ pressed \subseteq stray /\ phone.mods \subseteq stray
  /\ phone.usage # NoUsage => \E k \in stray : phone.usage = CodeOf(k)

LEMMA StrayedReset ==
  ASSUME AllReleased
  PROVE  Strayed' /\ \A s : modifiers' \subseteq s
BY DEF AllReleased, Strayed, Nothing

LEMMA StrayedKept ==
  ASSUME StrayStep, Strayed, UNCHANGED <<pressed, phone, topRow>>, ~Handled
  PROVE  Strayed'
<1>1. CASE AllReleased
  BY <1>1, StrayedReset
<1>2. CASE ~AllReleased
  <2>1. Recovered = {}
    BY DEF Recovered
  <2>2. stray \subseteq stray'
    BY <1>2, <2>1 DEF StrayStep
  <2> QED BY <2>2 DEF Strayed, CodeOf
<1> QED BY <1>1, <1>2

\* In the background the rest of a read may be told, and nothing else.
QuietInv ==
  /\ stray \subseteq Codes
  /\ grabbed => Open
  /\ ~grabbed => Strayed
  /\ reading > 0 /\ ~grabbed => ~foreground /\ modifiers \subseteq stray

\* An event is handled by the handlers alone.
LEMMA HandledIs ==
  ASSUME TypeOK, [Next]_vars
  PROVE  /\ Handle => Handled /\ reading > 0 /\ reading' = reading - 1
         /\ Handled => Handle
<1>1. reading \in Nat
  BY DEF TypeOK
<1>2. ASSUME Handle
      PROVE  reading > 0 /\ reading' = reading - 1
  BY <1>2 DEF Handle, HandleModifier, HandleSwitch, HandleQuit, HandlePairing,
     HandleConsumer, HandlePlain, Handling
<1>3. CASE ReadGrabbed
  <2>1. reading = 0 /\ \E n \in 1..Len(events) : reading' = n
    BY <1>3 DEF ReadGrabbed, Idle
  <2>2. Len(events) \in Nat
    BY LenProperties DEF TypeOK
  <2>3. ~Handled
    BY <2>1, <2>2 DEF Handled
  <2> QED BY <1>1, <1>2, <2>3 DEF Handled
<1>4. ASSUME reading' = reading
      PROVE  ~Handled
  BY <1>1, <1>4 DEF Handled
<1>5. ASSUME NEW k \in Keyboard, KeyDown(k) \/ KeyUp(k)
      PROVE  reading' = reading
  BY <1>5 DEF KeyDown, KeyUp
<1>6. CASE \/ ConsoleMoves \/ ReadWaiting \/ Poll \/ Settle \/ LinkUp \/ LinkDown
           \/ PairingStart \/ PairingEnd \/ Signal \/ Teardown \/ UNCHANGED vars
  <2>1. reading' = reading
    BY <1>6 DEF ConsoleMoves, ReadWaiting, Poll, Settle, LinkUp, LinkDown,
       PairingStart, PairingEnd, Signal, Teardown, vars, device
  <2> QED BY <1>1, <1>2, <1>4, <2>1 DEF Handled
<1> QED
  BY <1>1, <1>2, <1>3, <1>4, <1>5, <1>6 DEF Next, User, Loop, Handled

LEMMA KeyIs ==
  ASSUME TypeOK, reading > 0
  PROVE  Head(events) = Event(Key, Press) /\ Press \in BOOLEAN /\ Key \in Codes
<1>1. Head(events) \in Transition
  BY TailFacts
<1> QED BY <1>1, KeyAssumption DEF Transition, Event, Key, Press

LEMMA StrayType ==
  ASSUME TypeOK, [Next]_vars, stray \subseteq Codes, StrayStep
  PROVE  stray' \subseteq Codes
<1>1. Handled => Key \in Codes
  BY HandledIs, KeyIs
<1>2. Stranded \subseteq Codes
  BY <1>1 DEF Stranded
<1>3. Renamed \subseteq Codes
  BY DEF Renamed, Codes
<1> QED BY <1>2, <1>3 DEF StrayStep

\* What a step that handles an event makes of the history.
LEMMA StrayHandled ==
  ASSUME Handled, UNCHANGED topRow, StrayStep, ~AllReleased
  PROVE  stray' = (stray \ Recovered) \cup Stranded
BY DEF StrayStep, Renamed

\* The rest of a read, told in the background.
LEMMA QuietHandle ==
  ASSUME TypeOK, ReportInv, QuietInv, [Next]_vars, StrayStep, Handle, ~grabbed,
         ~AllReleased
  PROVE  Strayed' /\ modifiers' \subseteq stray'
<1>1. /\ reading > 0 /\ Handled /\ UNCHANGED topRow /\ ~foreground
      /\ modifiers \subseteq stray /\ Strayed
  BY HandledIs DEF QuietInv, Handle, HandleModifier, HandleSwitch, HandleQuit,
     HandlePairing, HandleConsumer, HandlePlain, Handling
<1>2. Key \in Codes /\ Press \in BOOLEAN
  BY <1>1, KeyIs
<1>3. stray' = (stray \ Recovered) \cup Stranded
  BY <1>1, StrayHandled
<1>4. /\ pressed \subseteq Plain \cup Fn /\ modifiers \subseteq Mods
      /\ phone.mods \subseteq Mods /\ phone.usage \in Media \cup {NoUsage}
      /\ NoUsage \notin Codes
  BY KeyAssumption DEF TypeOK, Report
<1>5. CASE HandleSwitch \/ HandleQuit
  <2>1. Chord /\ UNCHANGED <<modifiers, pressed, phone>>
    BY <1>1, <1>5 DEF HandleSwitch, HandleQuit, session, link
  <2>2. stray \subseteq stray'
    BY <1>3, <2>1 DEF Recovered
  <2> QED BY <1>1, <2>1, <2>2 DEF Strayed, CodeOf
<1>6. CASE HandlePairing \/ (HandleModifier /\ pairing)
  <2>1. pairing /\ UNCHANGED <<pressed, phone>>
    BY <1>6 DEF HandlePairing, HandleModifier, session, link
  <2>2. stray \subseteq stray'
    BY <1>3, <2>1 DEF Recovered
  <2>3. modifiers' \subseteq stray'
    <3>1. CASE HandlePairing
      BY <1>1, <2>2, <3>1 DEF HandlePairing, session
    <3>2. CASE HandleModifier
      <4>1. Press => Key \in Stranded
        BY <1>1, <3>2, KeyAssumption DEF HandleModifier, Stranded, Chord
      <4>2. modifiers' \subseteq modifiers \cup (IF Press THEN {Key} ELSE {})
        BY <2>1, <3>2 DEF HandleModifier, ModifiersNow
      <4> QED BY <1>1, <1>3, <2>2, <4>1, <4>2
    <3> QED BY <1>6, <3>1, <3>2
  <2> QED BY <1>1, <2>1, <2>2, <2>3 DEF Strayed, CodeOf
<1>7. ASSUME NEW p, NEW m, SendKeyboard(p, m), Key \in Plain \cup Fn \cup Mods,
             CodeOf(Key) = Key, p \subseteq stray', m \subseteq stray'
      PROVE  Strayed' /\ modifiers' \subseteq stray'
  <2>1. pressed' = p /\ modifiers' = m
    BY <1>7 DEF SendKeyboard, WriteFails, LinkLost, AllReleased
  <2>2. /\ phone'.usage = phone.usage /\ phone'.mods \in {m, {}}
    <3>1. CASE phone' = [phone EXCEPT !.keys = Usages(p), !.mods = m]
      BY <3>1 DEF TypeOK, Report
    <3>2. CASE WriteFails
      BY <1>7, <3>2 DEF WriteFails, LinkLost, AllReleased
    <3>3. CASE ~connected /\ UNCHANGED link
      BY <3>3 DEF ReportInv, Nothing, link
    <3> QED BY <1>7, <3>1, <3>2, <3>3 DEF SendKeyboard
  <2>3. ASSUME phone.usage # NoUsage
        PROVE  \E k \in stray' : phone.usage = CodeOf(k)
    <3>1. PICK k \in stray : phone.usage = CodeOf(k)
      BY <1>1, <2>3 DEF Strayed
    <3>2. k # Key
      BY <1>4, <1>7, <2>3, <3>1, KeyAssumption
    <3>3. k \in stray'
      BY <1>3, <3>2 DEF Recovered
    <3> QED BY <3>1, <3>3
  <2> QED BY <1>1, <1>7, <2>1, <2>2, <2>3 DEF Strayed, CodeOf
<1>8. CASE HandleModifier /\ ~pairing
  <2>1. Key \in Mods /\ SendKeyboard(pressed, ModifiersNow)
    BY <1>8 DEF HandleModifier
  <2>2. ~Chord /\ CodeOf(Key) = Key
    BY <2>1, KeyAssumption DEF Chord, CodeOf
  <2>3. Stranded = IF Press THEN {Key} ELSE {}
    BY <1>1, <1>8, <2>2 DEF Stranded
  <2>4. Recovered \subseteq {Key}
    BY DEF Recovered
  <2>5. pressed \subseteq stray'
    BY <1>1, <1>3, <1>4, <2>1, <2>4, KeyAssumption DEF Strayed
  <2>6. ModifiersNow \subseteq stray'
    BY <1>1, <1>3, <2>3, <2>4 DEF ModifiersNow
  <2> QED BY <1>7, <2>1, <2>2, <2>5, <2>6
<1>9. CASE HandlePlain
  <2>1. Key \notin Mods /\ ~Chord /\ ~pairing /\ CodeOf(Key) = Code /\ Code \in Plain \cup Fn
    BY <1>9 DEF HandlePlain, Forwarded, Code
  <2>2. CodeOf(Key) = Key
    BY <2>1, KeyAssumption DEF CodeOf
  <2>3. Stranded = IF Press THEN {Key} ELSE {}
    BY <1>1, <2>1 DEF Stranded
  <2>4. Recovered \subseteq {Key}
    BY DEF Recovered
  <2> DEFINE p == IF Press THEN pressed \cup {Key} ELSE pressed \ {Key}
  <2>5. SendKeyboard(p, modifiers)
    BY <1>9, <2>1, <2>2 DEF HandlePlain
  <2>6. p \subseteq stray'
    BY <1>1, <1>3, <2>3, <2>4 DEF Strayed
  <2>7. modifiers \subseteq stray'
    BY <1>1, <1>3, <1>4, <2>1, <2>4
  <2>8. Key \in Plain \cup Fn
    BY <2>1, <2>2
  <2> HIDE DEF p
  <2> QED BY <1>7, <2>2, <2>5, <2>6, <2>7, <2>8
<1>10. CASE HandleConsumer
  <2>1. /\ Key \notin Mods /\ ~Chord /\ ~pairing /\ CodeOf(Key) = Code
        /\ Code \in Media /\ SendConsumer(IF Press THEN Code ELSE NoUsage)
    BY <1>10 DEF HandleConsumer, Forwarded, Code
  <2>2. UNCHANGED <<pressed, modifiers>>
    BY <2>1 DEF SendConsumer, WriteFails, LinkLost, AllReleased
  <2>3. /\ phone'.mods = phone.mods
        /\ phone'.usage \in {NoUsage, IF Press THEN Code ELSE NoUsage}
    BY <2>1 DEF SendConsumer, WriteFails, LinkLost, AllReleased, TypeOK, Report,
       ReportInv, Nothing, link
  <2>4. Stranded = IF Press THEN {Key} ELSE {}
    BY <1>1, <2>1 DEF Stranded
  <2>5. Recovered # {} => Recovered = {Key} /\ Key \in Media
    BY <2>1 DEF Recovered
  <2>6. /\ pressed \subseteq stray' /\ phone.mods \subseteq stray'
        /\ modifiers \subseteq stray'
    BY <1>1, <1>3, <1>4, <2>5, KeyAssumption DEF Strayed
  <2>7. phone'.usage # NoUsage => \E k \in stray' : phone'.usage = CodeOf(k)
    BY <1>3, <2>1, <2>3, <2>4
  <2> QED BY <1>1, <2>2, <2>3, <2>6, <2>7 DEF Strayed, CodeOf
<1> QED BY <1>5, <1>6, <1>8, <1>9, <1>10 DEF Handle

LEMMA QuietInductive ==
  ASSUME TypeOK, ReportInv, QuietInv, [Next]_vars, StrayStep
  PROVE  QuietInv'
<1>a. stray' \subseteq Codes
  BY StrayType DEF QuietInv
<1>b. ASSUME AllReleased, grabbed' => Open', reading' > 0 /\ ~grabbed' => ~foreground'
      PROVE  QuietInv'
  BY <1>a, <1>b, StrayedReset DEF QuietInv
<1>c. reading \in Nat
  BY DEF TypeOK
<1>1. CASE Handle
  <2>1. reading > 0 /\ Handled /\ reading' = reading - 1 /\ running # "stopped"
    BY <1>1, HandledIs DEF Handle, HandleModifier, HandleSwitch, HandleQuit,
       HandlePairing, HandleConsumer, HandlePlain, Handling
  <2>2. CASE LeaveForeground(SubSeq(events, 2, reading))
    <3>1. AllReleased
      BY <2>2, LeavingReleases
    <3> QED BY <1>b, <2>2, <3>1 DEF LeaveForeground
  <2>3. CASE ~LeaveForeground(SubSeq(events, 2, reading))
    <3>1. UNCHANGED <<grabbed, foreground>> /\ running' \in {running, "stopping"}
      BY <1>1, <2>3 DEF Handle, HandleModifier, HandleSwitch, HandleQuit,
         HandlePairing, HandleConsumer, HandlePlain, session
    <3>2. grabbed' => Open'
      BY <2>1, <3>1 DEF QuietInv, Open
    <3>3. CASE AllReleased
      BY <1>b, <2>1, <3>1, <3>2, <3>3 DEF QuietInv
    <3>4. CASE ~AllReleased /\ ~grabbed
      BY <1>1, <1>a, <2>1, <3>1, <3>2, <3>4, QuietHandle DEF QuietInv
    <3>5. CASE grabbed
      BY <1>a, <3>1, <3>2, <3>5 DEF QuietInv
    <3> QED BY <3>3, <3>4, <3>5
  <2> QED BY <2>2, <2>3
<1>d. ASSUME ~Handle PROVE ~Handled
  BY <1>d, HandledIs
<1>e. ASSUME ~Handle, UNCHANGED <<pressed, phone, topRow>>, grabbed' => Open',
             ~grabbed' => ~grabbed, reading' > 0 /\ ~grabbed' => reading > 0,
             reading' > 0 /\ ~grabbed' => UNCHANGED <<foreground, modifiers>>
      PROVE  QuietInv'
  <2>1. ~grabbed' => Strayed'
    BY <1>d, <1>e, StrayedKept DEF QuietInv
  <2>2. CASE AllReleased
    BY <1>a, <1>e, <2>2, StrayedReset DEF QuietInv
  <2>3. CASE ~AllReleased
    <3>1. stray \subseteq stray'
      BY <1>d, <1>e, <2>3 DEF StrayStep, Recovered
    <3> QED BY <1>a, <1>e, <2>1, <3>1 DEF QuietInv
  <2> QED BY <2>2, <2>3
<1>f. ASSUME ~Handle, UNCHANGED <<pressed, modifiers, phone, topRow, grabbed, foreground, reading>>,
             grabbed => running' # "stopped"
      PROVE  QuietInv'
  BY <1>e, <1>f DEF QuietInv, Open
<1>2. CASE ReadGrabbed /\ ~Handle
  BY <1>2, <1>e DEF ReadGrabbed, Open, session, link, rest
<1>3. CASE ReadWaiting /\ ~Handle
  <2>1. /\ ~grabbed /\ Open /\ reading = 0
        /\ UNCHANGED <<reading, foreground, pressed, phone, topRow, running>>
    BY <1>3 DEF ReadWaiting, Idle, link, rest
  <2>2. Open'
    BY <2>1 DEF Open
  <2> QED BY <1>3, <1>e, <2>1, <2>2
<1>4. CASE Poll /\ ~Handle
  <2>1. reading = 0 /\ running # "stopped" /\ UNCHANGED <<running, topRow>>
    BY <1>4 DEF Poll, Idle
  <2>2. CASE UNCHANGED <<device, session, link>>
    BY <1>4, <1>f, <2>1, <2>2 DEF device, session, link
  <2>3. CASE LeaveForeground(<<>>)
    <3>1. AllReleased
      BY <2>3, LeavingReleases
    <3> QED BY <1>b, <2>3, <3>1 DEF LeaveForeground
  <2>4. CASE /\ foreground' = TRUE
             /\ TakeKeyboards(<<>>)
             /\ UNCHANGED <<reading, pressed, link>>
    <3>1. grabbed' \in {grabbed, TRUE} /\ Open'
      BY <2>1, <2>4 DEF TakeKeyboards, Wait, Grab, Open
    <3>2. UNCHANGED <<pressed, phone, topRow, reading>>
      BY <2>1, <2>4 DEF link
    <3>3. reading' = 0 /\ ~(reading' > 0)
      BY <2>1, <3>2
    <3>4. ~grabbed' => ~grabbed
      BY <3>1
    <3> QED BY <1>4, <1>e, <3>1, <3>2, <3>3, <3>4
  <2> QED BY <1>4, <2>2, <2>3, <2>4 DEF Poll
<1>5. CASE Settle /\ ~Handle
  <2>1. grabbed' \in {grabbed, TRUE} /\ reading = 0 /\ grabbed
        /\ UNCHANGED <<reading, foreground, pressed, phone, topRow, running>>
    BY <1>5 DEF Settle, TakeKeyboards, Wait, Grab, Idle, link, rest
  <2>2. Open'
    BY <2>1 DEF QuietInv, Open
  <2> QED BY <1>5, <1>e, <2>1, <2>2
<1>6. CASE LinkDown \/ Teardown
  <2>1. AllReleased /\ reading = 0 /\ reading' = reading
    BY <1>6 DEF LinkDown, Teardown, Idle, LinkLost, AllReleased, device
  <2>2. grabbed' => Open'
    BY <1>6 DEF LinkDown, Teardown, QuietInv, Open, rest
  <2> QED BY <1>b, <2>1, <2>2
<1>7. CASE (Signal \/ ConsoleMoves \/ PairingStart \/ PairingEnd \/ UNCHANGED vars) /\ ~Handle
  <2>1. UNCHANGED <<pressed, modifiers, phone, topRow, grabbed, foreground, reading>>
    BY <1>7 DEF Signal, ConsoleMoves, PairingStart, PairingEnd, vars, device,
       session, link, rest
  <2>2. running' \in {running, "stopping"}
    BY <1>7 DEF Signal, ConsoleMoves, PairingStart, PairingEnd, vars, rest
  <2> QED BY <1>7, <1>f, <2>1, <2>2 DEF QuietInv, Open
<1>8. ASSUME ~Handle, NEW k \in Keyboard, KeyDown(k) \/ KeyUp(k)
      PROVE  QuietInv'
  <2>1. UNCHANGED <<pressed, modifiers, phone, topRow, grabbed, foreground, reading, running>>
    BY <1>8 DEF KeyDown, KeyUp, session, link, rest
  <2> QED BY <1>8, <1>f, <2>1 DEF QuietInv, Open
<1>9. CASE LinkUp /\ ~Handle
  <2>1. /\ reading = 0 /\ phone = Nothing
        /\ UNCHANGED <<pressed, modifiers, phone, grabbed, foreground, reading, running>>
    BY <1>9 DEF LinkUp, Idle, ReportInv, device, session
  <2>2. ~grabbed' => Strayed'
    <3>1. CASE AllReleased
      BY <3>1, StrayedReset
    <3>2. CASE ~AllReleased
      <4>1. stray \subseteq stray'
        BY <1>d, <1>9, <3>2 DEF StrayStep, Recovered
      <4> QED BY <2>1, <4>1 DEF QuietInv, Strayed, Nothing
    <3> QED BY <3>1, <3>2
  <2> QED BY <1>a, <2>1, <2>2 DEF QuietInv, Open
<1> QED
  BY <1>1, <1>2, <1>3, <1>4, <1>5, <1>6, <1>7, <1>8, <1>9 DEF Next, User, Loop

LEMMA QuietInvariant == StraySpec => [](TypeOK /\ ReportInv /\ QuietInv)
<1>1. Init /\ stray = {} => QuietInv /\ ReportInv
  BY DEF Init, QuietInv, Strayed, ReportInv, ReportIsCurrent, Nothing
<1>2. TypeOK /\ QuietInv /\ ReportInv /\ [StrayNext]_strayVars
        => QuietInv' /\ ReportInv'
  <2> SUFFICES ASSUME TypeOK, QuietInv, ReportInv, [StrayNext]_strayVars
               PROVE  QuietInv' /\ ReportInv'
    OBVIOUS
  <2>1. [Next]_vars
    BY DEF StrayNext, strayVars
  <2>2. ReportInv'
    BY <2>1, ReportInvInductive
  <2>3. CASE StrayNext
    <3>1. StrayStep
      BY <2>3, Zenon DEF StrayNext, StrayStep
    <3> QED BY <2>1, <2>2, <3>1, QuietInductive
  <2>4. CASE UNCHANGED strayVars
    <3>1. UNCHANGED <<stray, grabbed, foreground, running, reading, modifiers,
                      pressed, phone, topRow>>
      BY <2>4 DEF strayVars, vars, device, session, link, rest
    <3>2. Strayed => Strayed'
      BY <3>1 DEF Strayed, CodeOf
    <3> QED BY <2>2, <3>1, <3>2 DEF QuietInv, Open
  <2> QED BY <2>2, <2>3, <2>4
<1> QED
  BY <1>1, <1>2, HistoryOnly, TypeCorrect, PTL DEF StraySpec

\* With another console in front the phone holds nothing but what the rest of
\* the read that gave the console up pressed: for any size of read, with the
\* kernel's queue overflowing, the link lost, and a pairing under way.
THEOREM SilentInBackground == StraySpec => []BackgroundSilent
<1>1. TypeOK /\ ReportInv /\ QuietInv => BackgroundSilent
  <2> SUFFICES ASSUME TypeOK, ReportInv, QuietInv, ~foreground
               PROVE  /\ phone.keys \in {Usages(p) : p \in SUBSET stray}
                      /\ phone.mods \subseteq stray
                      /\ phone.usage # NoUsage => \E k \in stray : phone.usage = CodeOf(k)
    BY DEF BackgroundSilent
  <2>1. Strayed
    BY DEF QuietInv, Open
  <2>2. phone.keys \in {{}, Usages(pressed)}
    BY DEF ReportInv, ReportIsCurrent
  <2>3. Usages({}) = {}
    <3>1. Cardinality({}) = 0 /\ ~(0 > Slots)
      BY FS_EmptySet, BoundAssumption
    <3> QED BY <3>1 DEF Usages
  <2> QED BY <2>1, <2>2, <2>3 DEF Strayed
<1> QED
  BY <1>1, QuietInvariant, PTL

-----------------------------------------------------------------------------
(***************************************************************************)
(* Nothing sticks: what the phone believes down is backed by a key that is *)
(* down, by a release still to be handled, or by one taken on its way.     *)
(***************************************************************************)
Owned(k) == Held(k) \/ k \in stray

\* With the keyboard held; without it, QuietInv says more.
StickInv ==
  grabbed =>
    /\ \A k \in pressed : (Held(k) /\ CodeOf(k) = k) \/ k \in stray
    /\ \A k \in phone.mods : Owned(k)
    /\ phone.usage # NoUsage =>
         \E k \in Codes : Owned(k) /\ phone.usage = CodeOf(k)

LEMMA StickReset == ASSUME AllReleased PROVE StickInv'
BY DEF AllReleased, StickInv, Nothing

LEMMA StickStrayed ==
  ASSUME Strayed', (stray \subseteq Codes)'
  PROVE  StickInv'
BY DEF Strayed, StickInv, Owned

LEMMA StickTold ==
  ASSUME StickInv, grabbed, UNCHANGED <<pressed, phone, topRow>>,
         stray \subseteq stray', \A m : Held(m) => Owned(m)',
         \A m \in pressed : Held(m) => Held(m)' \/ m \in stray'
  PROVE  StickInv'
BY DEF StickInv, CodeOf, Owned

LEMMA StickKept ==
  ASSUME StickInv, grabbed, UNCHANGED <<pressed, phone, topRow>>, StrayStep,
         ~Handled, \A m : Held(m) => Held(m)'
  PROVE  StickInv'
<1>1. CASE AllReleased
  BY <1>1, StickReset
<1>2. CASE ~AllReleased
  <2>1. stray \subseteq stray'
    BY <1>2 DEF StrayStep, Recovered
  <2> QED BY <2>1, StickTold DEF Owned
<1> QED BY <1>1, <1>2

\* A keyboard report made of keys and modifiers that are owned.
LEMMA StickSent ==
  ASSUME TypeOK, StickInv, ReportInv, grabbed, UNCHANGED topRow,
         NEW p, NEW m, SendKeyboard(p, m),
         \A k \in p : (Held(k)' /\ CodeOf(k) = k) \/ k \in stray',
         \A k \in m : Owned(k)',
         \A k \in Codes : Owned(k) /\ phone.usage = CodeOf(k) => Owned(k)'
  PROVE  StickInv'
<1>1. CASE WriteFails
  BY <1>1 DEF WriteFails, LinkLost, StickInv, Nothing
<1>2. CASE ~connected /\ pressed' = p /\ UNCHANGED link
  BY <1>2 DEF StickInv, CodeOf, ReportInv, Nothing, link
<1>3. CASE /\ phone' = [phone EXCEPT !.keys = Usages(p), !.mods = m]
           /\ pressed' = p
  <2>1. phone'.mods = m /\ phone'.usage = phone.usage
    BY <1>3 DEF TypeOK, Report
  <2> QED BY <1>3, <2>1 DEF StickInv, CodeOf
<1> QED BY <1>1, <1>2, <1>3 DEF SendKeyboard

LEMMA StickConsumer ==
  ASSUME TypeOK, StickInv, ReportInv, grabbed, UNCHANGED topRow,
         NEW u, SendConsumer(u),
         \A k \in Mods : Owned(k) => Owned(k)',
         \A k \in pressed : \/ Held(k) /\ CodeOf(k) = k => Held(k)'
                            \/ k \in stray',
         \A k \in pressed : k \in stray => k \in stray',
         u # NoUsage => \E k \in Codes : Owned(k)' /\ u = CodeOf(k)
  PROVE  StickInv'
<1>1. CASE WriteFails
  BY <1>1 DEF WriteFails, LinkLost, StickInv, Nothing
<1>2. CASE ~connected /\ UNCHANGED <<link, pressed, modifiers>>
  BY <1>2 DEF StickInv, CodeOf, ReportInv, Nothing, link
<1>3. CASE /\ phone' = [phone EXCEPT !.usage = u]
           /\ UNCHANGED <<connected, pressed, modifiers>>
  <2>1. phone'.mods = phone.mods /\ phone'.usage = u /\ phone.mods \subseteq Mods
    BY <1>3 DEF TypeOK, Report
  <2> QED BY <1>3, <2>1 DEF StickInv, CodeOf
<1> QED BY <1>1, <1>2, <1>3 DEF SendConsumer

LEMMA StickHandle ==
  ASSUME NoOverflow, TypeOK, OpenInv, ReportInv, NoPhantomModifier, StickInv,
         Handle, Handled, grabbed, StrayStep,
         ~LeaveForeground(SubSeq(events, 2, reading)), ~AllReleased
  PROVE  StickInv'
<1>1. /\ reading > 0 /\ down' = down /\ UNCHANGED topRow
  BY DEF Handle, HandleModifier, HandleSwitch, HandleQuit, HandlePairing,
     HandleConsumer, HandlePlain, Handling
<1>2. events' = Tail(events) /\ UNCHANGED <<grabbed, foreground>>
  BY DEF Handle, HandleModifier, HandleSwitch, HandleQuit, HandlePairing,
     HandleConsumer, HandlePlain, Next1, session
<1>3. stray' = (stray \ Recovered) \cup Stranded
  BY <1>1, StrayHandled
<1>4. Head(events) = Event(Key, Press) /\ Press \in BOOLEAN /\ Key \in Codes
  BY <1>1, KeyIs
<1>5. Recovered \subseteq {Key}
  BY DEF Recovered
<1>6. /\ pressed \subseteq Plain \cup Fn /\ modifiers \subseteq Mods
      /\ phone.usage \in Media \cup {NoUsage}
  BY DEF TypeOK, Report
<1>7. ASSUME NEW m, Held(m), m # Key \/ Press
      PROVE  Held(m)'
  <2>1. CASE m # Key
    <3>1. Head(events) # Event(m, FALSE)
      BY <1>4, <2>1 DEF Event
    <3> QED BY <1>1, <1>2, <1>7, <3>1, HeldByHandle
  <2>2. CASE Press
    <3>1. Head(events) # Event(m, FALSE)
      BY <1>4, <2>2 DEF Event
    <3> QED BY <1>1, <1>2, <1>7, <3>1, HeldByHandle
  <2> QED BY <1>7, <2>1, <2>2
<1>8. ASSUME NEW m, m = Key, Press
      PROVE  Held(m)'
  <2>1. Press = (Key \in down) \/ In(Tail(events), Event(Key, ~Press))
    BY <1>1, HeadTold DEF OpenInv
  <2>2. Press = TRUE /\ (~Press) = FALSE
    BY <1>4, <1>8
  <2>3. m \in down \/ In(events', Event(m, FALSE))
    BY <1>2, <1>8, <2>1, <2>2
  <2> QED BY <1>1, <2>3 DEF Held, Coming, In
<1>9. ASSUME NEW m, Owned(m), m # Key \/ (Press /\ Held(m))
      PROVE  Owned(m)'
  BY <1>3, <1>5, <1>7, <1>9 DEF Owned
<1>10. CASE HandleSwitch \/ HandleQuit
  <2>1. Chord /\ Press /\ UNCHANGED <<pressed, phone>>
    BY <1>10 DEF HandleSwitch, HandleQuit, Chord, session, link
  <2>2. stray \subseteq stray'
    BY <1>3, <2>1 DEF Recovered
  <2> QED BY <1>1, <1>7, <2>1, <2>2, StickTold DEF Owned
<1>11. CASE HandlePairing \/ (HandleModifier /\ pairing)
  <2>1. pairing /\ UNCHANGED <<pressed, phone>>
    BY <1>11 DEF HandlePairing, HandleModifier, session, link
  <2>2. stray \subseteq stray'
    BY <1>3, <2>1 DEF Recovered
  <2>3. ~Press => Key \in stray'
    BY <1>3, <2>1 DEF Stranded
  <2>4. \A m : Held(m) => Held(m)' \/ m \in stray'
    BY <1>7, <2>3
  <2> QED BY <1>1, <2>1, <2>2, <2>4, StickTold DEF Owned
<1>12. CASE HandleModifier /\ ~pairing
  <2>1. Key \in Mods /\ SendKeyboard(pressed, ModifiersNow)
    BY <1>12 DEF HandleModifier
  <2>2. ASSUME NEW k \in pressed
        PROVE  (Held(k)' /\ CodeOf(k) = k) \/ k \in stray'
    <3>1. k # Key
      BY <1>6, <2>1, KeyAssumption
    <3> QED BY <1>3, <1>5, <1>7, <3>1 DEF StickInv
  <2>3. ASSUME NEW k \in ModifiersNow
        PROVE  Owned(k)'
    <3>1. \/ k \in modifiers /\ (k # Key \/ Press)
          \/ k = Key /\ Press
      BY DEF ModifiersNow
    <3>2. k \in modifiers => Held(k)
      BY DEF NoPhantomModifier
    <3> QED BY <1>7, <1>8, <3>1, <3>2 DEF Owned
  <2>4. ASSUME NEW k \in Codes, Owned(k), phone.usage = CodeOf(k)
        PROVE  Owned(k)'
    <3>1. CodeOf(Key) \notin Media \cup {NoUsage}
      BY <2>1, KeyAssumption DEF CodeOf, Codes
    <3> QED BY <1>6, <1>9, <2>4, <3>1
  <2> QED BY <1>1, <2>1, <2>2, <2>3, <2>4, StickSent
<1>13. CASE HandleConsumer
  <2>1. Key \notin Mods /\ CodeOf(Key) \in Media
    BY <1>13 DEF HandleConsumer, Forwarded, Code
  <2>2. CodeOf(Key) = Key => Key \notin pressed
    BY <1>6, <2>1, KeyAssumption
  <2>3. \A k \in Mods : Owned(k) => Owned(k)'
    BY <1>9, <2>1
  <2>4. ASSUME NEW k \in pressed
        PROVE  /\ (Held(k) /\ CodeOf(k) = k => Held(k)') \/ k \in stray'
               /\ k \in stray => k \in stray'
    <3>1. k = Key => CodeOf(k) # k /\ Recovered = {}
      BY <2>2 DEF Recovered
    <3> QED BY <1>3, <1>5, <1>7, <3>1
  <2>5. CASE Press
    <3>1. SendConsumer(CodeOf(Key))
      BY <1>13, <2>5 DEF HandleConsumer, Code
    <3>2. \E k \in Codes : Owned(k)' /\ CodeOf(Key) = CodeOf(k)
      BY <1>4, <1>8, <2>5 DEF Owned
    <3> DEFINE u == CodeOf(Key)
    <3> HIDE DEF u
    <3> QED BY <1>1, <2>3, <2>4, <3>1, <3>2, StickConsumer DEF u
  <2>6. CASE ~Press
    <3>1. SendConsumer(NoUsage)
      BY <1>13, <2>6 DEF HandleConsumer
    <3> QED BY <1>1, <2>3, <2>4, <3>1, StickConsumer
  <2> QED BY <2>5, <2>6
<1>14. CASE HandlePlain
  <2>1. Key \notin Mods /\ CodeOf(Key) \in Plain \cup Fn
    BY <1>14 DEF HandlePlain, Forwarded, Code
  <2>2. CodeOf(Key) = Key
    BY <2>1, KeyAssumption DEF CodeOf
  <2>3. ASSUME NEW k \in modifiers
        PROVE  Owned(k)'
    BY <1>6, <1>7, <2>1 DEF NoPhantomModifier, Owned
  <2>4. ASSUME NEW k \in Codes, Owned(k), phone.usage = CodeOf(k)
        PROVE  Owned(k)'
    <3>1. CodeOf(Key) \notin Media \cup {NoUsage}
      BY <2>1, KeyAssumption DEF Codes
    <3> QED BY <1>6, <1>9, <2>4, <3>1
  <2> DEFINE p == IF Press THEN pressed \cup {Key} ELSE pressed \ {Key}
  <2>5. SendKeyboard(p, modifiers)
    BY <1>14, <2>2 DEF HandlePlain, Code
  <2>6. ASSUME NEW k \in p
        PROVE  (Held(k)' /\ CodeOf(k) = k) \/ k \in stray'
    <3>1. \/ k \in pressed /\ k # Key
          \/ k = Key /\ Press
      BY <2>6
    <3>2. CASE k = Key /\ Press
      BY <1>8, <2>2, <3>2
    <3>3. CASE k \in pressed /\ k # Key
      BY <1>3, <1>5, <1>7, <3>3 DEF StickInv
    <3> QED BY <3>1, <3>2, <3>3
  <2> HIDE DEF p
  <2> QED BY <1>1, <2>3, <2>4, <2>5, <2>6, StickSent
<1> QED
  BY <1>10, <1>11, <1>12, <1>13, <1>14 DEF Handle

\* The keyboard is taken with the phone as it is.
LEMMA StickTaken ==
  ASSUME TypeOK, ~grabbed, grabbed', [Next]_vars
  PROVE  UNCHANGED <<pressed, phone, topRow>> /\ ~Handled
<1>1. ASSUME UNCHANGED grabbed
      PROVE  FALSE
  BY <1>1
<1>2. ~Handle
  <2>1. CASE LeaveForeground(SubSeq(events, 2, reading))
    BY <2>1 DEF LeaveForeground
  <2>2. CASE ~LeaveForeground(SubSeq(events, 2, reading))
    BY <1>1, <2>2 DEF Handle, HandleModifier, HandleSwitch, HandleQuit,
       HandlePairing, HandleConsumer, HandlePlain, session
  <2> QED BY <2>1, <2>2
<1>3. ~Handled
  BY <1>2, HandledIs
<1>4. ReadWaiting \/ Poll
  BY <1>1, <1>2 DEF Next, User, Loop, ConsoleMoves, KeyDown, KeyUp, ReadGrabbed,
     Settle, LinkUp, LinkDown, PairingStart, PairingEnd, Signal, Teardown, vars,
     device, session
<1>5. CASE ReadWaiting
  BY <1>3, <1>5 DEF ReadWaiting, link, rest
<1>6. CASE Poll
  <2>1. ~LeaveForeground(<<>>)
    BY DEF LeaveForeground
  <2> QED BY <1>1, <1>3, <1>6, <2>1 DEF Poll, session, link
<1> QED BY <1>4, <1>5, <1>6

LEMMA StickInductive ==
  ASSUME NoOverflow, TypeOK, OpenInv, QuietInv, ReportInv, NoPhantomModifier,
         StickInv, [Next]_vars, StrayStep
  PROVE  StickInv'
<1>1. CASE ~grabbed'
  BY <1>1 DEF StickInv
<1>2. CASE ~grabbed /\ grabbed'
  <2>1. Strayed'
    BY <1>2, StickTaken, StrayedKept DEF QuietInv
  <2>2. (stray \subseteq Codes)'
    BY StrayType DEF QuietInv
  <2> QED BY <2>1, <2>2, StickStrayed
<1>3. CASE AllReleased
  BY <1>3, StickReset
<1>4. ASSUME grabbed, grabbed', ~AllReleased
      PROVE  StickInv'
  <2>1. ASSUME ~Handle, UNCHANGED <<events, down, pressed, phone, topRow>>
        PROVE  StickInv'
    BY <1>4, <2>1, HandledIs, StickKept DEF Held, Coming
  <2>2. ASSUME NEW k \in Keyboard, KeyDown(k) \/ KeyUp(k)
        PROVE  StickInv'
    <3>1. UNCHANGED <<reading, grabbed, pressed, phone, topRow>>
      BY <2>2 DEF KeyDown, KeyUp, session, link, rest
    <3>2. ~Handled
      BY <3>1 DEF Handled, TypeOK
    <3>3. Open
      BY <1>4 DEF QuietInv
    <3> QED BY <1>4, <2>2, <3>1, <3>2, <3>3, HeldByUser, StickKept
  <2>3. CASE Handle
    <3>1. ~LeaveForeground(SubSeq(events, 2, reading))
      BY <1>4, LeavingReleases
    <3> QED BY <1>4, <2>3, <3>1, HandledIs, StickHandle
  <2>4. CASE Poll /\ ~Handle
    <3>1. ~LeaveForeground(<<>>) /\ foreground
      BY <1>4, LeavingReleases DEF QuietInv, Open
    <3>2. UNCHANGED <<events, down, pressed, phone, topRow>>
      BY <2>4, <3>1 DEF Poll, device, session, link
    <3> QED BY <2>1, <2>4, <3>2
  <2>5. CASE Settle /\ ~Handle
    <3>1. UNCHANGED <<pressed, phone, topRow>>
      BY <2>5 DEF Settle, link, rest
    <3>2. CASE Wait(events)
      BY <2>1, <2>5, <3>1, <3>2 DEF Wait
    <3>3. CASE Grab(events)
      <4>1. events \in Seq(Transition) /\ Truth(events, down)
        BY <1>4 DEF TypeOK, QuietInv, OpenInv
      <4>2. /\ down = {}
            /\ \A x : In(events, x) => In(events', x)
        BY <3>3, <4>1, GrabQueue
      <4>3. \A m : Held(m) => Held(m)'
        BY <4>2 DEF Held, Coming, In
      <4> QED BY <1>4, <2>5, <3>1, <4>3, HandledIs, StickKept
    <3> QED BY <2>5, <3>2, <3>3 DEF Settle, TakeKeyboards
  <2>6. CASE LinkUp /\ ~Handle
    <3>1. /\ phone' = Nothing /\ UNCHANGED <<events, down, pressed>>
      BY <2>6 DEF LinkUp, ReportInv, device, session
    <3>2. stray' = stray \cup Renamed
      <4>1. ~Handled
        BY <2>6, HandledIs
      <4> QED BY <1>4, <4>1 DEF StrayStep, Recovered, Stranded
    <3>3. ASSUME NEW k \in pressed
          PROVE  (Held(k)' /\ (CodeOf(k) = k)') \/ k \in stray'
      <4>1. CASE k \in stray'
        BY <4>1
      <4>2. CASE k \notin stray'
        <5>1. Held(k) /\ CodeOf(k) = k
          BY <1>4, <3>2, <4>2 DEF StickInv
        <5>2. topRow' = topRow \/ k \notin Fn
          BY <3>2, <4>2 DEF Renamed
        <5>3. (CodeOf(k) = k)'
          BY <5>1, <5>2 DEF CodeOf
        <5> QED BY <3>1, <5>1, <5>3 DEF Held, Coming
      <4> QED BY <4>1, <4>2
    <3> QED BY <3>1, <3>3 DEF StickInv, Nothing
  <2>7. CASE LinkDown \/ Teardown
    BY <1>4, <2>7 DEF LinkDown, Teardown, LinkLost, AllReleased
  <2>8. CASE ReadWaiting
    BY <1>4, <2>8 DEF ReadWaiting
  <2>9. CASE (ConsoleMoves \/ ReadGrabbed \/ Signal \/ PairingStart \/ PairingEnd
              \/ UNCHANGED vars) /\ ~Handle
    <3>1. UNCHANGED <<events, down, pressed, phone, topRow>>
      BY <2>9 DEF ConsoleMoves, ReadGrabbed, Signal, PairingStart, PairingEnd,
         vars, device, session, link, rest
    <3> QED BY <2>1, <2>9, <3>1
  <2> QED
    BY <2>2, <2>3, <2>4, <2>5, <2>6, <2>7, <2>8, <2>9 DEF Next, User, Loop
<1> QED BY <1>1, <1>2, <1>3, <1>4

\* No key, modifier or consumer usage sticks on the phone, but those whose
\* release was taken on its way: for any size of read, through rollover,
\* chords, waits, pairings that borrow the keyboard, function rows that change
\* with the host, links lost and regained, and the stop, on a kernel queue that
\* loses nothing.
THEOREM NothingStuck ==
  ASSUME NoOverflow
  PROVE  StraySpec => []NothingSticks
<1>1. Init => StickInv
  BY DEF Init, StickInv
<1>2. /\ TypeOK /\ OpenInv /\ QuietInv /\ ReportInv /\ NoPhantomModifier
      /\ StickInv /\ [StrayNext]_strayVars
      => StickInv'
  <2> SUFFICES ASSUME TypeOK, OpenInv, QuietInv, ReportInv, NoPhantomModifier,
                      StickInv, [StrayNext]_strayVars
               PROVE  StickInv'
    OBVIOUS
  <2>1. CASE StrayNext
    <3>1. StrayStep /\ [Next]_vars
      BY <2>1, Zenon DEF StrayNext, StrayStep
    <3> QED BY <3>1, StickInductive
  <2>2. CASE UNCHANGED strayVars
    <3>1. UNCHANGED <<grabbed, pressed, phone, topRow, stray, down, events>>
      BY <2>2 DEF strayVars, vars, device, session, link, rest
    <3> QED BY <3>1 DEF StickInv, Owned, Held, Coming, CodeOf
  <2> QED BY <2>1, <2>2
<1>3. TypeOK /\ StickInv /\ QuietInv /\ ReportInv => NothingSticks
  <2> SUFFICES ASSUME TypeOK, StickInv, QuietInv, ReportInv
               PROVE  NothingSticks
    OBVIOUS
  <2>1. Usages(pressed) \subseteq pressed \cup {ErrorRollOver}
    BY DEF Usages
  <2>2. phone.keys \ {ErrorRollOver} \subseteq pressed
    BY <2>1 DEF ReportInv, ReportIsCurrent
  <2>3. CASE grabbed
    BY <2>2, <2>3 DEF StickInv, NothingSticks, Owned
  <2>4. CASE ~grabbed
    BY <2>2, <2>4 DEF QuietInv, Strayed, NothingSticks
  <2> QED BY <2>3, <2>4
<1> QED
  BY <1>1, <1>2, <1>3, HistoryOnly, TypeCorrect, OpenInvariant, QuietInvariant,
     NoPhantom, PTL DEF StraySpec
=============================================================================
