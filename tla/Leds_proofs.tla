----------------------------- MODULE Leds_proofs -----------------------------
(***************************************************************************)
(* What Link promises for any number of hosts and every environment; that  *)
(* the lock lights, built on it, leave it as it is; and from the two       *)
(* together what is known of a host's lock: the lights show it, and a link *)
(* that is lost leaves nothing of it behind.                               *)
(***************************************************************************)
EXTENDS Leds, TLAPS

(***************************************************************************)
(* What is dialled is a host, so that what a dial adopts is one too.       *)
(***************************************************************************)
TypeInv == TypeOK /\ (dial # "idle" => dialled \in Host)

USE DEF Kind

LEMMA DisconnectType ==
  ASSUME TypeInv, Disconnect
  PROVE  /\ channel' \in [Kind -> Host \cup {None}] /\ peer' \in Host \cup {None}
         /\ closed' \in SUBSET {k \in Kind : channel'[k] # None}
         /\ (peer' # None <=> \E k \in Kind : channel'[k] # None)
         /\ waiting' \in [Kind -> SUBSET Host]
         /\ announced' \in Host \cup {None}
  BY DEF TypeInv, TypeOK, Disconnect, Dropped, Connected

LEMMA TypeInductive == TypeInv /\ [Next]_linkVars => TypeInv'
<1> SUFFICES ASSUME TypeInv, [Next]_linkVars PROVE TypeInv'
  OBVIOUS
<1> USE LinkAssumption
<1>1. ASSUME NEW h \in Host, Leave(h) PROVE TypeInv'
  BY <1>1 DEF TypeInv, TypeOK, Leave
<1>2. ASSUME NEW h \in Host, NEW k \in Kind, Open(h, k) PROVE TypeInv'
  BY <1>2 DEF TypeInv, TypeOK, Open, channels, dialling
<1>3. ASSUME NEW h \in Host, AdoptControl(h) PROVE TypeInv'
  BY <1>3 DEF TypeInv, TypeOK, AdoptControl, Accepted, Welcome, dialling
<1>4. ASSUME NEW h \in Host, AdoptInterrupt(h) PROVE TypeInv'
  BY <1>4 DEF TypeInv, TypeOK, AdoptInterrupt, Accepted, Welcome, dialling
<1>5. ASSUME NEW h \in Host, NEW k \in Kind, Refuse(h, k) PROVE TypeInv'
  BY <1>5 DEF TypeInv, TypeOK, Refuse, Accepted, channels, dialling
<1>6. CASE Unplugged
  BY <1>6, DisconnectType DEF TypeInv, TypeOK, Unplugged, dialling
<1>7. ASSUME NEW k \in Kind, Lost(k) PROVE TypeInv'
  BY <1>7, DisconnectType DEF TypeInv, TypeOK, Lost, dialling
<1>8. CASE Reconnect
  BY <1>8 DEF TypeInv, TypeOK, Reconnect, channels
<1>9. CASE ControlUp
  BY <1>9 DEF TypeInv, TypeOK, ControlUp, channels
<1>10. CASE InterruptUp
  BY <1>10 DEF TypeInv, TypeOK, InterruptUp, Dropped
<1>11. CASE DialFailed
  BY <1>11 DEF TypeInv, TypeOK, DialFailed, channels
<1>12. CASE UNCHANGED linkVars
  BY <1>12 DEF TypeInv, TypeOK, linkVars, channels, dialling
<1> QED
  BY <1>1, <1>2, <1>3, <1>4, <1>5, <1>6, <1>7, <1>8, <1>9, <1>10, <1>11, <1>12
     DEF Next, Incoming, Dialled

LEMMA TypeInvariant == Spec => []TypeInv
<1>1. Init => TypeInv
  BY LinkAssumption DEF Init, TypeInv, TypeOK
<1> QED
  BY <1>1, TypeInductive, PTL DEF Spec

\* The state of the link keeps to its types, and btkey has a peer exactly
\* while it has a channel, for any hosts and in every environment (_on_incoming,
\* reconnect, disconnect).
THEOREM TypeCorrect == Spec => []TypeOK
<1>1. TypeInv => TypeOK
  BY DEF TypeInv
<1> QED
  BY <1>1, TypeInvariant, PTL

-----------------------------------------------------------------------------
(***************************************************************************)
(* OneHost is not inductive: a control channel is adopted without telling  *)
(* Session, and the link may be up with it.  What is, is that Session was  *)
(* told of the peer when the interrupt channel was.                        *)
(***************************************************************************)
HostInv ==
  /\ \A k \in Kind : channel[k] \in {None, peer}
  /\ channel["interrupt"] # None => announced = peer

LEMMA HostInductive == TypeInv /\ HostInv /\ [Next]_linkVars => HostInv'
<1> SUFFICES ASSUME TypeInv, HostInv, [Next]_linkVars PROVE HostInv'
  OBVIOUS
<1> USE LinkAssumption DEF HostInv
<1>1. ASSUME NEW h \in Host, Leave(h) PROVE HostInv'
  BY <1>1 DEF Leave
<1>2. ASSUME NEW h \in Host, NEW k \in Kind, Open(h, k) \/ Refuse(h, k)
      PROVE  HostInv'
  BY <1>2 DEF Open, Refuse, channels
<1>3. ASSUME NEW h \in Host, AdoptControl(h) PROVE HostInv'
  BY <1>3 DEF AdoptControl, Welcome, TypeInv, TypeOK
<1>4. ASSUME NEW h \in Host, AdoptInterrupt(h) PROVE HostInv'
  BY <1>4 DEF AdoptInterrupt, Welcome, TypeInv, TypeOK
<1>5. CASE Disconnect
  BY <1>5 DEF Disconnect
<1>6. CASE Reconnect \/ ControlUp \/ DialFailed
  BY <1>6 DEF Reconnect, ControlUp, DialFailed, channels
<1>7. CASE InterruptUp
  BY <1>7 DEF InterruptUp
<1>8. CASE UNCHANGED linkVars
  BY <1>8 DEF linkVars, channels
<1> QED
  BY <1>1, <1>2, <1>3, <1>4, <1>5, <1>6, <1>7, <1>8
     DEF Next, Incoming, Dialled, Unplugged, Lost

LEMMA HostInvariant == Spec => []HostInv
<1>1. Init => HostInv
  BY DEF Init, HostInv
<1> QED
  BY <1>1, HostInductive, TypeInvariant, PTL DEF Spec

\* Both channels are always one host's, the one btkey calls its peer and told
\* Session of, whoever connects and whatever is dialled meanwhile
\* (_on_incoming, reconnect, disconnect).
THEOREM HostIsOne == Spec => []OneHost
<1>1. HostInv => OneHost
  BY DEF HostInv, OneHost, Connected
<1> QED
  BY <1>1, HostInvariant, PTL

-----------------------------------------------------------------------------
(***************************************************************************)
(* Session hears of a host that connects when its interrupt channel is     *)
(* adopted, so what has to be shown is that its control channel is there.  *)
(* That follows from where the channels are that wait to be accepted.      *)
(***************************************************************************)
QueueInv ==
  /\ \A h \in waiting["interrupt"] :
       channel["control"] = h \/ h \in waiting["control"]
  /\ AnnouncedIsConnected

NoHalves == "halves" \notin Environment

LEMMA QueueInductive ==
  ASSUME NoHalves, TypeInv, HostInv, QueueInv, [Next]_linkVars
  PROVE  QueueInv'
<1> USE LinkAssumption, NoHalves DEF NoHalves, QueueInv, AnnouncedIsConnected, Connected
<1>1. ASSUME NEW h \in Host, Leave(h) PROVE QueueInv'
  BY <1>1 DEF Leave, TypeInv, TypeOK
<1>2. ASSUME NEW h \in Host, NEW k \in Kind, Open(h, k) PROVE QueueInv'
  BY <1>2 DEF Open, Has, channels, TypeInv, TypeOK
<1>3. ASSUME NEW h \in Host, NEW k \in Kind, Refuse(h, k) PROVE QueueInv'
  BY <1>3 DEF Refuse, Accepted, Welcome, HostInv, channels, TypeInv, TypeOK
<1>4. ASSUME NEW h \in Host, AdoptControl(h) PROVE QueueInv'
  BY <1>4 DEF AdoptControl, Accepted, Welcome, HostInv, TypeInv, TypeOK
<1>5. ASSUME NEW h \in Host, AdoptInterrupt(h) PROVE QueueInv'
  BY <1>5 DEF AdoptInterrupt, Accepted, Welcome, TypeInv, TypeOK
<1>6. CASE Disconnect
  BY <1>6 DEF Disconnect, Dropped, HostInv, TypeInv, TypeOK
<1>7. CASE Reconnect \/ ControlUp \/ DialFailed
  BY <1>7 DEF Reconnect, ControlUp, DialFailed, channels
<1>8. CASE InterruptUp
  BY <1>8 DEF InterruptUp, Dropped, HostInv, TypeInv, TypeOK
<1>9. CASE UNCHANGED linkVars
  BY <1>9 DEF linkVars, channels
<1> QED
  BY <1>1, <1>2, <1>3, <1>4, <1>5, <1>6, <1>7, <1>8, <1>9
     DEF Next, Incoming, Dialled, Unplugged, Lost

LEMMA QueueInvariant == NoHalves /\ Spec => []QueueInv
<1> SUFFICES ASSUME NoHalves PROVE Spec => []QueueInv
  OBVIOUS
<1>1. Init => QueueInv
  BY DEF Init, QueueInv, AnnouncedIsConnected
<1> QED
  BY <1>1, QueueInductive, TypeInvariant, HostInvariant, PTL DEF Spec

\* A host that Session takes for connected has both channels, as long as hosts
\* that lose their control channel give up the other (_adopt_interrupt tells
\* Session without asking).
THEOREM AnnouncedHasBoth == NoHalves /\ Spec => []AnnouncedIsConnected
<1>1. QueueInv => AnnouncedIsConnected
  BY DEF QueueInv
<1> QED
  BY <1>1, QueueInvariant, PTL

\* And no other host takes over from it by connecting (_on_incoming).
THEOREM SecondIsRefused == NoHalves /\ Spec => SecondHostRefused
<1> SUFFICES ASSUME NoHalves PROVE Spec => SecondHostRefused
  OBVIOUS
<1> DEFINE Refused == announced # None /\ announced' \notin {None, announced} =>
                        announced' = dialled /\ dial = "interrupt"
<1>1. ASSUME HostInv, QueueInv, [Next]_linkVars PROVE [Refused]_linkVars
  <2> SUFFICES ASSUME Next, announced # None, announced' \notin {None, announced}
               PROVE  announced' = dialled /\ dial = "interrupt"
    BY <1>1
  <2>1. ASSUME NEW h \in Host, AdoptInterrupt(h) PROVE FALSE
    BY <1>1, <2>1 DEF AdoptInterrupt, Welcome, HostInv, QueueInv,
                      AnnouncedIsConnected, Connected
  <2>2. CASE Disconnect
    BY <2>2 DEF Disconnect
  <2>3. CASE InterruptUp
    BY <2>3 DEF InterruptUp
  <2> QED
    BY <2>1, <2>2, <2>3
       DEF Next, Incoming, Dialled, Unplugged, Lost, Leave, Open, Refuse,
           AdoptControl, Reconnect, ControlUp, DialFailed
<1> QED
  BY <1>1, HostInvariant, QueueInvariant, PTL DEF Spec, SecondHostRefused
-----------------------------------------------------------------------------
\* Session and the lights never get in the link's way: what the link does
\* under Leds is what it does alone (on_connection_state only hears of it).
THEOREM LedsImplementLink == LedsSpec => Spec
<1>1. LedsInit => Init
  BY DEF LedsInit
<1>2. [LedsNext]_vars => [Next]_linkVars
  BY DEF LedsNext, vars, LinkUp, LinkDown, LinkOther, PressLock, HostActs,
         HostResends, ReadReport, Take, Release, Next, Incoming, Dialled
<1> QED
  BY <1>1, <1>2, PTL DEF LedsSpec, Spec

-----------------------------------------------------------------------------
LEMMA ApplyLedsType ==
  ASSUME LedsTypeOK, NEW on \in BOOLEAN, ApplyLeds(on)
  PROVE  leds' \in BOOLEAN /\ light' \in BOOLEAN /\ written' \in BOOLEAN
  BY DEF ApplyLeds, LedsTypeOK

LEMMA AppendType ==
  ASSUME NEW s \in Seq(BOOLEAN), NEW on \in BOOLEAN, Len(s) < MaxFlight
  PROVE  Append(s, on) \in Seq(BOOLEAN) /\ Len(Append(s, on)) <= MaxFlight
  BY LedsAssumption

LEMMA LedsTypeInductive == LedsTypeOK /\ [LedsNext]_vars => LedsTypeOK'
<1> SUFFICES ASSUME LedsTypeOK, [LedsNext]_vars PROVE LedsTypeOK'
  OBVIOUS
<1> USE LedsAssumption DEF LedsTypeOK
<1>1. CASE LinkUp
  <2>1. keys' = 0 /\ lock' \in BOOLEAN /\ reports' \in {<<>>, <<TRUE>>}
    BY <1>1 DEF LinkUp, Greeting
  <2>2. <<>> \in Seq(BOOLEAN) /\ <<TRUE>> \in Seq(BOOLEAN)
        /\ Len(<<>>) <= MaxFlight /\ Len(<<TRUE>>) <= MaxFlight
    OBVIOUS
  <2>3. UNCHANGED <<reporting, consoleLock, linkLeds, fromHost, light, grabbed>>
        /\ leds' = FALSE /\ written' = FALSE /\ replaced' \in BOOLEAN
    BY <1>1 DEF LinkUp, ConnectionUp, fixed, Connected
  <2>4. keys' \in 0..MaxFlight /\ reports' \in Seq(BOOLEAN)
        /\ Len(reports') <= MaxFlight
    <3>1. CASE reports' = <<>>
      BY <2>1, <2>2, <3>1
    <3>2. CASE reports' = <<TRUE>>
      BY <2>1, <2>2, <3>2
    <3> QED
      BY <2>1, <3>1, <3>2
  <2> QED
    BY <2>1, <2>3, <2>4
<1>2. CASE LinkDown
  <2>1. keys' = 0 /\ reports' = <<>> /\ lock' = FALSE /\ linkLeds' = FALSE
        /\ replaced' = FALSE
    BY <1>2 DEF LinkDown
  <2>2. leds' \in BOOLEAN /\ light' \in BOOLEAN /\ written' \in BOOLEAN
    BY <1>2 DEF LinkDown, ConnectionDown
  <2>3. UNCHANGED <<fromHost, reporting, consoleLock, grabbed>>
    BY <1>2 DEF LinkDown, fixed
  <2>4. keys' \in 0..MaxFlight /\ reports' \in Seq(BOOLEAN)
        /\ Len(reports') <= MaxFlight
    BY <2>1
  <2> QED
    BY <2>1, <2>2, <2>3, <2>4
<1>3. CASE LinkOther
  BY <1>3 DEF LinkOther, ledsVars, flight, lights, fixed
<1>4. CASE PressLock
  <2>1. keys' \in 0..MaxFlight
    BY <1>4 DEF PressLock
  <2>2. leds' \in BOOLEAN /\ light' \in BOOLEAN /\ written' \in BOOLEAN
    BY <1>4, ApplyLedsType DEF PressLock, NoteLockKey
  <2> QED
    BY <1>4, <2>1, <2>2 DEF PressLock, fixed
<1>5. CASE HostActs
  <2>1. keys' \in 0..MaxFlight
    BY <1>5 DEF HostActs
  <2>2. lock' \in BOOLEAN
    BY <1>5 DEF HostActs
  <2>3. reports' \in Seq(BOOLEAN) /\ Len(reports') <= MaxFlight
    <3>1. CASE announced \in reporting
      BY <1>5, <3>1, AppendType DEF HostActs
    <3>2. CASE announced \notin reporting
      BY <1>5, <3>2 DEF HostActs
    <3> QED
      BY <3>1, <3>2
  <2> QED
    BY <1>5, <2>1, <2>2, <2>3 DEF HostActs, lights, fixed
<1>6. CASE HostResends
  BY <1>6, AppendType DEF HostResends, lights, fixed
<1>7. CASE ReadReport
  <2>1. Head(reports) \in BOOLEAN /\ Tail(reports) \in Seq(BOOLEAN)
        /\ Len(Tail(reports)) <= MaxFlight
    BY <1>7 DEF ReadReport
  <2> QED
    BY <1>7, <2>1 DEF ReadReport, HostLeds, ApplyLeds, lights, fixed
<1>8. CASE Take \/ Release
  <2>1. light' \in BOOLEAN /\ written' \in BOOLEAN /\ grabbed' \in BOOLEAN
    BY <1>8 DEF Take, Release
  <2>2. UNCHANGED <<lock, keys, reports, linkLeds, leds, fromHost, reporting,
                    consoleLock, replaced>>
    BY <1>8 DEF Take, Release, flight, fixed
  <2> QED
    BY <2>1, <2>2
<1>9. CASE UNCHANGED vars
  BY <1>9 DEF vars, ledsVars, flight, lights, fixed
<1> QED
  BY <1>1, <1>2, <1>3, <1>4, <1>5, <1>6, <1>7, <1>8, <1>9 DEF LedsNext

\* The state of the lights keeps to its types, no more is on its way than the
\* bound, and the link has a lock only from a host whose reports ended the
\* inference (on_host_leds).
THEOREM LedsTypeCorrect == LedsSpec => []LedsTypeOK
<1>1. LedsInit => LedsTypeOK
  <2> SUFFICES ASSUME LedsInit PROVE LedsTypeOK
    OBVIOUS
  <2>1. reporting \in SUBSET Host /\ consoleLock \in BOOLEAN
    BY DEF LedsInit
  <2>2. <<>> \in Seq(BOOLEAN) /\ Len(<<>>) <= MaxFlight /\ 0 \in 0..MaxFlight
    BY LedsAssumption
  <2> QED
    BY <2>1, <2>2 DEF LedsInit, LedsTypeOK
<1> QED
  BY <1>1, LedsTypeInductive, PTL DEF LedsSpec

-----------------------------------------------------------------------------
(***************************************************************************)
(* A lock key or a report needs the link to be up, and so, by Link's       *)
(* HostInv, somebody to be announced.                                      *)
(***************************************************************************)
LEMMA AliveIsAnnounced ==
  ASSUME TypeInv, HostInv, Alive
  PROVE  announced # None
  BY LinkAssumption DEF HostInv, Alive, Connected, Kind, TypeInv, TypeOK

LEMMA CarriedInductive ==
  ASSUME TypeInv, HostInv, NothingCarriedOver, [LedsNext]_vars
  PROVE  NothingCarriedOver'
<1> USE LinkAssumption DEF NothingCarriedOver
<1>1. CASE LinkUp
  BY <1>1 DEF LinkUp, AdoptInterrupt, InterruptUp, TypeInv
<1>2. CASE LinkDown
  BY <1>2 DEF LinkDown, ConnectionDown, Unplugged, Lost, Disconnect
<1>3. CASE LinkOther
  BY <1>3 DEF LinkOther, ledsVars, lights, Leave, Open, Refuse, AdoptControl,
              Reconnect, ControlUp, DialFailed
<1>4. CASE PressLock
  BY <1>4, AliveIsAnnounced DEF PressLock, linkVars
<1>5. CASE ReadReport
  BY <1>5, AliveIsAnnounced DEF ReadReport, linkVars
<1>6. CASE HostActs \/ HostResends
  BY <1>6 DEF HostActs, HostResends, linkVars, lights
<1>7. CASE Take \/ Release
  BY <1>7 DEF Take, Release, linkVars
<1>8. CASE UNCHANGED vars
  BY <1>8 DEF vars, linkVars, ledsVars, lights
<1> QED
  BY <1>1, <1>2, <1>3, <1>4, <1>5, <1>6, <1>7, <1>8 DEF LedsNext

\* However the link goes, and whatever was inferred or on its way, nothing is
\* left of the host's lock once Session knows (disconnect, on_connection_state).
THEOREM NothingIsCarriedOver == LedsSpec => []NothingCarriedOver
<1>1. LedsInit => NothingCarriedOver
  BY DEF LedsInit, NothingCarriedOver
<1> QED
  BY <1>1, CarriedInductive, LedsImplementLink, TypeInvariant, HostInvariant,
     PTL DEF LedsSpec

-----------------------------------------------------------------------------
(***************************************************************************)
(* A connection is made, or is lost, with Session knowing of both: where   *)
(* hosts keep no half of one, it begins with nothing shown, unless it      *)
(* comes over another, and what a loss undoes was up.                      *)
(***************************************************************************)
LinkInv == TypeInv /\ HostInv /\ QueueInv

LEMMA LinkInvariant ==
  ASSUME NoHalves
  PROVE  LedsSpec => []LinkInv
<1>1. Spec => []TypeInv /\ []HostInv /\ []QueueInv
  BY TypeInvariant, HostInvariant, QueueInvariant
<1>2. TypeInv /\ HostInv /\ QueueInv => LinkInv
  BY DEF LinkInv
<1> QED
  BY <1>1, <1>2, LedsImplementLink, PTL

LEMMA UpAndDown ==
  ASSUME LinkInv, LedsTypeOK, NothingCarriedOver
  PROVE  /\ LinkUp => /\ announced' # None
                      /\ leds' = FALSE /\ UNCHANGED <<linkLeds, light, grabbed>>
                      /\ ~replaced' => ~replaced /\ ~leds /\ ~linkLeds
         /\ LinkDown => /\ leds' = FALSE /\ ~replaced'
                        /\ announced = None => UNCHANGED <<light, written>>
                        /\ announced # None =>
                             /\ light' = IF grabbed THEN consoleLock ELSE light
                             /\ written' = FALSE
<1> USE DEF LinkInv
<1>1. announced # None <=> Connected
  BY LinkAssumption DEF TypeInv, TypeOK, HostInv, QueueInv, AnnouncedIsConnected,
     Connected, Kind
<1>2. ASSUME LinkUp
      PROVE  /\ announced' # None
             /\ leds' = FALSE /\ UNCHANGED <<linkLeds, light, grabbed>>
             /\ ~replaced' => ~replaced /\ ~leds /\ ~linkLeds
  <2>1. announced' # None
    BY <1>2, LinkAssumption DEF LinkUp, AdoptInterrupt, InterruptUp, TypeInv
  <2>2. replaced' = (Connected \/ replaced) /\ leds' = FALSE
        /\ UNCHANGED <<linkLeds, light, grabbed>>
    BY <1>2 DEF LinkUp, ConnectionUp
  <2> QED
    BY <1>1, <2>1, <2>2 DEF NothingCarriedOver, LedsTypeOK
<1>3. ASSUME LinkDown
      PROVE  /\ leds' = FALSE /\ ~replaced'
             /\ announced = None => UNCHANGED <<light, written>>
             /\ announced # None =>
                  /\ light' = IF grabbed THEN consoleLock ELSE light
                  /\ written' = FALSE
  BY <1>1, <1>3 DEF LinkDown, ConnectionDown, NothingCarriedOver, LedsTypeOK
<1> QED
  BY <1>2, <1>3

(***************************************************************************)
(* The lights.  Session writes them for whoever has the keyboard, and what *)
(* a connection finds written is the console's lock or none, unless it     *)
(* came over another.                                                      *)
(***************************************************************************)
LightInv ==
  /\ replaced => announced # None
  /\ ~grabbed => light = consoleLock
  /\ grabbed /\ written => light = leds
  /\ light /\ ~replaced => leds \/ consoleLock

LEMMA LightInductive ==
  ASSUME LinkInv, LedsTypeOK, NothingCarriedOver, LightInv, [LedsNext]_vars
  PROVE  LightInv'
<1> USE DEF LightInv
<1>1. CASE LinkUp
  BY <1>1, UpAndDown DEF LinkUp, ConnectionUp, fixed, LedsTypeOK, NothingCarriedOver
<1>2. CASE LinkDown
  <2>1. UNCHANGED <<consoleLock, grabbed>>
    BY <1>2 DEF LinkDown, fixed
  <2>2. /\ leds' = FALSE /\ ~replaced'
        /\ announced = None => UNCHANGED <<light, written>>
        /\ announced # None =>
             /\ light' = IF grabbed THEN consoleLock ELSE light
             /\ written' = FALSE
    BY <1>2, UpAndDown
  <2>3. CASE announced = None
    <3>1. leds = FALSE /\ ~replaced
      BY <2>3 DEF NothingCarriedOver, LedsTypeOK
    <3>2. light' = light /\ written' = written
      BY <2>2, <2>3
    <3>3. ~grabbed' => light' = consoleLock'
      BY <2>1, <3>2
    <3>4. grabbed' /\ written' => light' = leds'
      BY <2>1, <2>2, <3>1, <3>2
    <3>5. light' => consoleLock'
      BY <2>1, <3>1, <3>2
    <3> QED
      BY <2>2, <3>3, <3>4, <3>5
  <2>4. CASE announced # None
    BY <2>1, <2>2, <2>4 DEF LedsTypeOK
  <2> QED
    BY <2>3, <2>4
<1>3. CASE LinkOther
  BY <1>3 DEF LinkOther, ledsVars, lights, fixed, Leave, Open, Refuse,
     AdoptControl, Reconnect, ControlUp, DialFailed
<1>4. CASE PressLock
  BY <1>4 DEF PressLock, NoteLockKey, ApplyLeds, fixed, linkVars, LedsTypeOK
<1>5. CASE ReadReport
  BY <1>5 DEF ReadReport, HostLeds, ApplyLeds, lights, fixed, linkVars, LedsTypeOK
<1>6. CASE HostActs \/ HostResends
  BY <1>6 DEF HostActs, HostResends, lights, fixed, linkVars
<1>7. CASE Take \/ Release
  BY <1>7 DEF Take, Release, fixed, linkVars
<1>8. CASE UNCHANGED vars
  BY <1>8 DEF vars, linkVars, ledsVars, lights, fixed
<1> QED
  BY <1>1, <1>2, <1>3, <1>4, <1>5, <1>6, <1>7, <1>8 DEF LedsNext

\* The light is the console's whenever the console has the keyboard, and the
\* phone's lock once Session has written it since the link came or went,
\* whatever lock the console has; none is left on for a lock nobody has, but
\* after a connection that came over one btkey had not read as gone
\* (push_leds, restore_leds): where hosts keep no half of a connection.
THEOREM LightIsOwners ==
  ASSUME NoHalves
  PROVE  LedsSpec => []LightIsTheOwners
<1>1. LedsInit => LightInv
  BY DEF LedsInit, LightInv
<1>2. /\ LinkInv /\ LedsTypeOK /\ NothingCarriedOver /\ LightInv
      /\ [LedsNext]_vars
      => LightInv'
  BY LightInductive
<1>3. LightInv => LightIsTheOwners
  BY DEF LightInv, LightIsTheOwners
<1> QED
  BY <1>1, <1>2, <1>3, LinkInvariant, LedsTypeCorrect, NothingIsCarriedOver,
     PTL DEF LedsSpec

-----------------------------------------------------------------------------
(***************************************************************************)
(* The lock.  Reports tell of it in the order it changes, so that the last *)
(* one on its way, or the link's copy, is what it is.  Until one has been  *)
(* believed, what Session infers counts the keys that were pressed, and    *)
(* what the host has not acted on is what they differ by.                  *)
(***************************************************************************)
OneKind == {"silentlock", "mixed", "unheard"} \cap LedEnvironment = {}

Odd(n) == n % 2 = 1

LastTold == IF reports = <<>> THEN linkLeds ELSE reports[Len(reports)]

\* No report on its way says anything but what the link takes a host that
\* has not reported to have.
NoneLit == \A i \in 1..Len(reports) : ~reports[i]

KnownInv ==
  /\ reporting \in {{}, Host}
  /\ reporting = {} => reports = <<>> /\ ~fromHost
  /\ ~replaced =>
       /\ reporting # {} => LastTold = lock
       /\ fromHost => leds = linkLeds
       /\ ~fromHost /\ NoneLit => ((leds <=> lock) <=> ~Odd(keys))

LEMMA ReportFacts ==
  ASSUME NEW s \in Seq(BOOLEAN)
  PROVE  /\ \A on \in BOOLEAN :
              /\ Append(s, on) # <<>> /\ Len(Append(s, on)) = Len(s) + 1
              /\ Append(s, on)[Len(s) + 1] = on
              /\ \A i \in 1..Len(s) : Append(s, on)[i] = s[i]
         /\ s # <<>> =>
              /\ Len(s) \in Nat \ {0} /\ Head(s) = s[1]
              /\ Len(Tail(s)) = Len(s) - 1
              /\ \A i \in 1..(Len(s) - 1) : Tail(s)[i] = s[i + 1]
OBVIOUS

LEMMA OddNext ==
  ASSUME NEW n \in Nat
  PROVE  Odd(n + 1) <=> ~Odd(n)
BY DEF Odd

LEMMA KnownInductive ==
  ASSUME OneKind, LinkInv, LedsTypeOK, NothingCarriedOver, KnownInv,
         [LedsNext]_vars
  PROVE  KnownInv'
<1> USE LinkAssumption DEF KnownInv
<1>a. /\ reports \in Seq(BOOLEAN) /\ keys \in Nat
      /\ linkLeds \in BOOLEAN /\ lock \in BOOLEAN /\ leds \in BOOLEAN
      /\ linkLeds => fromHost
  BY LedsAssumption DEF LedsTypeOK
<1>b. Alive => announced \in Host
  BY AliveIsAnnounced DEF LinkInv, TypeInv, TypeOK
<1>1. CASE LinkUp
  <2>1. /\ reporting' = reporting /\ fromHost' = fromHost /\ keys' = 0
        /\ \/ lock' = FALSE /\ reports' = <<>>
           \/ lock' = TRUE /\ announced' \in reporting /\ reports' = <<TRUE>>
    BY <1>1 DEF LinkUp, ConnectionUp, Greeting, fixed, OneKind
  <2>2. leds' = FALSE /\ (~replaced' => linkLeds' = FALSE)
    BY <1>a, <1>1, UpAndDown
  <2>3. ~Odd(keys')
    BY <2>1 DEF Odd
  <2>4. CASE lock' = FALSE /\ reports' = <<>>
    BY <1>a, <2>1, <2>2, <2>3, <2>4 DEF LastTold
  <2>5. CASE lock' = TRUE /\ announced' \in reporting /\ reports' = <<TRUE>>
    <3>1. Len(reports') = 1 /\ reports'[1] = TRUE /\ reports' # <<>>
      BY <2>5
    <3> QED
      <4>1. ~NoneLit' /\ LastTold' = TRUE
        BY <3>1 DEF NoneLit, LastTold
      <4>2. reporting' # {} /\ reporting' = reporting
        BY <2>1, <2>5
      <4> QED
        BY <2>1, <2>2, <2>5, <4>1, <4>2
  <2> QED
    BY <2>1, <2>4, <2>5
<1>2. CASE LinkDown
  <2>1. /\ linkLeds' = FALSE /\ lock' = FALSE /\ keys' = 0 /\ reports' = <<>>
        /\ UNCHANGED <<fromHost, reporting>>
    BY <1>2 DEF LinkDown, fixed
  <2>2. leds' = FALSE /\ ~Odd(0)
    BY <1>2, UpAndDown DEF Odd
  <2> QED
    BY <2>1, <2>2 DEF LastTold
<1>3. CASE LinkOther \/ Take \/ Release \/ UNCHANGED vars
  BY <1>3 DEF LinkOther, Take, Release, vars, ledsVars, flight, lights, fixed,
     LastTold, NoneLit
<1>4. CASE PressLock
  <2>1. /\ keys' = keys + 1
        /\ UNCHANGED <<lock, reports, linkLeds, fromHost, reporting, replaced>>
        /\ leds' = IF fromHost THEN leds ELSE ~leds
    BY <1>4 DEF PressLock, NoteLockKey, ApplyLeds, fixed, OneKind
  <2>2. Odd(keys') <=> ~Odd(keys)
    BY <1>a, <2>1, OddNext
  <2> QED
    BY <1>a, <2>1, <2>2 DEF LastTold, NoneLit
<1>5. CASE HostActs
  <2>1. /\ keys > 0 /\ keys' = keys - 1 /\ lock' = ~lock /\ announced \in Host
        /\ UNCHANGED <<linkLeds, leds, fromHost, reporting, replaced>>
        /\ reports' = IF announced \in reporting THEN Append(reports, ~lock)
                                                 ELSE reports
    BY <1>b, <1>5 DEF HostActs, lights, fixed
  <2>2. Odd(keys) <=> ~Odd(keys')
    <3>1. keys' \in Nat /\ keys = keys' + 1
      BY <1>a, <2>1
    <3> QED
      BY <3>1, OddNext
  <2>3. CASE reporting = {}
    BY <1>a, <2>1, <2>2, <2>3 DEF NoneLit
  <2>4. CASE reporting = Host
    <3>1. reports' = Append(reports, ~lock)
      BY <2>1, <2>4
    <3>2. /\ reports' # <<>> /\ Len(reports') = Len(reports) + 1
          /\ reports'[Len(reports) + 1] = ~lock
          /\ \A i \in 1..Len(reports) : reports'[i] = reports[i]
      BY <1>a, <3>1, ReportFacts
    <3>3. LastTold' = lock'
      BY <2>1, <3>2 DEF LastTold
    <3>4. ~replaced /\ ~fromHost => ~NoneLit'
      <4> SUFFICES ASSUME ~replaced, ~fromHost, NoneLit' PROVE FALSE
        OBVIOUS
      <4>1. Len(reports) \in Nat
        BY <1>a
      <4>2. lock /\ \A i \in 1..Len(reports) : ~reports[i]
        <5>1. /\ Len(reports) + 1 \in 1..(Len(reports) + 1)
              /\ \A i \in 1..Len(reports) : i \in 1..(Len(reports) + 1)
          BY <4>1
        <5>2. \A i \in 1..(Len(reports) + 1) : ~reports'[i]
          BY <3>2 DEF NoneLit
        <5> QED
          BY <1>a, <3>2, <5>1, <5>2
      <4>3. LastTold = lock
        BY <2>1, <2>4
      <4>4. reports # <<>> => Len(reports) \in 1..Len(reports)
        BY <1>a
      <4> QED
        BY <1>a, <4>2, <4>3, <4>4 DEF LastTold
    <3> QED
      BY <2>1, <2>4, <3>3, <3>4
  <2> QED
    BY <2>3, <2>4
<1>6. CASE HostResends
  <2>1. /\ announced \in reporting /\ reports' = Append(reports, lock)
        /\ UNCHANGED <<lock, keys, linkLeds, leds, fromHost, reporting, replaced>>
    BY <1>6 DEF HostResends, lights, fixed
  <2>2. /\ reports' # <<>> /\ Len(reports') = Len(reports) + 1
        /\ reports'[Len(reports) + 1] = lock
        /\ \A i \in 1..Len(reports) : reports'[i] = reports[i]
    BY <1>a, <2>1, ReportFacts
  <2>3. LastTold' = lock'
    BY <2>1, <2>2 DEF LastTold
  <2>4. NoneLit' => NoneLit
    BY <1>a, <2>2 DEF NoneLit
  <2> QED
    BY <2>1, <2>2, <2>3, <2>4
<1>7. CASE ReadReport
  <2>1. /\ reports # <<>> /\ reports' = Tail(reports)
        /\ UNCHANGED <<lock, keys, reporting, replaced>>
    BY <1>7 DEF ReadReport, fixed
  <2>2. /\ Len(reports) \in Nat \ {0} /\ Head(reports) = reports[1]
        /\ Len(reports') = Len(reports) - 1 /\ reports' \in Seq(BOOLEAN)
        /\ \A i \in 1..(Len(reports) - 1) : reports'[i] = reports[i + 1]
    BY <1>a, <2>1, ReportFacts
  <2>3. reporting = Host
    BY <2>1
  <2>4. linkLeds' = Head(reports)
    BY <1>7 DEF ReadReport, lights, HostLeds
  <2>5. LastTold' = LastTold
    <3>1. CASE reports' = <<>>
      <4>1. Len(reports) = 1
        BY <2>2, <3>1
      <4> QED
        BY <2>1, <2>2, <2>4, <3>1, <4>1 DEF LastTold
    <3>2. CASE reports' # <<>>
      <4>1. Len(reports) - 1 \in 1..(Len(reports) - 1)
        BY <2>2, <3>2
      <4>2. (Len(reports) - 1) + 1 = Len(reports)
        BY <2>2
      <4> QED
        BY <2>1, <2>2, <3>2, <4>1, <4>2 DEF LastTold
    <3> QED
      BY <3>1, <3>2
  <2>6. CASE Head(reports) = linkLeds
    <3>1. UNCHANGED <<linkLeds, leds, fromHost>>
      BY <1>7, <2>6 DEF ReadReport, lights
    <3>2. ~fromHost /\ NoneLit' => NoneLit
      <4> SUFFICES ASSUME ~fromHost, NoneLit', NEW i \in 1..Len(reports)
                   PROVE  ~reports[i]
        BY DEF NoneLit
      <4>1. CASE i = 1
        BY <1>a, <2>2, <2>6, <4>1
      <4>2. CASE i # 1
        <5>1. i - 1 \in 1..(Len(reports) - 1) /\ (i - 1) + 1 = i
          BY <2>2, <4>2
        <5> QED
          BY <2>2, <5>1 DEF NoneLit
      <4> QED
        BY <4>1, <4>2
    <3> QED
      BY <2>1, <2>3, <2>5, <3>1, <3>2
  <2>7. CASE Head(reports) # linkLeds
    <3>1. fromHost' = TRUE /\ leds' = linkLeds'
      BY <1>7, <2>7 DEF ReadReport, HostLeds, ApplyLeds
    <3> QED
      BY <2>1, <2>3, <2>5, <3>1
  <2> QED
    BY <2>6, <2>7
<1> QED
  BY <1>1, <1>2, <1>3, <1>4, <1>5, <1>6, <1>7 DEF LedsNext

\* Once every lock key sent has been acted on and every report read, what
\* Session takes the lock to be is what it is, reported or inferred
\* (note_lock_key, on_host_leds), however many of either were on their way:
\* where hosts all report or none does, one that holds the lock says so when
\* it connects, is told of every lock key, and keeps no half of a connection.
THEOREM KnownLock ==
  ASSUME NoHalves, OneKind
  PROVE  LedsSpec => []LockIsKnown
<1>1. LedsInit => KnownInv
  <2> SUFFICES ASSUME LedsInit PROVE KnownInv
    OBVIOUS
  <2>1. reporting \in {{}, Host}
    BY DEF LedsInit, OneKind
  <2>2. LastTold = FALSE /\ ~Odd(keys)
    BY DEF LedsInit, LastTold, Odd
  <2> QED
    BY <2>1, <2>2 DEF LedsInit, KnownInv
<1>2. /\ LinkInv /\ LedsTypeOK /\ NothingCarriedOver /\ KnownInv
      /\ [LedsNext]_vars
      => KnownInv'
  BY KnownInductive
<1>3. LedsTypeOK /\ KnownInv => LockIsKnown
  <2> SUFFICES ASSUME LedsTypeOK, KnownInv, ~replaced, keys = 0, reports = <<>>
               PROVE  leds = lock
    BY DEF LockIsKnown
  <2>1. LastTold = linkLeds /\ ~Odd(keys)
    BY DEF LastTold, Odd
  <2>2. Len(reports) = 0 /\ NoneLit
    BY DEF NoneLit
  <2> QED
    BY <2>1, <2>2 DEF KnownInv, LedsTypeOK
<1> QED
  BY <1>1, <1>2, <1>3, LinkInvariant, LedsTypeCorrect, NothingIsCarriedOver,
     PTL DEF LedsSpec
=============================================================================
