--------------------------------- MODULE Link ---------------------------------
(***************************************************************************)
(* The HID link: btlink.BluetoothHID's two L2CAP channels, control and     *)
(* interrupt, and whose they are.                                          *)
(*                                                                         *)
(* A host opens both, control first, and btkey accepts what waits on its   *)
(* two listeners; or btkey dials the host it remembers, one channel after  *)
(* the other, while hosts go on connecting.  A channel closes from either  *)
(* end, or both do when the host goes out of range, and btkey learns of it *)
(* when it next reads.  A channel the host has closed while it waits on a  *)
(* listener is not there to be accepted any more.                          *)
(***************************************************************************)
CONSTANTS
  Host,        \* the hosts about
  None,        \* no host
  Environment  \* what may happen around btkey; see Events below

(***************************************************************************)
(* A host whose control channel btkey closes leaves its interrupt channel  *)
(* open for btkey to accept; a host connects while btkey dials another, or *)
(* dials it.                                                               *)
(***************************************************************************)
Events == {"halves", "crossing"}

ASSUME LinkAssumption ==
  /\ None \notin Host
  /\ Environment \subseteq Events

Kind == {"control", "interrupt"}

VARIABLES
  channel,    \* BluetoothHID.control and .interrupt: whose they are
  peer,       \* BluetoothHID.peer
  closed,     \* those of them the host has closed
  waiting,    \* for each listener, the hosts to be accepted
  dial,       \* "idle", or the channel being dialled
  dialled,    \* the host reconnect is dialling
  lost,       \* the control channel dialled first has been closed
  known,      \* BluetoothHID._known_host, and what STATE_FILE says
  announced   \* the host Session was last told is connected

channels == <<channel, peer, closed>>
dialling == <<dial, dialled, lost>>
linkVars == <<channels, waiting, dialling, known, announced>>

-----------------------------------------------------------------------------
Connected == \A k \in Kind : channel[k] # None

Has(h, k) == (channel[k] = h /\ k \notin closed) \/ h \in waiting[k]

(***************************************************************************)
(* Hosts.                                                                  *)
(***************************************************************************)
Open(h, k) ==
  /\ ~Has(h, k)
  /\ k = "interrupt" => Has(h, "control")
  /\ dial # "idle" => "crossing" \in Environment
  /\ waiting' = [waiting EXCEPT ![k] = @ \cup {h}]
  /\ UNCHANGED <<channels, dialling, known, announced>>

\* The host disconnects, or goes out of range.
Leave(h) ==
  /\ \E k \in Kind : Has(h, k)
  /\ closed' = closed \cup {k \in Kind : channel[k] = h}
  /\ waiting' = [k \in Kind |-> waiting[k] \ {h}]
  /\ lost' = (lost \/ (dial = "interrupt" /\ dialled = h))
  /\ UNCHANGED <<channel, peer, dial, dialled, known, announced>>

\* A host that loses its control channel gives up the other.
Dropped(hosts) ==
  waiting' = IF "halves" \in Environment THEN waiting
             ELSE [waiting EXCEPT !["interrupt"] = @ \ hosts]

-----------------------------------------------------------------------------
(***************************************************************************)
(* Adopting and disconnecting.                                             *)
(***************************************************************************)
Accepted(h, k) == [waiting EXCEPT ![k] = @ \ {h}]

\* Mutant: a second host is adopted like the first.
MutWelcome(h) == TRUE

\* _on_incoming refuses a second host.
Welcome(h) == peer \in {None, h}

Refuse(h, k) ==
  /\ h \in waiting[k] /\ ~Welcome(h)
  /\ \/ k = "interrupt" /\ waiting' = Accepted(h, k)
     \/ k = "control" /\ waiting' = [Accepted(h, k) EXCEPT !["interrupt"] =
                            IF "halves" \in Environment THEN @ ELSE @ \ {h}]
  /\ UNCHANGED <<channels, dialling, known, announced>>

\* _adopt_control: a control channel there is already is closed
AdoptControl(h) ==
  /\ h \in waiting["control"] /\ Welcome(h)
  /\ waiting' = Accepted(h, "control")
  /\ peer' = h
  /\ channel' = [channel EXCEPT !["control"] = h]
  /\ closed' = closed \ {"control"}
  /\ UNCHANGED <<dialling, known, announced>>

\* _adopt_interrupt: the host is remembered, and Session told.  Of what waits
\* on both listeners the main loop serves the control channel first.
AdoptInterrupt(h) ==
  /\ h \in waiting["interrupt"] /\ Welcome(h)
  /\ channel["control"] = h \/ h \notin waiting["control"]
  /\ waiting' = Accepted(h, "interrupt")
  /\ peer' = h
  /\ channel' = [channel EXCEPT !["interrupt"] = h]
  /\ closed' = closed \ {"interrupt"}
  /\ known' = h
  /\ announced' = h
  /\ UNCHANGED dialling

\* Mutant: Session asked about a link that is already closed, and not told.
MutUntold ==
  /\ channel' = [k \in Kind |-> None]
  /\ peer' = None
  /\ closed' = {}
  /\ Dropped({peer})
  /\ UNCHANGED announced

\* disconnect: only a link that had both channels is said to have gone
Disconnect ==
  /\ channel' = [k \in Kind |-> None]
  /\ peer' = None
  /\ closed' = {}
  /\ announced' = IF Connected THEN None ELSE announced
  /\ Dropped({peer})

\* A read of one channel, or a write to it, finds it closed.
Lost(k) ==
  /\ k \in closed
  /\ Disconnect
  /\ UNCHANGED <<dialling, known>>

\* _handle_hid_control: the virtual cable is unplugged, and the host forgotten
Unplugged ==
  /\ channel["control"] # None /\ "control" \notin closed
  /\ Disconnect
  /\ known' = None
  /\ UNCHANGED dialling

-----------------------------------------------------------------------------
(***************************************************************************)
(* reconnect and _dial.                                                    *)
(***************************************************************************)
Reconnect ==
  /\ ~Connected /\ dial = "idle" /\ known # None
  /\ Has(known, "control") => "crossing" \in Environment
  /\ \A h \in Host \ {known} : Has(h, "control") => "crossing" \in Environment
  /\ dial' = "control" /\ dialled' = known
  /\ UNCHANGED <<channels, waiting, lost, known, announced>>

ControlUp ==
  /\ dial = "control"
  /\ dial' = "interrupt"
  /\ lost' = FALSE
  /\ UNCHANGED <<channels, waiting, dialled, known, announced>>

\* Mutant: the peer not set.
MutInterruptUp ==
  /\ dial = "interrupt"
  /\ channel' = [k \in Kind |-> dialled]
  /\ closed' = IF lost THEN {"control"} ELSE {}
  /\ Dropped({peer} \ {dialled})
  /\ dial' = "idle" /\ lost' = FALSE
  /\ known' = dialled
  /\ announced' = dialled
  /\ UNCHANGED <<peer, dialled>>

\* interrupt_up: both channels adopted, whatever there was instead of them
InterruptUp ==
  /\ dial = "interrupt"
  /\ peer' = dialled
  /\ channel' = [k \in Kind |-> dialled]
  /\ closed' = IF lost THEN {"control"} ELSE {}
  /\ Dropped({peer} \ {dialled})
  /\ dial' = "idle" /\ lost' = FALSE
  /\ known' = dialled
  /\ announced' = dialled
  /\ UNCHANGED dialled

\* Mutant: still said to be connecting when the interrupt channel fails.
MutDialFailed ==
  /\ dial \in Kind
  /\ dial' = IF dial = "control" THEN "idle" ELSE "failed"
  /\ lost' = FALSE
  /\ UNCHANGED <<channels, waiting, dialled, known, announced>>

\* The connect is refused, or times out.
DialFailed ==
  /\ dial # "idle"
  /\ dial' = "idle" /\ lost' = FALSE
  /\ UNCHANGED <<channels, waiting, dialled, known, announced>>

-----------------------------------------------------------------------------
Init ==
  /\ channel = [k \in Kind |-> None] /\ peer = None /\ closed = {}
  /\ waiting = [k \in Kind |-> {}]
  /\ dial = "idle" /\ dialled = None /\ lost = FALSE
  /\ known \in Host \cup {None}
  /\ announced = None

Incoming ==
  \E h \in Host : \/ AdoptControl(h) \/ AdoptInterrupt(h)
                  \/ \E k \in Kind : Refuse(h, k)

Dialled == ControlUp \/ InterruptUp \/ DialFailed

Next ==
  \/ \E h \in Host : Leave(h) \/ \E k \in Kind : Open(h, k)
  \/ Incoming
  \/ Unplugged \/ \E k \in Kind : Lost(k)
  \/ Reconnect \/ Dialled

Spec == Init /\ [][Next]_linkVars

\* A connect has a timeout of its own.
FairSpec == Spec /\ WF_linkVars(Dialled)
-----------------------------------------------------------------------------
(***************************************************************************)
(* Properties.                                                             *)
(***************************************************************************)

\* Every variable keeps to its type; only a channel there is can be closed, and
\* btkey has a peer exactly while it has a channel.
TypeOK ==
  /\ channel \in [Kind -> Host \cup {None}] /\ peer \in Host \cup {None}
  /\ closed \in SUBSET {k \in Kind : channel[k] # None}
  /\ peer # None <=> \E k \in Kind : channel[k] # None
  /\ waiting \in [Kind -> SUBSET Host]
  /\ dial \in {"idle"} \cup Kind /\ dialled \in Host \cup {None}
  /\ lost \in BOOLEAN
  /\ known \in Host \cup {None} /\ announced \in Host \cup {None}

\* Both channels are one host's, the one btkey calls its peer and told
\* Session of, whoever connects and whatever is dialled meanwhile.
OneHost ==
  /\ \A k \in Kind : channel[k] \in {None, peer}
  /\ Connected => announced = peer

\* A host that Session takes for connected has both channels, so that what is
\* typed goes somewhere (_on_state, connected).
AnnouncedIsConnected == announced # None => Connected

\* No host that connects takes over from the one that is connected, before
\* Session has been told that it is gone ("refusing second host"); only a dial
\* of btkey's own may.
SecondHostRefused ==
  [][announced # None /\ announced' \notin {None, announced} =>
       announced' = dialled /\ dial = "interrupt"]_linkVars

\* Every dial ends, so that the next key pressed can dial again.
DialSettles == dial # "idle" ~> dial = "idle"
=============================================================================
