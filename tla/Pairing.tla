------------------------------- MODULE Pairing -------------------------------
(***************************************************************************)
(* Entering a passkey: btlink.Agent, which BlueZ asks for one, and         *)
(* pairing.Pairing, which collects its digits from the keyboard.           *)
(*                                                                         *)
(* Returning from RequestPasskey answers nothing: the answer is a message  *)
(* of its own, sent when the digits are in, when the entry is given up, or *)
(* never.  D-Bus keeps the order of messages each way, and BlueZ may       *)
(* withdraw a call, and make another, while an answer is on its way.       *)
(***************************************************************************)
EXTENDS Naturals, Sequences

CONSTANTS
  MaxCalls,    \* how many passkeys BlueZ asks for
  Lengths,     \* how many digits one has (4 or 6)
  Environment  \* {"retry"} if BlueZ asks again without withdrawing

ASSUME PairingAssumption ==
  /\ MaxCalls \in Nat \ {0}
  /\ Lengths \subseteq Nat \ {0} /\ Lengths # {}
  /\ Environment \subseteq {"retry"}

Calls == 1..MaxCalls

None == 0

VARIABLES
  made,     \* how many calls BlueZ has made
  asked,    \* the call BlueZ waits for an answer to, or None
  inbox,    \* BlueZ's messages to btkey
  outbox,   \* btkey's answers to BlueZ, the first of which it has heard
  heard,    \* how many of them it has
  pending,  \* the call whose callbacks the Agent holds, or None
  digits,   \* how many digits are typed, while Pairing.active
  active,   \* Pairing.active
  length,   \* Pairing.length
  timers,   \* the calls whose entry's timeout is running
  timeout,  \* the one Pairing.timeout names, or None
  replaced  \* the calls whose request found an entry still open

bluez == <<made, asked, heard>>
entry == <<digits, active, length, timers, timeout, replaced>>
vars  == <<bluez, inbox, outbox, pending, entry>>

-----------------------------------------------------------------------------
(***************************************************************************)
(* BlueZ.                                                                  *)
(***************************************************************************)
Request ==
  /\ made < MaxCalls
  /\ asked = None \/ "retry" \in Environment
  /\ made' = made + 1 /\ asked' = made + 1
  /\ \E n \in Lengths :
       inbox' = Append(inbox, [kind |-> "request", call |-> made + 1, n |-> n])
  /\ UNCHANGED <<heard, outbox, pending, entry>>

Withdraw ==
  /\ asked # None
  /\ asked' = None
  /\ inbox' = Append(inbox, [kind |-> "cancel", call |-> asked, n |-> 0])
  /\ UNCHANGED <<made, heard, outbox, pending, entry>>

\* An answer to any call but the one it waits for means nothing to BlueZ.
Hear ==
  /\ heard < Len(outbox)
  /\ heard' = heard + 1
  /\ asked' = IF outbox[heard + 1].call = asked THEN None ELSE asked
  /\ UNCHANGED <<made, inbox, outbox, pending, entry>>

-----------------------------------------------------------------------------
(***************************************************************************)
(* The Agent.                                                              *)
(***************************************************************************)
Answer(call, kind) == Append(outbox, [call |-> call, kind |-> kind])

\* Mutant: the callbacks are kept once used.
MutReply(call, kind) == outbox' = Answer(call, kind) /\ pending' = call

\* The stored callback used, if there is one, and forgotten.
Reply(call, kind) ==
  /\ outbox' = IF call = None THEN outbox ELSE Answer(call, kind)
  /\ pending' = None

AbandonPasskey(call) == Reply(call, "canceled")

-----------------------------------------------------------------------------
(***************************************************************************)
(* Pairing.                                                                *)
(***************************************************************************)

\* Mutant: the timeout left running.
MutClear == active' = FALSE /\ digits' = 0 /\ UNCHANGED <<timers, timeout>>

\* clear, but for answering the agent
Clear ==
  /\ active' = FALSE
  /\ digits' = 0
  /\ timers' = timers \ {timeout}
  /\ timeout' = None

\* RequestPasskey or RequestPinCode, and on_request.  The new callbacks are
\* stored before the entry they replace is cleared.
OnRequest ==
  /\ inbox # <<>> /\ Head(inbox).kind = "request"
  /\ LET c == Head(inbox).call
     IN  /\ IF active THEN AbandonPasskey(c)
                      ELSE pending' = c /\ UNCHANGED outbox
         /\ timers' = (timers \ {timeout}) \cup {c}
         /\ timeout' = c
         /\ replaced' = IF active THEN replaced \cup {c} ELSE replaced
  /\ active' = TRUE /\ digits' = 0
  /\ length' = Head(inbox).n
  /\ inbox' = Tail(inbox)
  /\ UNCHANGED bluez

\* Mutant: the entry is left open when BlueZ cancels.
MutOnCancel ==
  /\ inbox # <<>> /\ Head(inbox).kind = "cancel"
  /\ AbandonPasskey(pending)
  /\ inbox' = Tail(inbox)
  /\ UNCHANGED <<bluez, entry>>

\* Agent.Cancel, and on_cancelled
OnCancel ==
  /\ inbox # <<>> /\ Head(inbox).kind = "cancel"
  /\ AbandonPasskey(pending)
  /\ \/ active /\ Clear
     \/ ~active /\ UNCHANGED <<active, digits, timers, timeout>>
  /\ inbox' = Tail(inbox)
  /\ UNCHANGED <<bluez, length, replaced>>

Submit == Clear /\ Reply(pending, "passkey")

\* handle_key, by what the key pressed is
Digit ==
  /\ active
  /\ \/ digits + 1 < length
        /\ digits' = digits + 1
        /\ UNCHANGED <<active, timers, timeout, outbox, pending>>
     \/ digits + 1 >= length /\ Submit
  /\ UNCHANGED <<bluez, inbox, length, replaced>>

Backspace ==
  /\ active /\ digits > 0
  /\ digits' = digits - 1
  /\ UNCHANGED <<bluez, inbox, outbox, pending, active, length, timers, timeout,
                 replaced>>

Enter ==
  /\ active
  /\ Submit
  /\ UNCHANGED <<bluez, inbox, length, replaced>>

\* Mutant: given up without telling the agent.
MutGiveUp == active /\ Clear /\ UNCHANGED <<outbox, pending>>

GiveUp == active /\ Clear /\ AbandonPasskey(pending)

Escape == GiveUp /\ UNCHANGED <<bluez, inbox, length, replaced>>

\* A timeout expires: abandon, for whatever entry is being made by then.
Abandon ==
  /\ timers # {}
  /\ GiveUp
  /\ UNCHANGED <<bluez, inbox, length, replaced>>

-----------------------------------------------------------------------------
Init ==
  /\ made = 0 /\ asked = None
  /\ inbox = <<>> /\ outbox = <<>> /\ heard = 0
  /\ pending = None
  /\ digits = 0 /\ active = FALSE /\ length \in Lengths
  /\ timers = {} /\ timeout = None /\ replaced = {}

Bluez == Request \/ Withdraw \/ Hear
User  == Digit \/ Backspace \/ Enter \/ Escape
Next  == Bluez \/ OnRequest \/ OnCancel \/ User \/ Abandon

Spec == Init /\ [][Next]_vars

\* Messages arrive, and a timeout expires; nobody has to type anything.
FairSpec ==
  /\ Spec
  /\ WF_vars(Hear) /\ WF_vars(OnRequest) /\ WF_vars(OnCancel)
  /\ WF_vars(Abandon)
-----------------------------------------------------------------------------
(***************************************************************************)
(* Properties.                                                             *)
(***************************************************************************)

Message ==
  [kind : {"request"}, call : Calls, n : Lengths]
    \cup [kind : {"cancel"}, call : Calls, n : {0}]

\* Every variable keeps to its type, and an entry never holds the digit that
\* would have submitted it.
TypeOK ==
  /\ made \in 0..MaxCalls /\ asked \in 0..made
  /\ inbox \in Seq(Message)
  /\ outbox \in Seq([call : Calls, kind : {"passkey", "canceled"}])
  /\ heard \in 0..Len(outbox)
  /\ pending \in Calls \cup {None}
  /\ length \in Lengths /\ active \in BOOLEAN
  /\ digits \in Nat /\ digits < length
  /\ timers \in SUBSET Calls /\ timeout \in timers \cup {None}
  /\ replaced \in SUBSET Calls

\* The passkey is asked for at the console exactly while BlueZ's call can be
\* answered: what is typed has somewhere to go, and no call is left half open
\* with nobody at the console asked (on_request, abandon_passkey).  An entry
\* that took the place of another is the one exception: clearing that one has
\* refused the new call already.
PromptIsLive ==
  /\ pending # None => active /\ pending = timeout
  /\ active /\ timeout \notin replaced => pending = timeout

\* No call is answered twice: the callbacks are for one use (Agent).
OneAnswerEach ==
  \A i, j \in DOMAIN outbox : outbox[i].call = outbox[j].call => i = j

\* The one timeout running is that of the entry being made, so that no entry
\* is cut short by the timeout of the one before (on_request, clear).
TimeoutIsOfEntry == timers = IF active THEN {timeout} ELSE {}

\* BlueZ is never left waiting: every call is answered in the end, or it
\* withdraws it, though nobody types (abandon, abandon_passkey).
EveryCallSettled == \A c \in Calls : asked = c ~> asked # c
=============================================================================
