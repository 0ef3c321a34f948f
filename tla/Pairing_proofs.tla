---------------------------- MODULE Pairing_proofs ----------------------------
(***************************************************************************)
(* Entering a passkey, for any number of calls and any lengths: no call is *)
(* answered twice, the timeout running is the entry's own, and, as long as *)
(* BlueZ withdraws a call before it makes another, the console is asked    *)
(* exactly while there is a call to answer.                                *)
(*                                                                         *)
(* And of the other thing btkey and bluetoothd say to each other, the      *)
(* class of device: that one that lost the wanted bits is never forgotten. *)
(***************************************************************************)
EXTENDS Pairing, Advertising, SequenceTheorems, TLAPS

Answers == [call : Calls, kind : {"passkey", "canceled"}]

LEMMA TypeFacts ==
  ASSUME TypeOK
  PROVE  /\ made \in Nat /\ made <= MaxCalls /\ MaxCalls \in Nat
         /\ asked \in Nat /\ asked <= made
         /\ pending \in Calls \cup {None} /\ Calls \subseteq Nat \ {0}
         /\ inbox \in Seq(Message) /\ outbox \in Seq(Answers)
         /\ heard \in 0..Len(outbox)
         /\ Len(inbox) \in Nat /\ Len(outbox) \in Nat
  BY PairingAssumption DEF TypeOK, Answers, Calls, None

LEMMA InboxRead ==
  ASSUME TypeOK, inbox # <<>>
  PROVE  /\ Head(inbox) = inbox[1] /\ Head(inbox) \in Message
         /\ Tail(inbox) \in Seq(Message)
         /\ Len(inbox) \in Nat \ {0} /\ Len(Tail(inbox)) = Len(inbox) - 1
         /\ \A i \in 1..Len(Tail(inbox)) : Tail(inbox)[i] = inbox[i + 1]
<1>1. inbox \in Seq(Message)
  BY TypeFacts
<1> QED
  BY <1>1

LEMMA InboxSent ==
  ASSUME TypeOK, NEW m \in Message
  PROVE  /\ Append(inbox, m) \in Seq(Message)
         /\ Append(inbox, m) # <<>>
         /\ Len(Append(inbox, m)) = Len(inbox) + 1
         /\ Append(inbox, m)[Len(inbox) + 1] = m
         /\ \A i \in 1..Len(inbox) : Append(inbox, m)[i] = inbox[i]
         /\ inbox # <<>> => Head(Append(inbox, m)) = Head(inbox)
         /\ inbox = <<>> => Head(Append(inbox, m)) = m
<1>1. inbox \in Seq(Message)
  BY TypeFacts
<1> QED
  BY <1>1

LEMMA Answered ==
  ASSUME TypeOK, NEW c \in Calls, NEW k \in {"passkey", "canceled"}
  PROVE  /\ Answer(c, k) \in Seq(Answers)
         /\ Len(Answer(c, k)) = Len(outbox) + 1
         /\ Answer(c, k)[Len(outbox) + 1].call = c
         /\ \A i \in 1..Len(outbox) : Answer(c, k)[i] = outbox[i]
<1>1. outbox \in Seq(Answers) /\ [call |-> c, kind |-> k] \in Answers
  BY TypeFacts DEF Answers
<1> QED
  BY <1>1 DEF Answer

-----------------------------------------------------------------------------
(***************************************************************************)
(* What a step of Pairing may do, by whether it reads a message, and what  *)
(* becomes of the pending call.                                            *)
(***************************************************************************)

\* What the keyboard or the timeout does to an entry: one more digit or one
\* less, or the entry left and the pending call, if any, answered.
Typing == Digit \/ Backspace \/ Enter \/ Escape \/ Abandon

LEMMA TypingFacts ==
  ASSUME Typing
  PROVE  /\ active /\ UNCHANGED <<bluez, inbox, length, replaced>>
         /\ \/ /\ UNCHANGED <<active, timers, timeout, outbox, pending>>
               /\ \/ digits + 1 < length /\ digits' = digits + 1
                  \/ digits > 0 /\ digits' = digits - 1
            \/ /\ Clear
               /\ \E k \in {"passkey", "canceled"} : Reply(pending, k)
<1>1. CASE Digit
  BY <1>1 DEF Digit, Submit
<1>2. CASE Backspace
  BY <1>2 DEF Backspace
<1>3. CASE Enter
  BY <1>3 DEF Enter, Submit
<1>4. CASE Escape \/ Abandon
  BY <1>4 DEF Escape, Abandon, GiveUp, AbandonPasskey
<1> QED
  BY <1>1, <1>2, <1>3, <1>4 DEF Typing

LEMMA ReplyType ==
  ASSUME TypeOK, NEW c \in Calls \cup {None}, NEW k \in {"passkey", "canceled"}, Reply(c, k)
  PROVE  /\ outbox' \in Seq(Answers) /\ Len(outbox) <= Len(outbox')
         /\ pending' = None
<1>1. CASE c = None
  BY <1>1, TypeFacts DEF Reply, None
<1>2. CASE c # None
  <2>1. c \in Calls
    BY <1>2
  <2> QED
    BY <1>2, <2>1, Answered, TypeFacts DEF Reply
<1> QED
  BY <1>1, <1>2

-----------------------------------------------------------------------------
LEMMA ClearType ==
  ASSUME TypeOK, Clear
  PROVE  /\ active' = FALSE /\ digits' \in Nat /\ digits' = 0 /\ 0 < length
         /\ timers' \in SUBSET Calls /\ timeout' \in timers' \cup {None}
<1>1. timers \in SUBSET Calls /\ length \in Nat \ {0}
  BY PairingAssumption DEF TypeOK
<1> QED
  BY <1>1 DEF Clear

LEMMA TypeInductive == TypeOK /\ [Next]_vars => TypeOK'
<1> SUFFICES ASSUME TypeOK, [Next]_vars PROVE TypeOK'
  OBVIOUS
<1>0. /\ made \in Nat /\ asked \in 0..made
      /\ length \in Lengths /\ length \in Nat /\ digits \in Nat
      /\ digits < length
  BY TypeFacts, PairingAssumption DEF TypeOK
<1>1. CASE Request
  <2>1. PICK n \in Lengths :
          inbox' = Append(inbox, [kind |-> "request", call |-> made + 1, n |-> n])
    BY <1>1 DEF Request
  <2>2. [kind |-> "request", call |-> made + 1, n |-> n] \in Message
    BY <1>1, TypeFacts DEF Request, Message, Calls
  <2>3. inbox' \in Seq(Message)
    BY <2>1, <2>2, InboxSent
  <2> QED
    BY <1>1, <2>3, TypeFacts DEF Request, entry, TypeOK
<1>2. CASE Withdraw
  <2>1. [kind |-> "cancel", call |-> asked, n |-> 0] \in Message
    BY <1>2, TypeFacts DEF Withdraw, Message, Calls, None
  <2>2. inbox' \in Seq(Message)
    BY <1>2, <2>1, InboxSent DEF Withdraw
  <2> QED
    BY <1>2, <2>2, TypeFacts DEF Withdraw, entry, TypeOK, None
<1>3. CASE Hear
  <2>1. asked' \in 0..made
    BY <1>3, <1>0, TypeFacts DEF Hear, None
  <2>2. heard' \in 0..Len(outbox)
    BY <1>3, TypeFacts DEF Hear
  <2> QED
    BY <1>3, <2>1, <2>2 DEF Hear, entry, TypeOK
<1>4. CASE OnRequest
  <2> DEFINE m == Head(inbox)
  <2>1. /\ inbox # <<>> /\ inbox' = Tail(inbox) /\ m.kind = "request"
        /\ length' = m.n /\ digits' = 0 /\ active' = TRUE
        /\ timeout' = m.call /\ timers' = (timers \ {timeout}) \cup {m.call}
        /\ replaced' \in {replaced, replaced \cup {m.call}}
        /\ UNCHANGED <<made, asked, heard>>
    BY <1>4 DEF OnRequest, bluez
  <2>2. m.call \in Calls /\ m.n \in Lengths /\ inbox' \in Seq(Message)
    BY <2>1, InboxRead DEF Message
  <2>3. /\ outbox' \in Seq(Answers) /\ Len(outbox) <= Len(outbox')
        /\ pending' \in Calls \cup {None}
    <3>1. CASE active
      BY <1>4, <2>2, <3>1, ReplyType DEF OnRequest, AbandonPasskey
    <3>2. CASE ~active
      BY <1>4, <2>2, <3>2, TypeFacts DEF OnRequest
    <3> QED
      BY <3>1, <3>2
  <2>4. heard' \in 0..Len(outbox')
    BY <2>1, <2>3, TypeFacts
  <2>5. \A n \in Lengths : n \in Nat /\ 0 < n
    BY PairingAssumption
  <2> HIDE DEF m
  <2> QED
    BY <1>0, <2>1, <2>2, <2>3, <2>4, <2>5 DEF TypeOK, Answers
<1>5. CASE OnCancel
  <2>1. /\ inbox' \in Seq(Message) /\ UNCHANGED <<made, asked, heard, length, replaced>>
        /\ Reply(pending, "canceled")
    BY <1>5, InboxRead DEF OnCancel, AbandonPasskey, bluez
  <2>2. /\ outbox' \in Seq(Answers) /\ Len(outbox) <= Len(outbox')
        /\ pending' = None
    BY <2>1, ReplyType, TypeFacts
  <2>3. heard' \in 0..Len(outbox')
    BY <2>1, <2>2, TypeFacts
  <2>4. /\ active' \in BOOLEAN /\ digits' \in Nat /\ digits' < length
        /\ timers' \in SUBSET Calls /\ timeout' \in timers' \cup {None}
    <3>1. CASE Clear
      BY <3>1, ClearType
    <3>2. CASE UNCHANGED <<active, digits, timers, timeout>>
      BY <3>2, <1>0 DEF TypeOK
    <3> QED
      BY <1>5, <3>1, <3>2 DEF OnCancel
  <2> QED
    BY <1>0, <2>1, <2>2, <2>3, <2>4 DEF TypeOK, Answers
<1>6. CASE Typing
  <2>1. UNCHANGED <<made, asked, heard, inbox, length, replaced>>
    BY <1>6, TypingFacts DEF bluez
  <2>2. /\ outbox' \in Seq(Answers) /\ Len(outbox) <= Len(outbox')
        /\ pending' \in Calls \cup {None}
    <3>1. CASE UNCHANGED <<outbox, pending>>
      BY <3>1, TypeFacts
    <3>2. CASE \E k \in {"passkey", "canceled"} : Reply(pending, k)
      BY <3>2, ReplyType, TypeFacts
    <3> QED
      BY <1>6, <3>1, <3>2, TypingFacts
  <2>3. heard' \in 0..Len(outbox')
    BY <2>1, <2>2, TypeFacts
  <2>4. /\ active' \in BOOLEAN /\ digits' \in Nat /\ digits' < length
        /\ timers' \in SUBSET Calls /\ timeout' \in timers' \cup {None}
    <3>1. CASE Clear
      BY <3>1, ClearType
    <3>2. CASE /\ UNCHANGED <<active, timers, timeout>>
               /\ \/ digits + 1 < length /\ digits' = digits + 1
                  \/ digits > 0 /\ digits' = digits - 1
      <4>1. digits' \in Nat /\ digits' < length
        BY <3>2, <1>0
      <4> QED
        BY <3>2, <4>1 DEF TypeOK
    <3> QED
      BY <1>6, <3>1, <3>2, TypingFacts
  <2> QED
    BY <1>0, <2>1, <2>2, <2>3, <2>4 DEF TypeOK, Answers
<1>7. CASE UNCHANGED vars
  BY <1>7 DEF vars, bluez, entry, TypeOK
<1> QED
  BY <1>1, <1>2, <1>3, <1>4, <1>5, <1>6, <1>7 DEF Next, Bluez, User, Typing

\* Every variable keeps to its type, and no entry holds the digit that would
\* have submitted it, however many calls are made and whatever their lengths.
THEOREM TypeCorrect == Spec => []TypeOK
<1>1. Init => TypeOK
  <2>1. <<>> \in Seq(Message) /\ <<>> \in Seq(Answers) /\ Len(<<>>) = 0
    OBVIOUS
  <2>2. 0 \in 0..MaxCalls /\ 0 \in 0..0 /\ 0 \in Nat
    BY PairingAssumption
  <2>3. \A n \in Lengths : 0 < n
    BY PairingAssumption
  <2> SUFFICES ASSUME Init PROVE TypeOK
    OBVIOUS
  <2>4. /\ inbox \in Seq(Message) /\ outbox \in Seq(Answers)
        /\ heard \in 0..Len(outbox)
    BY <2>1, <2>2 DEF Init
  <2>5. made \in 0..MaxCalls /\ asked \in 0..made /\ digits < length
    BY <2>2, <2>3 DEF Init, None
  <2> QED
    BY <2>2, <2>4, <2>5 DEF Init, TypeOK, Answers
<1> QED
  BY <1>1, TypeInductive, PTL DEF Spec

-----------------------------------------------------------------------------
(***************************************************************************)
(* The timeout.                                                            *)
(***************************************************************************)

\* The one timeout running is that of the entry being made, whatever BlueZ
\* asks and withdraws (on_request, clear).
THEOREM TimeoutIsItsOwn == Spec => []TimeoutIsOfEntry
<1>1. Init => TimeoutIsOfEntry
  BY DEF Init, TimeoutIsOfEntry
<1>2. TimeoutIsOfEntry /\ [Next]_vars => TimeoutIsOfEntry'
  <2> SUFFICES ASSUME TimeoutIsOfEntry, [Next]_vars PROVE TimeoutIsOfEntry'
    OBVIOUS
  <2> USE DEF TimeoutIsOfEntry
  <2>1. CASE Bluez \/ UNCHANGED vars
    BY <2>1 DEF Bluez, Request, Withdraw, Hear, entry, vars
  <2>2. CASE OnRequest
    BY <2>2 DEF OnRequest
  <2>3. CASE OnCancel
    BY <2>3 DEF OnCancel, Clear
  <2>4. CASE Typing
    BY <2>4, TypingFacts DEF Clear
  <2> QED
    BY <2>1, <2>2, <2>3, <2>4 DEF Next, User, Typing
<1> QED
  BY <1>1, <1>2, PTL DEF Spec

-----------------------------------------------------------------------------
(***************************************************************************)
(* One answer each.  Every call goes from the inbox to the entry, and from *)
(* there, or directly, to the outbox, and is never in two of the three.    *)
(***************************************************************************)
Unread(c) ==
  \E i \in 1..Len(inbox) : inbox[i].kind = "request" /\ inbox[i].call = c

Said(c) == \E j \in 1..Len(outbox) : outbox[j].call = c

Distinct ==
  \A i, j \in 1..Len(inbox) :
    /\ inbox[i].kind = "request" /\ inbox[j].kind = "request"
    /\ inbox[i].call = inbox[j].call
    => i = j

Once == \A i, j \in 1..Len(outbox) : outbox[i].call = outbox[j].call => i = j

FreshInv ==
  /\ pending # None => pending <= made
  /\ \A c \in Calls : Unread(c) => c <= made /\ c # pending /\ ~Said(c)
  /\ \A c \in Calls : Said(c) => c <= made /\ c # pending
  /\ Distinct /\ Once

LEMMA ReplySays ==
  ASSUME TypeOK, NEW c \in Calls \cup {None}, NEW k \in {"passkey", "canceled"},
         Reply(c, k), Once, c # None => ~Said(c)
  PROVE  /\ \A d \in Calls : Said(d)' => Said(d) \/ d = c
         /\ pending' = None /\ Once'
<1>1. CASE c = None
  BY <1>1 DEF Reply, Said, Once
<1>2. CASE c # None
  <2>1. /\ outbox' = Answer(c, k) /\ Len(outbox) \in Nat
        /\ Len(outbox') = Len(outbox) + 1
        /\ outbox'[Len(outbox) + 1].call = c
        /\ \A i \in 1..Len(outbox) : outbox'[i] = outbox[i]
    BY <1>2, Answered, TypeFacts DEF Reply
  <2>2. \A i \in 1..Len(outbox') : i \in 1..Len(outbox) \/ i = Len(outbox) + 1
    BY <2>1
  <2>3. \A i \in 1..Len(outbox) : outbox'[i].call # c
    BY <1>2, <2>1 DEF Said
  <2>4. Once'
    BY <2>1, <2>2, <2>3 DEF Once
  <2>5. ASSUME NEW d \in Calls, Said(d)' PROVE Said(d) \/ d = c
    BY <2>1, <2>2, <2>5 DEF Said
  <2> QED
    BY <2>4, <2>5, <1>2 DEF Reply
<1> QED
  BY <1>1, <1>2

LEMMA ReadKeeps ==
  ASSUME TypeOK, inbox # <<>>, inbox' = Tail(inbox), Distinct
  PROVE  /\ Distinct'
         /\ \A d \in Calls : Unread(d)' => Unread(d)
         /\ Head(inbox).kind = "request" =>
              /\ Unread(Head(inbox).call)
              /\ \A d \in Calls : Unread(d)' => d # Head(inbox).call
<1>1. /\ Head(inbox) = inbox[1] /\ Len(inbox) \in Nat \ {0}
      /\ Len(inbox') = Len(inbox) - 1
      /\ \A i \in 1..Len(inbox') : inbox'[i] = inbox[i + 1]
  BY InboxRead
<1>2. \A i \in 1..Len(inbox') : i + 1 \in 1..Len(inbox) /\ i + 1 # 1
  BY <1>1
<1>3. 1 \in 1..Len(inbox)
  BY <1>1
<1>4. Distinct'
  <2> SUFFICES ASSUME NEW i \in 1..Len(inbox'), NEW j \in 1..Len(inbox'),
                      inbox'[i].kind = "request", inbox'[j].kind = "request",
                      inbox'[i].call = inbox'[j].call
               PROVE  i = j
    BY DEF Distinct
  <2>1. i + 1 = j + 1
    BY <1>1, <1>2 DEF Distinct
  <2> QED
    BY <2>1
<1>5. \A d \in Calls : Unread(d)' => Unread(d)
  BY <1>1, <1>2 DEF Unread
<1>6. ASSUME Head(inbox).kind = "request"
      PROVE  /\ Unread(Head(inbox).call)
             /\ \A d \in Calls : Unread(d)' => d # Head(inbox).call
  <2>1. Unread(Head(inbox).call)
    BY <1>1, <1>3, <1>6 DEF Unread
  <2>2. \A i \in 1..Len(inbox') :
          inbox'[i].kind = "request" => inbox'[i].call # Head(inbox).call
    BY <1>1, <1>2, <1>3, <1>6 DEF Distinct
  <2> QED
    BY <2>1, <2>2 DEF Unread
<1> QED
  BY <1>4, <1>5, <1>6

LEMMA FreshInductive == TypeOK /\ FreshInv /\ [Next]_vars => FreshInv'
<1> SUFFICES ASSUME TypeOK, FreshInv, [Next]_vars PROVE FreshInv'
  OBVIOUS
<1> USE DEF FreshInv
<1>1. CASE Request
  <2>1. PICK n \in Lengths :
          inbox' = Append(inbox, [kind |-> "request", call |-> made + 1, n |-> n])
    BY <1>1 DEF Request
  <2> DEFINE m == [kind |-> "request", call |-> made + 1, n |-> n]
  <2>2. m \in Message /\ made + 1 \in Calls
    BY <1>1, TypeFacts DEF Request, Message, Calls
  <2>3. /\ Len(inbox) \in Nat /\ Len(inbox') = Len(inbox) + 1
        /\ inbox'[Len(inbox) + 1] = m
        /\ \A i \in 1..Len(inbox) : inbox'[i] = inbox[i]
    BY <2>1, <2>2, InboxSent, TypeFacts
  <2>4. \A i \in 1..Len(inbox') : i \in 1..Len(inbox) \/ i = Len(inbox) + 1
    BY <2>3
  <2>5. \A d \in Calls : Unread(d)' => Unread(d) \/ d = made + 1
    BY <2>3, <2>4 DEF Unread
  <2>6. ~Unread(made + 1) /\ ~Said(made + 1) /\ pending # made + 1
    BY <2>2, TypeFacts DEF None
  <2>7. Distinct'
    BY <2>3, <2>4, <2>6 DEF Distinct, Unread
  <2>8. made' = made + 1 /\ UNCHANGED <<outbox, pending>>
    BY <1>1 DEF Request
  <2>9. \A d \in Calls : Said(d)' <=> Said(d)
    BY <2>8 DEF Said
  <2>10. Once'
    BY <2>8 DEF Once
  <2>11. \A d \in Nat : d <= made \/ d = made + 1 => d <= made'
    BY <2>8, TypeFacts
  <2> HIDE DEF m, FreshInv
  <2>12. \A d \in Calls : Unread(d)' => d <= made' /\ d # pending' /\ ~Said(d)'
    BY <2>5, <2>6, <2>8, <2>9, <2>11, TypeFacts DEF FreshInv
  <2>13. \A d \in Calls : Said(d)' => d <= made' /\ d # pending'
    BY <2>8, <2>9, <2>11, TypeFacts DEF FreshInv
  <2>14. pending' # None => pending' <= made'
    BY <2>8, <2>11, TypeFacts DEF FreshInv
  <2> QED
    BY <2>7, <2>10, <2>12, <2>13, <2>14 DEF FreshInv
<1>2. CASE Withdraw
  <2> DEFINE m == [kind |-> "cancel", call |-> asked, n |-> 0]
  <2>1. m \in Message
    BY <1>2, TypeFacts DEF Withdraw, Message, Calls, None
  <2>2. /\ Len(inbox) \in Nat /\ Len(inbox') = Len(inbox) + 1
        /\ inbox'[Len(inbox) + 1] = m
        /\ \A i \in 1..Len(inbox) : inbox'[i] = inbox[i]
    BY <1>2, <2>1, InboxSent, TypeFacts DEF Withdraw
  <2>3. \A i \in 1..Len(inbox') : i \in 1..Len(inbox) \/ i = Len(inbox) + 1
    BY <2>2
  <2>4. \A d \in Calls : Unread(d)' => Unread(d)
    BY <2>2, <2>3 DEF Unread
  <2>5. Distinct'
    BY <2>2, <2>3 DEF Distinct
  <2>6. UNCHANGED <<made, outbox, pending>>
    BY <1>2 DEF Withdraw
  <2> QED
    BY <2>4, <2>5, <2>6 DEF Said, Once
<1>3. CASE Hear \/ UNCHANGED vars
  <2>1. UNCHANGED <<made, inbox, outbox, pending>>
    BY <1>3 DEF Hear, vars, bluez
  <2> QED
    BY <2>1 DEF Unread, Said, Distinct, Once
<1>4. CASE OnRequest
  <2> DEFINE c == Head(inbox).call
  <2>1. /\ inbox # <<>> /\ inbox' = Tail(inbox) /\ Head(inbox).kind = "request"
        /\ made' = made
        /\ \/ active /\ Reply(c, "canceled")
           \/ pending' = c /\ UNCHANGED outbox
    BY <1>4 DEF OnRequest, AbandonPasskey, bluez
  <2>2. /\ Distinct' /\ Unread(c)
        /\ \A d \in Calls : Unread(d)' => Unread(d) /\ d # c
    BY <2>1, ReadKeeps
  <2>3. c \in Calls /\ c # None
    BY <2>1, InboxRead, TypeFacts DEF Message, None
  <2>4. c <= made /\ ~Said(c)
    BY <2>2, <2>3
  <2> HIDE DEF c
  <2>5. CASE Reply(c, "canceled")
    <3>1. /\ \A d \in Calls : Said(d)' => Said(d) \/ d = c
          /\ pending' = None /\ Once'
      BY <2>3, <2>4, <2>5, ReplySays
    <3> QED
      BY <2>1, <2>2, <2>3, <2>4, <3>1, TypeFacts DEF None
  <2>6. CASE pending' = c /\ UNCHANGED outbox
    <3>1. \A d \in Calls : Said(d)' <=> Said(d)
      BY <2>6 DEF Said
    <3>2. Once'
      BY <2>6 DEF Once
    <3> QED
      BY <2>1, <2>2, <2>3, <2>4, <2>6, <3>1, <3>2
  <2> QED
    BY <2>1, <2>5, <2>6
<1>5. CASE OnCancel
  <2>1. /\ inbox # <<>> /\ inbox' = Tail(inbox) /\ made' = made
        /\ Reply(pending, "canceled")
    BY <1>5 DEF OnCancel, AbandonPasskey, bluez
  <2>2. Distinct' /\ \A d \in Calls : Unread(d)' => Unread(d)
    BY <2>1, ReadKeeps
  <2>3. pending \in Calls \cup {None} /\ (pending # None => ~Said(pending))
    BY TypeFacts
  <2>4. /\ \A d \in Calls : Said(d)' => Said(d) \/ d = pending
        /\ pending' = None /\ Once'
    BY <2>1, <2>3, ReplySays
  <2> QED
    BY <2>1, <2>2, <2>3, <2>4, TypeFacts DEF None
<1>6. CASE Typing
  <2>1. UNCHANGED <<made, inbox>>
    BY <1>6, TypingFacts DEF bluez
  <2>2. Distinct' /\ \A d \in Calls : Unread(d)' <=> Unread(d)
    BY <2>1 DEF Distinct, Unread
  <2>3. pending \in Calls \cup {None} /\ (pending # None => ~Said(pending))
    BY TypeFacts
  <2>4. CASE UNCHANGED <<outbox, pending>>
    BY <2>1, <2>2, <2>4 DEF Said, Once
  <2>5. CASE \E k \in {"passkey", "canceled"} : Reply(pending, k)
    <3>1. /\ \A d \in Calls : Said(d)' => Said(d) \/ d = pending
          /\ pending' = None /\ Once'
      BY <2>3, <2>5, ReplySays
    <3> QED
      BY <2>1, <2>2, <2>3, <3>1, TypeFacts DEF None
  <2> QED
    BY <1>6, <2>4, <2>5, TypingFacts
<1> QED
  BY <1>1, <1>2, <1>3, <1>4, <1>5, <1>6 DEF Next, Bluez, User, Typing

LEMMA FreshInvariant == Spec => []FreshInv
<1>1. Init => FreshInv
  BY DEF Init, FreshInv, Unread, Said, Distinct, Once
<1> QED
  BY <1>1, FreshInductive, TypeCorrect, PTL DEF Spec

\* No call is answered twice, for any number of calls, withdrawn, retried or
\* answered at whatever moment: the callbacks are for one use (Agent).
THEOREM AnsweredOnce == Spec => []OneAnswerEach
<1>1. TypeOK /\ FreshInv => OneAnswerEach
  <2> SUFFICES ASSUME TypeOK, FreshInv PROVE OneAnswerEach
    OBVIOUS
  <2>1. DOMAIN outbox = 1..Len(outbox)
    BY TypeFacts
  <2> QED
    BY <2>1 DEF FreshInv, Once, OneAnswerEach
<1> QED
  BY <1>1, TypeCorrect, FreshInvariant, PTL

-----------------------------------------------------------------------------
(***************************************************************************)
(* The prompt.  Requests and withdrawals alternate in the inbox, and while *)
(* an entry is open the first of them is the withdrawal of its call, or    *)
(* there is none and BlueZ still waits.                                    *)
(***************************************************************************)
NoRetry == "retry" \notin Environment

Newest == inbox[Len(inbox)]

TurnInv ==
  /\ inbox # <<>> => asked = IF Newest.kind = "request" THEN Newest.call ELSE None
  /\ \A i \in 1..Len(inbox), j \in 1..Len(inbox) :
       j = i + 1 => inbox[i].kind # inbox[j].kind

Prompted == active <=> pending # None

PromptInv ==
  /\ Prompted
  /\ active => IF inbox = <<>> THEN asked = pending ELSE Head(inbox).kind = "cancel"

LEMMA NewestFacts ==
  ASSUME TypeOK, inbox # <<>>
  PROVE  /\ Len(inbox) \in Nat \ {0} /\ Len(inbox) \in 1..Len(inbox)
         /\ Newest \in Message /\ Head(inbox) = inbox[1]
<1>1. inbox \in Seq(Message)
  BY TypeFacts
<1> QED
  BY <1>1 DEF Newest

\* A message that differs in kind from the newest keeps them alternating.
LEMMA TurnSent ==
  ASSUME TypeOK, TurnInv, NEW m \in Message, inbox' = Append(inbox, m),
         inbox # <<>> => Newest.kind # m.kind,
         asked' = IF m.kind = "request" THEN m.call ELSE None
  PROVE  TurnInv'
<1>1. /\ Len(inbox) \in Nat /\ Len(inbox') = Len(inbox) + 1
      /\ inbox'[Len(inbox) + 1] = m
      /\ \A i \in 1..Len(inbox) : inbox'[i] = inbox[i]
  BY InboxSent, TypeFacts
<1>2. Newest' = m
  BY <1>1 DEF Newest
<1>3. ASSUME NEW i \in 1..Len(inbox'), NEW j \in 1..Len(inbox'), j = i + 1
      PROVE  inbox'[i].kind # inbox'[j].kind
  <2>1. i \in 1..Len(inbox)
    BY <1>1, <1>3
  <2>2. CASE j \in 1..Len(inbox)
    BY <1>1, <1>3, <2>1, <2>2 DEF TurnInv
  <2>3. CASE j \notin 1..Len(inbox)
    <3>1. j = Len(inbox) + 1 /\ i = Len(inbox)
      BY <1>1, <1>3, <2>3
    <3>2. inbox # <<>>
      BY <1>1, <2>1, TypeFacts
    <3> QED
      BY <1>1, <2>1, <3>1, <3>2 DEF Newest
  <2> QED
    BY <2>2, <2>3
<1> QED
  BY <1>2, <1>3 DEF TurnInv

\* Reading leaves them alternating: what is left starts with the other kind.
LEMMA TurnRead ==
  ASSUME TypeOK, TurnInv, inbox # <<>>, inbox' = Tail(inbox), asked' = asked
  PROVE  /\ TurnInv'
         /\ inbox' # <<>> => Head(inbox').kind # Head(inbox).kind
         /\ inbox' = <<>> => Newest = Head(inbox)
<1>1. /\ Head(inbox) = inbox[1] /\ Len(inbox) \in Nat \ {0}
      /\ inbox' \in Seq(Message) /\ Len(inbox') = Len(inbox) - 1
      /\ \A i \in 1..Len(inbox') : inbox'[i] = inbox[i + 1]
  BY InboxRead
<1>2. \A i \in 1..Len(inbox') : i + 1 \in 1..Len(inbox)
  BY <1>1
<1>3. ASSUME inbox' # <<>>
      PROVE  Newest' = Newest /\ Head(inbox').kind # Head(inbox).kind
  <2>1. Len(inbox') \in 1..Len(inbox') /\ 1 \in 1..Len(inbox')
        /\ Head(inbox') = inbox'[1]
    BY <1>1, <1>3
  <2>2. Newest' = Newest
    BY <1>1, <2>1 DEF Newest
  <2>3. inbox'[1] = inbox[2] /\ 1 \in 1..Len(inbox) /\ 2 \in 1..Len(inbox)
    BY <1>1, <2>1
  <2> QED
    BY <1>1, <2>1, <2>2, <2>3 DEF TurnInv
<1>4. inbox' = <<>> => Newest = Head(inbox)
  <2>1. inbox' = <<>> => Len(inbox') = 0
    OBVIOUS
  <2> QED
    BY <1>1, <2>1 DEF Newest
<1>5. \A i \in 1..Len(inbox'), j \in 1..Len(inbox') :
        j = i + 1 => inbox'[i].kind # inbox'[j].kind
  <2> SUFFICES ASSUME NEW i \in 1..Len(inbox'), NEW j \in 1..Len(inbox'), j = i + 1
               PROVE  inbox'[i].kind # inbox'[j].kind
    OBVIOUS
  <2>1. i + 1 \in 1..Len(inbox) /\ j + 1 \in 1..Len(inbox) /\ j + 1 = (i + 1) + 1
    BY <1>2
  <2> QED
    BY <1>1, <2>1 DEF TurnInv
<1> QED
  BY <1>3, <1>4, <1>5 DEF TurnInv

LEMMA PromptInductive ==
  ASSUME NoRetry, TypeOK, FreshInv, TurnInv, PromptInv, [Next]_vars
  PROVE  TurnInv' /\ PromptInv'
<1> USE DEF PromptInv, Prompted
<1>1. CASE Request
  <2>1. PICK n \in Lengths :
          inbox' = Append(inbox, [kind |-> "request", call |-> made + 1, n |-> n])
    BY <1>1 DEF Request
  <2> DEFINE m == [kind |-> "request", call |-> made + 1, n |-> n]
  <2>2. m \in Message /\ m.kind = "request" /\ m.call = made + 1
    BY <1>1, TypeFacts DEF Request, Message, Calls
  <2>3. asked = None /\ asked' = made + 1 /\ UNCHANGED <<active, pending>>
    BY <1>1 DEF Request, NoRetry, entry
  <2>4. inbox # <<>> => Newest.kind # "request"
    <3> SUFFICES ASSUME inbox # <<>>, Newest.kind = "request" PROVE FALSE
      OBVIOUS
    <3>1. Newest.call = None /\ Newest.call \in Calls
      BY <2>3, NewestFacts DEF TurnInv, Message
    <3> QED
      BY <3>1, TypeFacts DEF None
  <2> HIDE DEF m
  <2>5. TurnInv'
    BY <2>1, <2>2, <2>3, <2>4, TurnSent DEF m
  <2>6. active => inbox # <<>>
    BY <2>3
  <2>7. inbox # <<>> => inbox' # <<>> /\ Head(inbox') = Head(inbox)
    BY <2>1, <2>2, InboxSent DEF m
  <2> QED
    BY <2>3, <2>5, <2>6, <2>7
<1>2. CASE Withdraw
  <2> DEFINE m == [kind |-> "cancel", call |-> asked, n |-> 0]
  <2>1. m \in Message /\ m.kind = "cancel"
    BY <1>2, TypeFacts DEF Withdraw, Message, Calls, None
  <2>2. /\ inbox' = Append(inbox, m) /\ asked # None /\ asked' = None
        /\ UNCHANGED <<active, pending>>
    BY <1>2 DEF Withdraw, entry
  <2> HIDE DEF m
  <2>3. inbox # <<>> => Newest.kind # "cancel"
    BY <2>2 DEF TurnInv
  <2>4. TurnInv'
    BY <2>1, <2>2, <2>3, TurnSent
  <2>5. /\ inbox' # <<>>
        /\ Head(inbox') = IF inbox = <<>> THEN m ELSE Head(inbox)
    BY <2>1, <2>2, InboxSent
  <2> QED
    BY <2>1, <2>2, <2>4, <2>5
<1>3. CASE Hear
  <2>1. /\ heard + 1 \in 1..Len(outbox)
        /\ asked' = (IF outbox[heard + 1].call = asked THEN None ELSE asked)
        /\ UNCHANGED <<inbox, active, pending>>
    BY <1>3, TypeFacts DEF Hear, entry
  <2>2. asked \in Calls /\ ~Said(asked) => asked' = asked
    BY <2>1 DEF Said
  <2>3. inbox # <<>> /\ Newest.kind = "request" => asked' = asked
    <3> SUFFICES ASSUME inbox # <<>>, Newest.kind = "request" PROVE asked' = asked
      OBVIOUS
    <3>1. asked = Newest.call /\ Newest.call \in Calls
      BY NewestFacts DEF TurnInv, Message
    <3>2. Unread(asked)
      BY <3>1, NewestFacts DEF Unread, Newest
    <3> QED
      BY <2>2, <3>1, <3>2 DEF FreshInv
  <2>4. active /\ inbox = <<>> => asked' = asked
    <3> SUFFICES ASSUME active, inbox = <<>> PROVE asked' = asked
      OBVIOUS
    <3>1. asked = pending /\ pending \in Calls
      BY TypeFacts
    <3> QED
      BY <2>2, <3>1 DEF FreshInv
  <2>5. inbox # <<>> /\ Newest.kind # "request" => asked' = None
    BY <2>1 DEF TurnInv
  <2> QED
    BY <2>1, <2>3, <2>4, <2>5 DEF TurnInv, Newest
<1>4. CASE OnRequest
  <2>1. /\ inbox # <<>> /\ inbox' = Tail(inbox) /\ Head(inbox).kind = "request"
        /\ asked' = asked /\ active' = TRUE
    BY <1>4 DEF OnRequest, bluez
  <2>2. ~active
    BY <2>1
  <2>3. pending' = Head(inbox).call
    BY <1>4, <2>2 DEF OnRequest
  <2>4. Head(inbox).call \in Calls /\ Head(inbox).call # None
    BY <2>1, InboxRead, TypeFacts DEF Message, None
  <2>5. /\ TurnInv'
        /\ inbox' # <<>> => Head(inbox').kind # Head(inbox).kind
        /\ inbox' = <<>> => Newest = Head(inbox)
    BY <2>1, TurnRead
  <2>6. inbox' # <<>> => Head(inbox').kind = "cancel"
    <3> SUFFICES ASSUME inbox' # <<>> PROVE Head(inbox').kind = "cancel"
      OBVIOUS
    <3>1. Head(inbox') \in Message
      BY <2>1, InboxRead
    <3> QED
      BY <2>1, <2>5, <3>1 DEF Message
  <2>7. inbox' = <<>> => asked = Head(inbox).call
    BY <2>1, <2>5 DEF TurnInv
  <2> QED
    BY <2>1, <2>3, <2>4, <2>5, <2>6, <2>7
<1>5. CASE OnCancel
  <2>1. /\ inbox # <<>> /\ inbox' = Tail(inbox) /\ asked' = asked
        /\ active' = FALSE /\ pending' = None
    BY <1>5 DEF OnCancel, AbandonPasskey, Reply, Clear, bluez
  <2>2. TurnInv'
    BY <2>1, TurnRead
  <2> QED
    BY <2>1, <2>2
<1>6. CASE Typing
  <2>1. UNCHANGED <<asked, inbox>>
    BY <1>6, TypingFacts DEF bluez
  <2>2. TurnInv'
    BY <2>1 DEF TurnInv, Newest
  <2>3. UNCHANGED <<active, pending>> \/ (active' = FALSE /\ pending' = None)
    BY <1>6, TypingFacts DEF Clear, Reply
  <2> QED
    BY <2>1, <2>2, <2>3
<1>7. CASE UNCHANGED vars
  BY <1>7 DEF vars, bluez, entry, TurnInv, Newest
<1> QED
  BY <1>1, <1>2, <1>3, <1>4, <1>5, <1>6, <1>7 DEF Next, Bluez, User, Typing

\* As long as BlueZ withdraws a call before it makes another, the passkey is
\* asked for at the console exactly while a call can be answered, however
\* answers and withdrawals cross (on_request, abandon_passkey).
THEOREM PromptedInTurn ==
  ASSUME NoRetry
  PROVE  Spec => []Prompted
<1>1. Init => TurnInv /\ PromptInv
  BY DEF Init, TurnInv, PromptInv, Prompted
<1>2. /\ TypeOK /\ FreshInv /\ TurnInv /\ PromptInv /\ [Next]_vars
      => TurnInv' /\ PromptInv'
  BY PromptInductive
<1>3. PromptInv => Prompted
  BY DEF PromptInv
<1> QED
  BY <1>1, <1>2, <1>3, TypeCorrect, FreshInvariant, PTL DEF Spec

\* Whatever BlueZ asks and withdraws, and whenever: a call that waits has an
\* entry open for it, and an entry that replaced no other has its call.
THEOREM PromptAlive == Spec => []PromptIsLive
<1>1. Init => PromptIsLive
  BY DEF Init, PromptIsLive
<1>2. TypeOK /\ PromptIsLive /\ [Next]_vars => PromptIsLive'
  <2> SUFFICES ASSUME TypeOK, PromptIsLive, [Next]_vars PROVE PromptIsLive'
    OBVIOUS
  <2> USE DEF PromptIsLive
  <2>1. CASE Bluez \/ UNCHANGED vars
    BY <2>1 DEF Bluez, Request, Withdraw, Hear, entry, vars
  <2>2. CASE OnRequest
    BY <2>2 DEF OnRequest, AbandonPasskey, Reply
  <2>3. CASE OnCancel
    BY <2>3 DEF OnCancel, AbandonPasskey, Reply, Clear
  <2>4. CASE Typing
    BY <2>4, TypingFacts DEF Reply, Clear
  <2> QED
    BY <2>1, <2>2, <2>3, <2>4 DEF Next, User, Typing
<1> QED
  BY <1>1, <1>2, TypeCorrect, PTL DEF Spec

-----------------------------------------------------------------------------
(***************************************************************************)
(* The class of device (Advertising).                                      *)
(***************************************************************************)
\* What NothingForgotten takes: no write is refused, and a signal that does
\* not come is not that of a class bluetoothd had set just before.
Reliable == ClassEnvironment \cap {"relapse", "writefails", "window"} = {}

LEMMA SignalsAppended ==
  ASSUME NEW c \in Classes, ClassTypeOK, Signalled(c) \/ Unsignalled(c)
  PROVE  signals' \in Seq(Classes)
<1>1. CASE Signalled(c)
  BY <1>1, AppendProperties DEF ClassTypeOK, Signalled
<1>2. CASE Unsignalled(c)
  BY <1>2 DEF ClassTypeOK, Unsignalled
<1> QED BY <1>1, <1>2

LEMMA ClassInitTypeOK == ClassInit => ClassTypeOK
<1>1. <<>> \in Seq(Classes) OBVIOUS
<1>2. 0 \in 0..MaxMoves BY AdvertisingAssumption
<1>3. [writes |-> 0, signals |-> 0] \in [writes : Nat, signals : Nat] OBVIOUS
<1>4. 0 \in Nat OBVIOUS
<1> QED BY <1>1, <1>2, <1>3, <1>4, Zenon DEF ClassInit, ClassTypeOK

\* The class, the wire, the signals and what is remembered keep their types
\* through every step (all of Advertising).
THEOREM ClassTypeCorrect == ClassSpec => []ClassTypeOK
<1>1. ClassInit => ClassTypeOK BY ClassInitTypeOK
<1>2. ClassTypeOK /\ [ClassNext]_classVars => ClassTypeOK'
  <2> SUFFICES ASSUME ClassTypeOK, [ClassNext]_classVars PROVE ClassTypeOK'
    OBVIOUS
  <2>1. CASE Applied
    <3>1. Wanted \in Classes BY AdvertisingAssumption
    <3>2. signals' \in Seq(Classes)
      BY <2>1, <3>1, SignalsAppended DEF Applied, ClassTypeOK
    <3>3. wire' \in Nat BY <2>1 DEF Applied, ClassTypeOK
    <3>4. due' \in [writes : Nat, signals : Nat]
      BY <2>1 DEF Applied, ClassTypeOK, Least
    <3> QED BY <2>1, <3>1, <3>2, <3>3, <3>4 DEF Applied, ClassTypeOK
  <2>2. ASSUME NEW c \in Classes, Recompute(c) PROVE ClassTypeOK'
    <3>1. signals' \in Seq(Classes)
      BY <2>2, SignalsAppended DEF Recompute
    <3> QED BY <2>2, <3>1, AdvertisingAssumption DEF Recompute, ClassTypeOK
  <2>3. CASE StartWrite BY <2>3 DEF StartWrite, Write, ClassTypeOK, adapter
  <2>4. CASE StartWatch BY <2>4 DEF StartWatch, ClassTypeOK, adapter
  <2>5. CASE StartLook
    BY <2>5, LenProperties DEF StartLook, Readings, ClassTypeOK, adapter
  <2>6. CASE ClassChanged
    <3>1. Head(signals) \in Classes /\ Tail(signals) \in Seq(Classes)
      BY <2>6, HeadTailProperties DEF ClassChanged, ClassTypeOK
    <3>2. wire' \in Nat BY <2>6 DEF ClassChanged, PutBack, Write, ClassTypeOK
    <3>3. due' \in [writes : Nat, signals : Nat]
      BY <2>6 DEF ClassChanged, ClassTypeOK
    <3> QED BY <2>6, <3>1, <3>2, <3>3 DEF ClassChanged, ClassTypeOK, adapter
  <2>7. CASE Recheck
    <3>1. wire' \in Nat
      BY <2>7 DEF Recheck, LookSame, LookFirst, LookSecond, PutBack, Write,
                  ClassTypeOK
    <3>2. due' \in [writes : Nat, signals : Nat]
      BY <2>7, <3>1, LenProperties
      DEF Recheck, LookSame, LookFirst, LookSecond, LookAgainLater, ClassTypeOK
    <3>3. /\ seen' \in Classes \cup {NoClass}
          /\ unsignalled' \in Classes \cup {NoClass}
      BY <2>7 DEF Recheck, LookSame, LookFirst, LookSecond, ClassTypeOK
    <3>4. UNCHANGED <<adapter, signals, phase, watched>>
      BY <2>7 DEF Recheck, LookSame, LookFirst, LookSecond, LookAgainLater
    <3> QED BY <3>1, <3>2, <3>3, <3>4 DEF ClassTypeOK, adapter
  <2>8. CASE Stop
    <3>1. <<>> \in Seq(Classes) OBVIOUS
    <3>2. due' \in [writes : Nat, signals : Nat] BY <2>8 DEF Stop, ClassTypeOK
    <3> QED BY <2>8, <3>1, <3>2 DEF Stop, ClassTypeOK, adapter
  <2>9. CASE UNCHANGED classVars BY <2>9 DEF classVars, adapter, ClassTypeOK
  <2> QED
    BY <2>1, <2>2, <2>3, <2>4, <2>5, <2>6, <2>7, <2>8, <2>9
    DEF ClassNext, Bluetoothd, Start
<1> QED BY <1>1, <1>2, PTL DEF ClassSpec

(***************************************************************************)
(* NothingForgotten speaks of an Advertising that has started.  It is      *)
(* inductive once the same is said of its start, which has no difference   *)
(* to go by yet: until it has looked, a wrong class has a write or a       *)
(* signal on its way.                                                      *)
(***************************************************************************)
BadSignal == \E i \in DOMAIN signals : signals[i] \notin Good

StartIsCovered ==
  phase \in {"written", "watching"} /\ class \notin Good =>
    wire > 0 \/ BadSignal

ForgetInv == ClassTypeOK /\ NothingForgotten /\ StartIsCovered

\* A signal of a bad class is a bad signal, and so are those before it.
LEMMA BadSignalAppended ==
  ASSUME NEW c \in Classes, ClassTypeOK, Signalled(c), c \notin Good \/ BadSignal
  PROVE  BadSignal'
<1>1. /\ Len(signals) \in Nat /\ Len(signals') = Len(signals) + 1
      /\ signals'[Len(signals) + 1] = c
      /\ \A i \in 1..Len(signals) : signals'[i] = signals[i]
      /\ DOMAIN signals = 1..Len(signals) /\ DOMAIN signals' = 1..Len(signals')
  BY AppendProperties, LenProperties DEF ClassTypeOK, Signalled
<1>2. CASE c \notin Good BY <1>1, <1>2 DEF BadSignal
<1>3. CASE BadSignal BY <1>1, <1>3 DEF BadSignal
<1> QED BY <1>2, <1>3

LEMMA BadSignalTail ==
  ASSUME ClassTypeOK, signals # <<>>, signals' = Tail(signals), BadSignal,
         Head(signals) \in Good
  PROVE  BadSignal'
<1>1. /\ signals \in Seq(Classes) /\ Len(signals) \in Nat \ {0}
      /\ DOMAIN signals = 1..Len(signals)
      /\ signals[1] = Head(signals)
  BY HeadTailProperties, EmptySeq, LenProperties DEF ClassTypeOK
<1>2. /\ Len(signals') = Len(signals) - 1
      /\ DOMAIN signals' = 1..Len(signals')
      /\ \A i \in 1..Len(signals') : signals'[i] = signals[i + 1]
  BY <1>1, HeadTailProperties
<1>3. PICK i \in 1..Len(signals) : signals[i] \notin Good
  BY <1>1 DEF BadSignal
<1>4. i # 1 BY <1>1, <1>3
<1>5. i - 1 \in 1..Len(signals') /\ signals'[i - 1] = signals[i]
  BY <1>1, <1>2, <1>3, <1>4
<1> QED BY <1>2, <1>3, <1>5 DEF BadSignal

\* A correction is on its way for as long as the class is wrong
\* (class_changed, recheck, put_back), whatever bluetoothd recomputes.
THEOREM NeverForgotten == Reliable /\ ClassSpec => []NothingForgotten
<1> SUFFICES ASSUME Reliable PROVE ClassSpec => []NothingForgotten
  OBVIOUS
<1>1. ClassInit => ForgetInv
  BY ClassInitTypeOK DEF ClassInit, ForgetInv, NothingForgotten, StartIsCovered
<1>2. ForgetInv /\ ClassTypeOK' /\ [ClassNext]_classVars => ForgetInv'
  <2> SUFFICES ASSUME ForgetInv, ClassTypeOK', [ClassNext]_classVars
               PROVE  NothingForgotten' /\ StartIsCovered'
    BY DEF ForgetInv
  <2> USE DEF ForgetInv
  <2>0. /\ "relapse" \notin ClassEnvironment /\ "window" \notin ClassEnvironment
        /\ "writefails" \notin ClassEnvironment
    BY DEF Reliable
  <2>1. CASE Applied
    BY <2>1, AdvertisingAssumption
    DEF Applied, NothingForgotten, StartIsCovered
  <2>2. ASSUME NEW c \in Classes, Recompute(c)
        PROVE  NothingForgotten' /\ StartIsCovered'
    <3>0. class' = c /\ UNCHANGED <<wire, phase, seen, unsignalled>>
      BY <2>2 DEF Recompute
    <3>1. CASE c \in Good
      BY <3>0, <3>1 DEF NothingForgotten, StartIsCovered
    <3>2. CASE c \notin Good /\ Signalled(c)
      <4>1. BadSignal' BY <3>2, BadSignalAppended
      <4> QED BY <4>1 DEF BadSignal, NothingForgotten, StartIsCovered
    <3>3. CASE c \notin Good /\ Unsignalled(c)
      BY <2>0, <3>0, <3>3
      DEF Unsignalled, NothingForgotten, StartIsCovered, ClassTypeOK
    <3> QED BY <2>2, <3>1, <3>2, <3>3 DEF Recompute
  <2>3. CASE StartWrite
    BY <2>0, <2>3 DEF StartWrite, Write, StartIsCovered, NothingForgotten,
                      ClassTypeOK
  <2>4. CASE StartWatch
    BY <2>4 DEF StartWatch, StartIsCovered, NothingForgotten, BadSignal, adapter
  <2>5. CASE StartLook
    BY <2>5 DEF StartLook, StartIsCovered, NothingForgotten, BadSignal, adapter
  <2>6. CASE ClassChanged
    <3>0. /\ phase = "on" /\ phase' = "on" /\ class' = class
          /\ signals # <<>> /\ signals' = Tail(signals)
          /\ seen' = Head(signals) /\ unsignalled' = unsignalled
      BY <2>6 DEF ClassChanged, adapter
    <3>1. CASE Head(signals) \notin Good
      <4>1. wire' > 0
        BY <2>0, <2>6, <3>1 DEF ClassChanged, PutBack, Write, ClassTypeOK
      <4> QED BY <4>1, <3>0 DEF NothingForgotten, StartIsCovered
    <3>2. CASE Head(signals) \in Good
      <4>1. wire' = wire BY <2>6, <3>2 DEF ClassChanged, PutBack
      <4>2. BadSignal => BadSignal' BY <3>0, <3>2, BadSignalTail
      <4> QED
        BY <3>0, <3>2, <4>1, <4>2 DEF NothingForgotten, StartIsCovered,
                                      BadSignal
    <3> QED BY <3>1, <3>2
  <2>7. CASE LookSame
    <3>1. /\ phase = "on" /\ UNCHANGED <<phase, class, wire, signals, seen>>
          /\ unsignalled' = NoClass
      BY <2>7 DEF LookSame, Look, LookAgainLater, adapter
    <3>2. class # NoClass BY AdvertisingAssumption DEF ClassTypeOK
    <3> QED BY <3>1, <3>2 DEF NothingForgotten, StartIsCovered
  <2>8. CASE LookFirst
    <3>1. /\ phase = "on" /\ UNCHANGED <<phase, class>>
      BY <2>8 DEF LookFirst, Look, LookAgainLater, adapter
    <3>2. class \in Good \/ wire' > 0
      BY <2>0, <2>8 DEF LookFirst, PutBack, Write, ClassTypeOK
    <3> QED BY <3>1, <3>2 DEF NothingForgotten, StartIsCovered
  <2>9. CASE LookSecond
    BY <2>9 DEF LookSecond, Look, LookAgainLater, adapter, NothingForgotten,
                StartIsCovered
  <2>10. CASE Stop
    BY <2>10 DEF Stop, NothingForgotten, StartIsCovered
  <2>11. CASE UNCHANGED classVars
    BY <2>11 DEF classVars, adapter, NothingForgotten, StartIsCovered, BadSignal
  <2> QED
    BY <2>1, <2>2, <2>3, <2>4, <2>5, <2>6, <2>7, <2>8, <2>9, <2>10, <2>11
    DEF ClassNext, Bluetoothd, Start, Recheck
<1>3. ForgetInv => NothingForgotten BY DEF ForgetInv
<1> QED BY <1>1, <1>2, <1>3, ClassTypeCorrect, PTL DEF ClassSpec
=============================================================================
