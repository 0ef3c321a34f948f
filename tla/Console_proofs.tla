---------------------------- MODULE Console_proofs ----------------------------
(***************************************************************************)
(* The watchdog for any heartbeat and any deadline: it leaves a btkey in   *)
(* the background alone, kills only one that hangs, and kills it in time.  *)
(* Console, joined to it, adds no behaviour to it; and, whatever the       *)
(* consoles and the times, btkey is never wrong about the console in front *)
(* with nothing on its way to tell it.                                     *)
(***************************************************************************)
EXTENDS Console, TLAPS

Message == {"arm", "disarm", "ping", "done"}

LEMMA TellFacts ==
  ASSUME TypeOK, NEW m \in Message, Tell(m)
  PROVE  /\ pipe' \in Seq(Message) /\ pipe' # <<>>
         /\ Len(pipe') = Len(pipe) + 1 /\ pipe'[Len(pipe) + 1] = m
         /\ \A i \in 1..Len(pipe) : pipe'[i] = pipe[i]
<1>1. pipe \in Seq(Message) /\ pipe' = Append(pipe, m)
  BY DEF TypeOK, Tell, Message
<1> QED
  BY <1>1

LEMMA ReadFacts ==
  ASSUME TypeOK, Read
  PROVE  /\ pipe' \in Seq(Message) /\ Head(pipe) = pipe[1]
         /\ Len(pipe) \in Nat \ {0} /\ Len(pipe') = Len(pipe) - 1
         /\ \A i \in 1..Len(pipe') : pipe'[i] = pipe[i + 1]
         /\ Head(pipe) \in Message
<1>1. pipe \in Seq(Message) /\ pipe # <<>> /\ pipe' = Tail(pipe)
  BY DEF TypeOK, Read, Message
<1> QED
  BY <1>1

-----------------------------------------------------------------------------
LEMMA TypeInductive == TypeOK /\ [Next]_vars => TypeOK'
<1> SUFFICES ASSUME TypeOK, [Next]_vars PROVE TypeOK'
  OBVIOUS
<1> USE WatchdogAssumption
<1>1. CASE WatchMyself
  BY <1>1, TellFacts DEF WatchMyself, guardian, TypeOK, Message
<1>2. CASE TakeKeyboards \/ Block \/ Hang
  <2>1. left' \in Nat
    BY <1>2 DEF TakeKeyboards, Block, Hang, TypeOK
  <2> QED
    BY <1>2, <2>1 DEF TakeKeyboards, Block, Hang, guardian, TypeOK
<1>3. CASE LeaveForeground
  BY <1>3, TellFacts DEF LeaveForeground, UnwatchMyself, guardian, TypeOK, Message
<1>4. CASE Beat
  BY <1>4, TellFacts DEF Beat, guardian, TypeOK, Message
<1>5. CASE Disarm
  BY <1>5, TellFacts DEF Disarm, guardian, TypeOK, Message
<1>6. CASE LastReport \/ GiveBack
  <2>1. left' \in Nat
    <3>1. left' \in 0..MaxBlock \/ left' \in 0..MaxTeardown
      BY ONLY <1>6, Zenon DEF LastReport, GiveBack
    <3> QED
      BY <3>1
  <2>2. hung' \in BOOLEAN
    <3>1. CASE LastReport
      BY ONLY <3>1 DEF LastReport
    <3> QED
      BY <1>6, <3>1 DEF GiveBack, TypeOK
  <2>3. grabbed' \in BOOLEAN
    BY <1>6 DEF LastReport, GiveBack, TypeOK
  <2>4. pc' \in {"released", "closing"}
    BY <1>6 DEF LastReport, GiveBack
  <2> QED
    BY <1>6, <2>1, <2>2, <2>3, <2>4 DEF LastReport, GiveBack, guardian, TypeOK
<1>7. CASE Dismiss
  BY <1>7, TellFacts DEF Dismiss, guardian, TypeOK, Message
<1>8. CASE Crash \/ EndOfFile \/ Kill
  BY <1>8 DEF Crash, EndOfFile, Kill, Die, guardian, btkey, TypeOK
<1>9. CASE Read
  BY <1>9, ReadFacts DEF Read, btkey, TypeOK, Message
<1>10. CASE Tick
  BY <1>10 DEF Tick, TypeOK
<1>11. CASE ComeForward
  <2>1. pc' = "taking" /\ grabbed' \in BOOLEAN /\ left' \in Nat
    BY <1>11 DEF ComeForward
  <2>2. foreground' = TRUE /\ hung' \in BOOLEAN
    BY <1>11, <2>1 DEF ComeForward
  <2>3. UNCHANGED <<beating, beat, pipe, guardian, silence>>
    BY ONLY <1>11 DEF ComeForward
  <2> QED
    BY <2>1, <2>2, <2>3 DEF guardian, TypeOK
<1>12. CASE UNCHANGED vars
  BY <1>12 DEF vars, btkey, guardian, TypeOK
<1> QED
  BY <1>1, <1>2, <1>3, <1>4, <1>5, <1>6, <1>7, <1>8, <1>9, <1>10, <1>11, <1>12
     DEF Next, Session, Guard

\* Every variable keeps to its type, for any times and any pipe.
THEOREM TypeCorrect == Spec => []TypeOK
<1>1. Init => TypeOK
  <2>1. <<>> \in Seq({"arm", "disarm", "ping", "done"})
    OBVIOUS
  <2>2. 0 \in 0..Heartbeat /\ 0 \in Nat
    BY WatchdogAssumption
  <2> QED
    BY ONLY <2>1, <2>2, Zenon DEF Init, TypeOK
<1> QED
  BY <1>1, TypeInductive, PTL DEF Spec

-----------------------------------------------------------------------------
(***************************************************************************)
(* What the guardian will know once it has read the pipe is whether btkey  *)
(* is beating: the last of what arms it and what disarms it says so.       *)
(***************************************************************************)
WillBe(arming) ==
  \E n \in 0..Len(pipe) :
    /\ IF n = 0 THEN armed = arming
                ELSE pipe[n] = IF arming THEN "arm" ELSE "disarm"
    /\ \A i \in n + 1..Len(pipe) : pipe[i] # IF arming THEN "disarm" ELSE "arm"

LEMMA WillBeTold ==
  ASSUME TypeOK, NEW m \in Message, Tell(m), UNCHANGED armed, NEW arming \in BOOLEAN,
         \/ m = IF arming THEN "arm" ELSE "disarm"
         \/ WillBe(arming) /\ m # IF arming THEN "disarm" ELSE "arm"
  PROVE  WillBe(arming)'
<1>1. Len(pipe) \in Nat
  BY DEF TypeOK
<1>2. CASE m = IF arming THEN "arm" ELSE "disarm"
  <2>1. Len(pipe) + 1 \in 0..Len(pipe') /\ Len(pipe) + 1 # 0
    BY <1>1, TellFacts
  <2>2. pipe'[Len(pipe) + 1] = IF arming THEN "arm" ELSE "disarm"
    BY <1>2, TellFacts
  <2>3. \A i \in Len(pipe) + 1 + 1..Len(pipe') : FALSE
    BY <1>1, TellFacts
  <2> QED
    BY <2>1, <2>2, <2>3 DEF WillBe
<1>3. CASE WillBe(arming) /\ m # IF arming THEN "disarm" ELSE "arm"
  <2>1. PICK n \in 0..Len(pipe) :
          /\ IF n = 0 THEN armed = arming
                      ELSE pipe[n] = IF arming THEN "arm" ELSE "disarm"
          /\ \A i \in n + 1..Len(pipe) : pipe[i] # IF arming THEN "disarm" ELSE "arm"
    BY <1>3 DEF WillBe
  <2>2. n \in 0..Len(pipe')
    BY <1>1, TellFacts
  <2>3. IF n = 0 THEN armed' = arming
                 ELSE pipe'[n] = IF arming THEN "arm" ELSE "disarm"
    BY <1>1, <2>1, TellFacts
  <2>4. ASSUME NEW i \in n + 1..Len(pipe')
        PROVE  pipe'[i] # IF arming THEN "disarm" ELSE "arm"
    <3>1. i \in n + 1..Len(pipe) \/ i = Len(pipe) + 1
      BY <1>1, TellFacts
    <3> QED
      BY <1>1, <1>3, <2>1, <3>1, TellFacts
  <2> QED
    BY <2>2, <2>3, <2>4 DEF WillBe
<1> QED
  BY <1>2, <1>3

LEMMA WillBeRead ==
  ASSUME TypeOK, Read, NEW arming \in BOOLEAN, WillBe(arming)
  PROVE  WillBe(arming)'
<1>1. PICK n \in 0..Len(pipe) :
        /\ IF n = 0 THEN armed = arming
                    ELSE pipe[n] = IF arming THEN "arm" ELSE "disarm"
        /\ \A i \in n + 1..Len(pipe) : pipe[i] # IF arming THEN "disarm" ELSE "arm"
  BY DEF WillBe
<1>2. Len(pipe) \in Nat \ {0} /\ Len(pipe') = Len(pipe) - 1 /\ n \in Nat
  BY ReadFacts
<1>3. \A i \in 1..Len(pipe') : pipe'[i] = pipe[i + 1]
  BY ReadFacts
<1>4. armed' = CASE pipe[1] = "arm"    -> TRUE
                 [] pipe[1] = "disarm" -> FALSE
                 [] OTHER              -> armed
  BY ReadFacts DEF Read
<1>5. CASE n \in {0, 1}
  <2>1. armed' = arming
    <3>1. CASE n = 0 /\ pipe[1] # "arm" /\ pipe[1] # "disarm"
      BY <1>1, <1>4, <3>1
    <3>2. CASE pipe[1] = IF arming THEN "arm" ELSE "disarm"
      BY <1>4, <3>2
    <3>3. CASE n = 0 /\ pipe[1] = IF arming THEN "disarm" ELSE "arm"
      BY <1>1, <1>2, <3>3
    <3>4. n = 1 => pipe[1] = IF arming THEN "arm" ELSE "disarm"
      BY <1>1
    <3> QED
      BY <1>5, <3>1, <3>2, <3>3, <3>4
  <2>2. \A i \in 1..Len(pipe') : pipe'[i] # IF arming THEN "disarm" ELSE "arm"
    BY <1>1, <1>2, <1>3, <1>5
  <2>3. 0 \in 0..Len(pipe')
    BY <1>2
  <2> QED
    BY <2>1, <2>2, <2>3 DEF WillBe
<1>6. CASE n > 1
  <2>1. n - 1 \in 0..Len(pipe') /\ n - 1 # 0
    BY <1>2, <1>6
  <2>2. pipe'[n - 1] = IF arming THEN "arm" ELSE "disarm"
    BY <1>1, <1>2, <1>3, <1>6
  <2>3. \A i \in n - 1 + 1..Len(pipe') : pipe'[i] # IF arming THEN "disarm" ELSE "arm"
    BY <1>1, <1>2, <1>3, <1>6
  <2> QED
    BY <2>1, <2>2, <2>3 DEF WillBe
<1> QED
  BY <1>2, <1>5, <1>6

(***************************************************************************)
(* btkey beats while its console is in front, and only then holds the      *)
(* keyboards, until the teardown lets go of them.                          *)
(***************************************************************************)
BeatInv ==
  /\ beating => foreground /\ pc \in {"loop", "killed"}
  /\ foreground /\ pc = "loop" => beating
  /\ pc = "taking" => foreground
  /\ grabbed => foreground /\ pc \in {"loop", "taking", "disarmed", "released"}
  /\ WillBe(beating)

LEMMA BeatInductive == TypeOK /\ BeatInv /\ [Next]_vars => BeatInv'
<1> SUFFICES ASSUME TypeOK, BeatInv, [Next]_vars PROVE BeatInv'
  OBVIOUS
<1> DEFINE Flags == /\ beating => foreground /\ pc \in {"loop", "killed"}
                    /\ foreground /\ pc = "loop" => beating
                    /\ pc = "taking" => foreground
                    /\ grabbed => foreground /\ pc \in {"loop", "taking", "disarmed", "released"}
<1>a. beating \in BOOLEAN /\ Flags /\ WillBe(beating)
  BY DEF BeatInv, TypeOK
<1>b. UNCHANGED <<beating, armed, pipe>> => WillBe(beating)'
  BY <1>a DEF WillBe
<1>c. ASSUME NEW m \in {"arm", "disarm", "ping", "done"}, Tell(m), UNCHANGED armed,
             NEW arming \in BOOLEAN, beating' = arming,
             \/ m = IF arming THEN "arm" ELSE "disarm"
             \/ beating = arming /\ m # IF arming THEN "disarm" ELSE "arm"
      PROVE  WillBe(beating)'
  <2>1. WillBe(arming)'
    BY <1>a, <1>c, WillBeTold DEF Message
  <2> QED
    BY <1>c, <2>1 DEF WillBe
<1>1. CASE WatchMyself
  <2>1. Flags'
    BY <1>1, <1>a DEF WatchMyself
  <2>2. WillBe(beating)'
    BY <1>1, <1>c DEF WatchMyself, guardian
  <2> QED
    BY <2>1, <2>2 DEF BeatInv
<1>2. CASE TakeKeyboards \/ Block \/ Hang
  <2>1. Flags'
    BY <1>2, <1>a DEF TakeKeyboards, Block, Hang, Turning
  <2>2. UNCHANGED <<beating, armed, pipe>>
    BY <1>2 DEF TakeKeyboards, Block, Hang, guardian
  <2> QED
    BY <2>1, <2>2, <1>b DEF BeatInv
<1>3. CASE LeaveForeground
  <2>1. Flags'
    BY <1>3 DEF LeaveForeground, UnwatchMyself, Turning
  <2>2. WillBe(beating)'
    BY <1>3, <1>c DEF LeaveForeground, UnwatchMyself, guardian
  <2> QED
    BY <2>1, <2>2 DEF BeatInv
<1>4. CASE Beat
  <2>1. Flags'
    BY <1>4, <1>a DEF Beat
  <2>2. beating = TRUE /\ beating' = TRUE /\ Tell("ping") /\ UNCHANGED armed
    BY <1>4, <1>a DEF Beat, Due, guardian
  <2>3. WillBe(beating)'
    BY <2>2, <1>c
  <2> QED
    BY <2>1, <2>3 DEF BeatInv
<1>5. CASE Disarm
  <2>1. Flags'
    BY <1>5, <1>a DEF Disarm, Turning
  <2>2. WillBe(beating)'
    BY <1>5, <1>c DEF Disarm, guardian
  <2> QED
    BY <2>1, <2>2 DEF BeatInv
<1>6. CASE LastReport \/ GiveBack
  <2>1. Flags'
    <3>1. /\ \/ pc = "disarmed" /\ pc' = "released" /\ grabbed' = grabbed
             \/ pc = "released" /\ pc' = "closing" /\ grabbed' = FALSE
          /\ UNCHANGED <<foreground, beating>>
      BY ONLY <1>6, Zenon DEF LastReport, GiveBack
    <3> QED
      BY <1>a, <3>1
  <2>2. UNCHANGED <<beating, armed, pipe>>
    BY <1>6 DEF LastReport, GiveBack, guardian
  <2> QED
    BY <2>1, <2>2, <1>b DEF BeatInv
<1>7. CASE Dismiss
  <2>1. Flags'
    BY <1>7, <1>a DEF Dismiss
  <2>2. beating = FALSE /\ beating' = FALSE /\ Tell("done") /\ UNCHANGED armed
    BY <1>7, <1>a DEF Dismiss, guardian
  <2>3. WillBe(beating)'
    BY <2>2, <1>c
  <2> QED
    BY <2>1, <2>3 DEF BeatInv
<1>8. CASE Crash \/ EndOfFile \/ Kill
  <2>1. Flags'
    BY <1>8, <1>a DEF Crash, EndOfFile, Kill, Die, btkey
  <2>2. UNCHANGED <<beating, armed, pipe>>
    BY <1>8 DEF Crash, EndOfFile, Kill, btkey, guardian
  <2> QED
    BY <2>1, <2>2, <1>b DEF BeatInv
<1>9. CASE Read
  <2>1. Flags'
    BY <1>9, <1>a DEF Read, btkey
  <2>2. WillBe(beating)'
    <3>1. ASSUME NEW arming \in BOOLEAN, beating = arming
          PROVE  WillBe(beating)'
      <4>1. WillBe(arming)'
        BY <1>9, <1>a, <3>1, WillBeRead
      <4> QED
        BY <1>9, <3>1, <4>1 DEF WillBe, Read, btkey
    <3> QED
      BY <1>a, <3>1
  <2> QED
    BY <2>1, <2>2 DEF BeatInv
<1>11. CASE ComeForward
  <2>1. Flags'
    BY <1>11, <1>a DEF ComeForward, Turning
  <2>2. UNCHANGED <<beating, armed, pipe>>
    BY <1>11 DEF ComeForward, guardian
  <2> QED
    BY <2>1, <2>2, <1>b DEF BeatInv
<1>10. CASE Tick \/ UNCHANGED vars
  <2>1. Flags'
    BY <1>10, <1>a DEF Tick, vars, btkey
  <2>2. UNCHANGED <<beating, armed, pipe>>
    BY <1>10 DEF Tick, vars, btkey, guardian
  <2> QED
    BY <2>1, <2>2, <1>b DEF BeatInv
<1> QED
  BY <1>1, <1>2, <1>3, <1>4, <1>5, <1>6, <1>7, <1>8, <1>9, <1>10, <1>11
     DEF Next, Session, Guard

LEMMA BeatInvariant == Spec => []BeatInv
<1>1. Init => BeatInv
  <2> SUFFICES ASSUME Init PROVE BeatInv
    OBVIOUS
  <2>1. Len(pipe) = 0
    BY DEF Init
  <2>2. WillBe(FALSE)
    BY <2>1 DEF Init, WillBe
  <2> QED
    BY <2>2 DEF Init, BeatInv, WillBe
<1> QED
  BY <1>1, BeatInductive, TypeCorrect, PTL DEF Spec

\* With the pipe read, the guardian knows.
LEMMA ArmedIsBeating == BeatInv /\ pipe = <<>> => armed = beating
BY DEF BeatInv, WillBe

\* With another console in front btkey holds nothing, and once it has said so
\* the guardian leaves it alone, however long it blocks (watch_myself).
THEOREM LeftAlone == Spec => []BackgroundIsLeftAlone
<1>1. BeatInv => BackgroundIsLeftAlone
  BY ArmedIsBeating DEF BeatInv, BackgroundIsLeftAlone
<1> QED
  BY <1>1, BeatInvariant, PTL

-----------------------------------------------------------------------------
(***************************************************************************)
(* The living are spared.  No second passes while a message waits to be    *)
(* read, so after one the guardian's wait begins with btkey's next         *)
(* heartbeat a whole interval away; from then both count together, and a   *)
(* heartbeat that is due waits for one handler at most.                    *)
(***************************************************************************)
Prompt == Heartbeat < Deadline /\ Heartbeat + MaxBlock <= Deadline

Overdue == IF beat > 0 THEN quiet + beat > Heartbeat
           ELSE quiet >= Deadline \/ (left > 0 /\ quiet + left >= Heartbeat + MaxBlock)

PaceInv ==
  /\ pc = "loop" => left <= MaxBlock
  /\ beating /\ pipe # <<>> => beat = Heartbeat
  /\ pc = "loop" /\ beating /\ ~hung /\ pipe = <<>> => ~Overdue
  /\ guard = "killing" => hung /\ pc = "killed"

LEMMA PaceInductive ==
  ASSUME Prompt, TypeOK, BeatInv, PaceInv, [Next]_vars
  PROVE  PaceInv'
<1> USE WatchdogAssumption DEF PaceInv
<1>1. CASE WatchMyself
  <2>1. pipe' # <<>>
    BY <1>1, TellFacts DEF WatchMyself, Message
  <2> QED
    BY <1>1, <2>1 DEF WatchMyself, guardian
<1>2. CASE TakeKeyboards \/ Hang
  BY <1>2 DEF TakeKeyboards, Hang, Turning, Overdue, guardian
<1>3. CASE Block
  <2>1. /\ beating => beat > 0
        /\ left' \in 1..MaxBlock
        /\ UNCHANGED <<pc, hung, beating, beat, pipe, guard, quiet>>
    BY <1>3 DEF Block, Due, guardian, TypeOK
  <2>2. left' <= MaxBlock
    BY <2>1
  <2> QED
    BY <2>1, <2>2 DEF Overdue
<1>4. CASE LeaveForeground
  BY <1>4 DEF LeaveForeground, UnwatchMyself, Turning, guardian
<1>5. CASE Beat
  <2>1. pipe' # <<>>
    BY <1>5, TellFacts DEF Beat, Message
  <2> QED
    BY <1>5, <2>1 DEF Beat, Turning, guardian
<1>6. CASE Disarm
  BY <1>6 DEF Disarm, Turning, guardian
<1>7. CASE LastReport \/ GiveBack \/ Dismiss
  <2>1. /\ pc \notin {"loop", "killed"} /\ pc' \notin {"loop", "killed"}
        /\ UNCHANGED <<guard, beating>>
    BY ONLY <1>7, Zenon DEF LastReport, GiveBack, Dismiss, guardian
  <2>2. ~beating
    BY <2>1 DEF BeatInv
  <2> QED
    BY <2>1, <2>2
<1>8. CASE Crash \/ EndOfFile
  <2>1. CASE Crash
    BY <2>1 DEF Crash, Gone, Die, guardian
  <2>2. CASE EndOfFile
    BY <2>2 DEF EndOfFile, Gone, btkey
  <2> QED
    BY <1>8, <2>1, <2>2
<1>9. CASE Kill
  <2>1. armed /\ pipe = <<>> /\ quiet >= Deadline /\ pc # "killed"
    BY <1>9 DEF Kill, Expired, Gone
  <2>2. beating /\ pc = "loop"
    BY <2>1, ArmedIsBeating DEF BeatInv
  <2>3. hung
    BY <2>1, <2>2 DEF Overdue, Prompt, TypeOK
  <2> QED
    BY <1>9, <2>3 DEF Kill, Die
<1>10. CASE Read
  <2>1. quiet' = 0 /\ UNCHANGED btkey /\ pipe # <<>>
    BY <1>10 DEF Read
  <2>2. pc' = "loop" /\ beating' => beat' = Heartbeat /\ ~Overdue'
    BY <2>1 DEF btkey, Overdue, TypeOK
  <2> QED
    BY <1>10, <2>1, <2>2 DEF Read, btkey
<1>11. CASE Tick
  <2>1. pipe = <<>> /\ pipe' = pipe /\ ~(Turning /\ Due)
        /\ UNCHANGED <<pc, hung, beating, guard>>
        /\ left' = (IF left > 0 THEN left - 1 ELSE 0)
        /\ beat' = (IF beating /\ beat > 0 THEN beat - 1 ELSE beat)
        /\ quiet' = (IF armed THEN quiet + 1 ELSE quiet)
    BY <1>11 DEF Tick
  <2>2. left' <= left
    BY <2>1 DEF TypeOK
  <2>3. ASSUME pc = "loop", beating, ~hung
        PROVE  ~Overdue'
    <3>1. ~Overdue /\ left <= MaxBlock /\ quiet' = quiet + 1
      BY <2>1, <2>3, ArmedIsBeating
    <3>2. CASE beat > 1
      BY <2>1, <2>3, <3>1, <3>2 DEF Overdue, TypeOK
    <3>3. CASE beat = 1
      BY <2>1, <2>3, <3>1, <3>3 DEF Overdue, Prompt, TypeOK
    <3>4. CASE beat = 0
      <4>1. left > 0
        BY <2>1, <2>3, <3>4 DEF Turning, Due, TypeOK
      <4> QED
        BY <2>1, <2>3, <3>1, <3>4, <4>1 DEF Overdue, Prompt, TypeOK
    <3> QED
      BY <3>2, <3>3, <3>4 DEF TypeOK
  <2> QED
    BY <2>1, <2>2, <2>3 DEF TypeOK
<1>12. CASE UNCHANGED vars
  BY <1>12 DEF vars, btkey, guardian, Overdue
<1>13. CASE ComeForward
  <2>1. pc = "loop" /\ pc' = "taking" /\ ~foreground
        /\ UNCHANGED <<beating, guard>>
    BY ONLY <1>13 DEF ComeForward, Turning, guardian
  <2> QED
    BY <2>1 DEF BeatInv
<1> QED
  BY <1>1, <1>2, <1>3, <1>4, <1>5, <1>6, <1>7, <1>8, <1>9, <1>10, <1>11, <1>12, <1>13
     DEF Next, Session, Guard

\* With a deadline longer than a heartbeat, and no shorter than one kept
\* waiting by the longest handler, the guardian kills only a btkey that hangs
\* (HEARTBEAT_MS and WATCHDOG_SECONDS).
THEOREM LivingSpared ==
  ASSUME Prompt
  PROVE  Spec => []SparesTheLiving
<1>1. Init => PaceInv
  BY WatchdogAssumption DEF Init, PaceInv
<1>2. TypeOK /\ BeatInv /\ PaceInv /\ [Next]_vars => PaceInv'
  BY PaceInductive
<1>3. PaceInv => SparesTheLiving
  BY DEF PaceInv, SparesTheLiving
<1> QED
  BY <1>1, <1>2, <1>3, TypeCorrect, BeatInvariant, PTL DEF Spec

-----------------------------------------------------------------------------
(***************************************************************************)
(* The hung let go.  A btkey that hangs in its main loop has been beating, *)
(* sends nothing more, and is timed by the guardian for at least as long   *)
(* as it has hung.                                                         *)
(***************************************************************************)

\* While there is a btkey, its guardian waits for it.
WatchInv ==
  ~Gone => guard = "watching" /\ \A i \in 1..Len(pipe) : pipe[i] # "done"

LEMMA WatchInductive == TypeOK /\ WatchInv /\ [Next]_vars => WatchInv'
<1> SUFFICES ASSUME TypeOK, WatchInv, [Next]_vars PROVE WatchInv'
  OBVIOUS
<1>a. ASSUME NEW m \in {"arm", "disarm", "ping"}, Tell(m), ~Gone, guard' = guard
      PROVE  WatchInv'
  <2>1. Len(pipe) \in Nat
    BY DEF TypeOK
  <2>2. \A i \in 1..Len(pipe') : pipe'[i] # "done"
    BY <1>a, <2>1, TellFacts DEF WatchInv, Message
  <2> QED
    BY <1>a, <2>2 DEF WatchInv
<1>1. CASE WatchMyself \/ LeaveForeground \/ Beat \/ Disarm
  BY <1>1, <1>a DEF WatchMyself, LeaveForeground, UnwatchMyself,
       Beat, Disarm, Turning, Gone, guardian
<1>2. CASE ComeForward \/ TakeKeyboards \/ Block \/ Hang \/ LastReport \/ GiveBack
  <2>1. ~Gone /\ UNCHANGED <<pipe, guard>>
    BY ONLY <1>2, Zenon DEF ComeForward, TakeKeyboards, Block, Hang, LastReport,
         GiveBack, Turning, Gone, guardian
  <2> QED
    BY <2>1 DEF WatchInv
<1>3. CASE Dismiss \/ Crash \/ Kill
  BY <1>3 DEF Dismiss, Crash, Kill, Die, Gone, WatchInv
<1>4. CASE EndOfFile
  BY <1>4 DEF EndOfFile, btkey, Gone, WatchInv
<1>5. CASE Read
  <2>1. (\A i \in 1..Len(pipe) : pipe[i] # "done") =>
          Head(pipe) # "done" /\ \A i \in 1..Len(pipe') : pipe'[i] # "done"
    BY <1>5, ReadFacts
  <2> QED
    BY <1>5, <2>1 DEF Read, btkey, Gone, WatchInv
<1>6. CASE Tick \/ UNCHANGED vars
  BY <1>6 DEF Tick, vars, btkey, guardian, Gone, WatchInv
<1> QED
  BY <1>1, <1>2, <1>3, <1>4, <1>5, <1>6 DEF Next, Session, Guard

LEMMA WatchInvariant == Spec => []WatchInv
<1>1. Init => WatchInv
  BY DEF Init, WatchInv
<1> QED
  BY <1>1, WatchInductive, TypeCorrect, PTL DEF Spec

HangInv ==
  /\ hung => pc \in {"loop", "taking", "released", "killed"}
  /\ ~hung => silence = 0
  /\ pc = "loop" =>
       /\ pipe # <<>> => silence = 0
       /\ hung /\ grabbed => silence <= quiet
       /\ silence <= Deadline

LEMMA HangInductive ==
  ASSUME TypeOK, BeatInv, WatchInv, HangInv, [Next]_vars
  PROVE  HangInv'
<1> USE WatchdogAssumption DEF HangInv
<1>1. CASE WatchMyself \/ LeaveForeground \/ Beat \/ Disarm
  <2>1. ~hung /\ UNCHANGED <<hung, silence>>
    BY ONLY <1>1, Zenon DEF WatchMyself, LeaveForeground, Beat, Disarm, Turning
  <2> QED
    BY <2>1
<1>2. CASE TakeKeyboards \/ Block
  <2>1. ~hung /\ UNCHANGED <<hung, silence>>
    BY ONLY <1>2, Zenon DEF TakeKeyboards, Block, Turning
  <2> QED
    BY <2>1
<1>3. CASE Hang
  BY <1>3 DEF Hang, Turning, guardian, TypeOK
<1>4. CASE LastReport
  <2>1. pc = "disarmed" /\ pc' = "released" /\ silence' = silence
    BY ONLY <1>4, Zenon DEF LastReport
  <2> QED
    BY <2>1
<1>5. CASE GiveBack \/ Dismiss
  <2>1. /\ ~hung \/ pc = "closing"
        /\ pc' \in {"closing", "gone"} /\ UNCHANGED <<hung, silence>>
    BY ONLY <1>5, Zenon DEF GiveBack, Dismiss
  <2> QED
    BY <2>1
<1>6. CASE Crash \/ Kill
  BY <1>6 DEF Crash, Kill, Die, Gone, guardian
<1>7. CASE EndOfFile
  BY <1>7 DEF EndOfFile, btkey
<1>8. CASE Read
  BY <1>8 DEF Read, btkey
<1>9. CASE Tick
  <2>1. /\ pipe = <<>> /\ pipe' = pipe /\ ~Gone /\ ~Expired
        /\ UNCHANGED <<pc, hung, grabbed, guard>>
        /\ quiet' = (IF armed THEN quiet + 1 ELSE quiet)
        /\ silence' = (IF hung /\ grabbed /\ silence <= Deadline
                       THEN silence + 1 ELSE silence)
    BY <1>9 DEF Tick
  <2>2. CASE hung /\ grabbed /\ pc = "loop"
    <3>1. beating
      BY <2>1, <2>2 DEF BeatInv
    <3>2. armed
      BY <2>1, <3>1, ArmedIsBeating
    <3>3. quiet < Deadline
      BY <2>1, <3>2 DEF WatchInv, Expired, TypeOK
    <3> QED
      BY <2>1, <2>2, <3>1, <3>2, <3>3 DEF TypeOK
  <2>3. CASE ~(hung /\ grabbed /\ pc = "loop")
    BY <2>1, <2>3
  <2> QED
    BY <2>2, <2>3
<1>10. CASE UNCHANGED vars
  BY <1>10 DEF vars, btkey, guardian
<1>11. CASE ComeForward
  <2>1. ~hung /\ pc' = "taking" /\ silence' = silence
    BY ONLY <1>11 DEF ComeForward, Turning
  <2> QED
    BY <2>1
<1> QED
  BY <1>1, <1>2, <1>3, <1>4, <1>5, <1>6, <1>7, <1>8, <1>9, <1>10, <1>11
     DEF Next, Session, Guard

\* A btkey that hangs in its loop with the keyboards grabbed has them for no
\* longer than the deadline, whatever the heartbeat and whatever it had last
\* told the guardian (_guard), and whatever else may happen around it.  It
\* says nothing of a hang between the keyboards taken and the watchdog
\* armed, or after it is disarmed.
THEOREM HangBounded == Spec => []HangIsBounded
<1>1. Init => HangInv
  BY WatchdogAssumption DEF Init, HangInv
<1>2. TypeOK /\ BeatInv /\ WatchInv /\ HangInv /\ [Next]_vars => HangInv'
  BY HangInductive
<1>3. HangInv => HangIsBounded
  BY DEF HangInv, HangIsBounded
<1> QED
  BY <1>1, <1>2, <1>3, TypeCorrect, BeatInvariant, WatchInvariant, PTL DEF Spec
-----------------------------------------------------------------------------
(***************************************************************************)
(* Every step of Console is one of Watchdog, or changes none of it.        *)
(***************************************************************************)
LEMMA PollIsAStep == PollForeground => [Next]_vars
<1>1. CASE InFront /\ ~foreground
  BY <1>1 DEF PollForeground, Next, Session
<1>2. CASE ~InFront /\ foreground
  BY <1>2 DEF PollForeground, Next, Session
<1>3. CASE ~(InFront /\ ~foreground) /\ ~(~InFront /\ foreground)
  BY <1>3 DEF PollForeground
<1> QED
  BY <1>1, <1>2, <1>3

LEMMA StepImplements == [ConsoleNext]_consoleVars => [Next]_vars
<1>1. CASE SomeoneAsks \/ SwitchDone \/ SwitchRefused
  BY <1>1 DEF SomeoneAsks, SwitchDone, SwitchRefused
<1>2. CASE WatchForeground \/ ConsoleChanged
  BY <1>2 DEF WatchForeground, ConsoleChanged
<1>3. CASE FirstLook \/ AskTheKernel \/ WatchFails \/ TimedLook
  BY <1>3, PollIsAStep DEF FirstLook, AskTheKernel, WatchFails,
       AskForTheConsole, TimedLook
<1>4. CASE SwitchVT \/ SessionElse
  BY <1>4 DEF SwitchVT, SessionElse, Next, Session
<1>5. CASE SecondPasses \/ Around \/ TakenOver
  BY <1>5 DEF SecondPasses, Around, TakenOver, Next, Session
<1>6. CASE UNCHANGED consoleVars
  BY <1>6 DEF consoleVars
<1> QED
  BY <1>1, <1>2, <1>3, <1>4, <1>5, <1>6 DEF ConsoleNext, Looks

\* Every behaviour of Console is one of Watchdog: with the changes of console
\* that make btkey come and go written out (console_changed, switch_vt), it
\* does nothing that Watchdog does not allow for.
THEOREM ConsoleImplementsWatchdog == ConsoleSpec => Spec
<1>1. ConsoleInit => Init
  BY DEF ConsoleInit
<1> QED
  BY <1>1, StepImplements, PTL DEF ConsoleSpec, Spec

\* So what is proved of the watchdog holds here, where the changes of console
\* are what arms and disarms it: a btkey in the background is left alone, one
\* whose handlers are short enough (Prompt) is never killed, and one that hangs
\* in its loop is killed in time.
THEOREM GuardedThroughSwitches ==
  ASSUME Prompt
  PROVE  ConsoleSpec => [](BackgroundIsLeftAlone /\ SparesTheLiving /\ HangIsBounded)
<1>1. Spec => []BackgroundIsLeftAlone
  BY LeftAlone
<1>2. Spec => []SparesTheLiving
  BY LivingSpared
<1>3. Spec => []HangIsBounded
  BY HangBounded
<1> QED
  BY <1>1, <1>2, <1>3, ConsoleImplementsWatchdog, PTL

-----------------------------------------------------------------------------
(***************************************************************************)
(* No news is missed.                                                      *)
(***************************************************************************)

\* Changes of console come one after the other, are made once asked for, and
\* none comes between the first look and the watch.
Orderly == VTEnvironment = {}

\* Until the watch is on, btkey goes by its first look.
NewsInv ==
  /\ Running /\ watch = "looked" => ~Behind
  /\ NoNewsIsMissed

\* After a look btkey is not behind.
LEMMA PollFacts ==
  ASSUME TypeOK, PollForeground, UNCHANGED front
  PROVE  ~Behind'
<1>1. CASE InFront /\ ~foreground
  BY <1>1 DEF PollForeground, ComeForward, Behind, InFront
<1>2. CASE ~InFront /\ foreground
  BY <1>2 DEF PollForeground, LeaveForeground, Behind, InFront
<1>3. CASE ~(InFront /\ ~foreground) /\ ~(~InFront /\ foreground)
  <2>1. foreground' = foreground
    BY <1>3 DEF PollForeground, vars, btkey
  <2> QED
    BY <1>3, <2>1 DEF TypeOK, Behind, InFront
<1> QED
  BY <1>1, <1>2, <1>3

\* What is neither a look nor a switch leaves foreground alone, and does not
\* bring a btkey that stops back to its loop.
LEMMA RestFacts ==
  ASSUME SessionElse \/ SecondPasses \/ Around \/ TakenOver
  PROVE  UNCHANGED <<console, foreground>> /\ (Running' => Running)
<1>1. CASE SessionElse
  BY <1>1, Zenon DEF SessionElse, TakeKeyboards, Beat, Hang, Block, Disarm,
       LastReport, GiveBack, Dismiss, Turning, Running
<1>2. CASE SecondPasses
  BY <1>2 DEF SecondPasses, Tick, Running
<1>3. CASE Around
  BY <1>3 DEF Around, Crash, Guard, Read, EndOfFile, Kill, Die, btkey, Running
<1>4. CASE TakenOver
  BY <1>4 DEF TakenOver, WatchMyself, Running
<1> QED
  BY <1>1, <1>2, <1>3, <1>4

LEMMA NewsInductive ==
  ASSUME Orderly, TypeOK, NewsInv, [ConsoleNext]_consoleVars
  PROVE  NewsInv'
<1> USE DEF NewsInv, NoNewsIsMissed, Started, Noticed, Running
<1>1. CASE SomeoneAsks
  BY <1>1 DEF SomeoneAsks, Orderly, vars, btkey, Behind, InFront
<1>2. CASE SwitchDone
  <2>1. /\ wanted # None /\ watch # "looked" /\ front' = wanted
        /\ ready' = (ready \/ (watch = "watching" /\ front # wanted))
        /\ UNCHANGED <<pc, foreground, watch, looking>>
    BY <1>2 DEF SwitchDone, Orderly, vars, btkey
  <2>2. CASE front = wanted
    BY <2>1, <2>2 DEF TypeOK, Behind, InFront
  <2>3. CASE front # wanted
    BY <2>1, <2>3 DEF Behind
  <2> QED
    BY <2>2, <2>3
<1>3. CASE SwitchRefused
  BY <1>3 DEF SwitchRefused, Orderly, vars, btkey, Behind, InFront
<1>4. CASE FirstLook \/ AskTheKernel \/ WatchFails \/ TimedLook
  <2>1. PollForeground /\ UNCHANGED front
    BY <1>4 DEF FirstLook, AskTheKernel, WatchFails, AskForTheConsole,
         TimedLook, console
  <2> QED
    BY <2>1, PollFacts
<1>5. CASE WatchForeground
  BY <1>5 DEF WatchForeground, Turning, vars, btkey, Behind, InFront
<1>6. CASE ConsoleChanged
  BY <1>6 DEF ConsoleChanged, vars, btkey, Behind, InFront
<1>7. CASE SwitchVT
  <2>1. /\ foreground' = FALSE /\ wanted' \in VT \ {Ours}
        /\ watch' \in {"watching", "asking"}
    BY <1>7 DEF SwitchVT, LeaveForeground
  <2> QED
    BY <2>1, ConsoleAssumption
<1>8. CASE \/ SessionElse \/ SecondPasses \/ Around \/ TakenOver
           \/ UNCHANGED consoleVars
  <2>1. UNCHANGED <<console, foreground>> /\ (Running' => Running)
    BY <1>8, RestFacts DEF consoleVars, vars, btkey
  <2> QED
    BY <2>1 DEF console, Behind, InFront
<1> QED
  BY <1>1, <1>2, <1>3, <1>4, <1>5, <1>6, <1>7, <1>8 DEF ConsoleNext, Looks

\* If btkey is wrong about the console in front, news, a look, the timer or
\* its own change of console is on its way, for any consoles and any times, as
\* long as changes are orderly (vt.rearm, and console_changed's order of
\* reading first and asking after).
THEOREM NewsIsNotMissed ==
  ASSUME Orderly
  PROVE  ConsoleSpec => []NoNewsIsMissed
<1>1. ConsoleInit => NewsInv
  BY DEF ConsoleInit, NewsInv, NoNewsIsMissed, Started
<1>2. TypeOK /\ NewsInv /\ [ConsoleNext]_consoleVars => NewsInv'
  BY NewsInductive
<1>3. NewsInv => NoNewsIsMissed
  BY DEF NewsInv
<1>4. ConsoleSpec => []TypeOK
  BY ConsoleImplementsWatchdog, TypeCorrect, PTL
<1> QED
  BY <1>1, <1>2, <1>3, <1>4, PTL DEF ConsoleSpec
=============================================================================
