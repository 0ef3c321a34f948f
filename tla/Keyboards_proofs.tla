-------------------------- MODULE Keyboards_proofs --------------------------
(***************************************************************************)
(* What the set of keyboards is worth, for any nodes and any modifiers, in *)
(* every order of plugging, unplugging, grabbing and switching.            *)
(***************************************************************************)
EXTENDS Keyboards, TLAPS

(***************************************************************************)
(* What kb is, and what every operator on it keeps: what is grabbed or     *)
(* dead is open, and what is open is in the set.                           *)
(***************************************************************************)
KB ==
  [devices : SUBSET Path, open : SUBSET Path, dead : SUBSET Path,
   grabbed : SUBSET Path, refused : SUBSET Path, had : SUBSET Path,
   ledsSaved : SUBSET Path, repeatSaved : SUBSET Path, asleep : BOOLEAN,
   watches : SUBSET Path, stale : SUBSET Path, believed : SUBSET Path,
   debts : SUBSET Path, ready : SUBSET Path, lights : SUBSET Path,
   hushed : SUBSET Path, phone : SUBSET Path, lent : SUBSET Path,
   console : SUBSET Path]

TypeInv ==
  /\ plugged \subseteq Path /\ other \subseteq Path /\ down \subseteq Path
  /\ foreground \in BOOLEAN /\ waiting \in BOOLEAN /\ settle \in BOOLEAN
  /\ running \in BOOLEAN /\ monitor \in {"off", "watching", "polling"}
  /\ kb \in KB

Sound(k) ==
  /\ k \in KB
  /\ k.open \subseteq k.devices
  /\ k.grabbed \subseteq k.open /\ k.dead \subseteq k.open
  /\ k.watches \ k.stale \subseteq k.devices

-----------------------------------------------------------------------------
(***************************************************************************)
(* What each operator makes of the record, in the parts the proofs tell    *)
(* apart.                                                                  *)
(***************************************************************************)
LEMMA ReleaseFacts ==
  ASSUME NEW k \in KB, NEW D \in SUBSET Path
  PROVE  /\ Release(k, D) \in KB
         /\ Release(k, D).devices = k.devices
         /\ Release(k, D).open = k.open \ D
         /\ Release(k, D).dead = k.dead \ D
         /\ Release(k, D).ready = k.ready \ D
         /\ Release(k, D).grabbed = k.grabbed \ D
         /\ Release(k, D).refused = k.refused
         /\ Release(k, D).had = k.had
         /\ Release(k, D).asleep = k.asleep
         /\ Release(k, D).watches = k.watches
         /\ Release(k, D).stale = k.stale
         /\ Release(k, D).believed = k.believed
         /\ Release(k, D).phone = k.phone /\ Release(k, D).lent = k.lent
         /\ Release(k, D).console = k.console
<1> DEFINE b == PutBack(k, D)
<1>1. b \in KB
  BY DEF PutBack, KB
<1>2. /\ b.devices = k.devices /\ b.open = k.open /\ b.dead = k.dead
      /\ b.ready = k.ready /\ b.grabbed = k.grabbed /\ b.refused = k.refused
      /\ b.had = k.had /\ b.asleep = k.asleep /\ b.watches = k.watches
      /\ b.stale = k.stale /\ b.believed = k.believed /\ b.phone = k.phone
      /\ b.lent = k.lent
      /\ b.console = k.console
  BY DEF PutBack, KB
<1> HIDE DEF b
<1>3. Close(b, D) \in KB
  BY <1>1 DEF Close, KB
<1>4. /\ Close(b, D).devices = b.devices /\ Close(b, D).open = b.open \ D
      /\ Close(b, D).dead = b.dead \ D /\ Close(b, D).ready = b.ready \ D
      /\ Close(b, D).grabbed = b.grabbed \ D
      /\ Close(b, D).refused = b.refused /\ Close(b, D).had = b.had
      /\ Close(b, D).asleep = b.asleep /\ Close(b, D).watches = b.watches
      /\ Close(b, D).stale = b.stale /\ Close(b, D).believed = b.believed
      /\ Close(b, D).phone = b.phone /\ Close(b, D).lent = b.lent
      /\ Close(b, D).console = b.console
  BY <1>1 DEF Close, KB
<1>5. Release(k, D) = Close(b, D)
  BY DEF Release, b
<1> QED
  BY <1>2, <1>3, <1>4, <1>5

LEMMA ForgetFacts ==
  ASSUME NEW k \in KB, NEW D \in SUBSET Path
  PROVE  /\ Forget(k, D) \in KB
         /\ Forget(k, D).devices = k.devices \ D
         /\ Forget(k, D).open = k.open \ D
         /\ Forget(k, D).dead = k.dead \ D
         /\ Forget(k, D).ready = k.ready \ D
         /\ Forget(k, D).grabbed = k.grabbed \ D
         /\ Forget(k, D).refused = k.refused \ D
         /\ Forget(k, D).had = k.had \ D
         /\ Forget(k, D).asleep = k.asleep
         /\ Forget(k, D).watches = k.watches
         /\ Forget(k, D).stale = k.stale \cup (k.watches \cap D)
         /\ Forget(k, D).believed = k.believed
         /\ Forget(k, D).phone = k.phone /\ Forget(k, D).lent = k.lent
         /\ Forget(k, D).console = k.console
<1> DEFINE r == Release(k, D)
<1>1. Forget(k, D) = [r EXCEPT !.devices = @ \ D, !.refused = @ \ D,
                               !.had = @ \ D,
                               !.stale = @ \cup (k.watches \cap D)]
  BY DEF Forget
<1>2. /\ r.devices = k.devices /\ r.open = k.open \ D
      /\ r.dead = k.dead \ D /\ r.ready = k.ready \ D
      /\ r.grabbed = k.grabbed \ D /\ r.refused = k.refused
      /\ r.had = k.had /\ r.asleep = k.asleep /\ r.watches = k.watches
      /\ r.stale = k.stale /\ r.believed = k.believed
      /\ r.phone = k.phone /\ r.lent = k.lent /\ r.console = k.console
  BY ReleaseFacts
<1>3. r \in KB
  BY ReleaseFacts
<1> HIDE DEF r
<1>4. k.watches \cap D \in SUBSET Path
  OBVIOUS
<1>5. Forget(k, D) \in KB
  <2> DEFINE x == k.watches \cap D
  <2>1. Forget(k, D) = [r EXCEPT !.devices = @ \ D, !.refused = @ \ D,
                                 !.had = @ \ D, !.stale = @ \cup x]
    BY <1>1
  <2>2. x \in SUBSET Path
    BY <1>4
  <2> HIDE DEF x
  <2>3. [r EXCEPT !.devices = @ \ D, !.refused = @ \ D, !.had = @ \ D,
                  !.stale = @ \cup x] \in KB
    BY <1>3, <2>2 DEF KB
  <2> QED
    BY <2>1, <2>3
<1> QED
  BY <1>1, <1>2, <1>3, <1>5 DEF KB

\* What goes away is let go of, by the phone too.
LEMMA DropFacts ==
  ASSUME NEW k \in KB, NEW D \in SUBSET Path, TypeInv
  PROVE  /\ Drop(k, D) \in KB
         /\ Drop(k, D).devices = k.devices \ D
         /\ Drop(k, D).open = k.open \ D
         /\ Drop(k, D).dead = k.dead \ D
         /\ Drop(k, D).ready = k.ready \ D
         /\ Drop(k, D).grabbed = k.grabbed \ D
         /\ Drop(k, D).refused = k.refused \ D
         /\ Drop(k, D).had = k.had \ D
         /\ Drop(k, D).asleep = k.asleep
         /\ Drop(k, D).watches = k.watches \ D
         /\ Drop(k, D).stale = k.stale \ D
         /\ Drop(k, D).console = k.console
         /\ D = {} => /\ Drop(k, D).believed = k.believed
                      /\ Drop(k, D).phone = k.phone /\ Drop(k, D).lent = k.lent
         /\ D # {} =>
              /\ Drop(k, D).phone = Drop(k, D).believed
              /\ Drop(k, D).lent = Drop(k, D).phone \ Drop(k, D).grabbed
              /\ Drop(k, D).believed \subseteq
                   HeldKeys(Drop(k, D)) \cap (k.believed \cup ModKey)
<1> DEFINE u == Unwatch(k, D)
           f == Forget(u, D)
<1>1. u \in KB
  BY DEF Unwatch, KB
<1>2. CASE D = {}
  BY <1>2 DEF Drop, KB
<1>3. CASE D # {}
  <2>1. Drop(k, D) = KeyboardGone(f)
    BY <1>3 DEF Drop
  <2>2. /\ f \in KB /\ f.devices = k.devices \ D /\ f.open = k.open \ D
        /\ f.dead = k.dead \ D /\ f.ready = k.ready \ D
        /\ f.grabbed = k.grabbed \ D /\ f.refused = k.refused \ D
        /\ f.had = k.had \ D /\ f.asleep = k.asleep
        /\ f.watches = k.watches \ D /\ f.stale = k.stale \ D
        /\ f.believed = k.believed /\ f.console = k.console
    <3> HIDE DEF u
    <3>1. /\ u.devices = k.devices /\ u.open = k.open /\ u.dead = k.dead
          /\ u.ready = k.ready /\ u.grabbed = k.grabbed
          /\ u.refused = k.refused /\ u.had = k.had /\ u.asleep = k.asleep
          /\ u.believed = k.believed /\ u.console = k.console
          /\ u.watches = k.watches \ D /\ u.stale = k.stale \ D
      BY DEF Unwatch, KB, u
    <3>2. u.watches \cap D = {}
      BY <3>1
    <3>3. /\ f \in KB /\ f.devices = u.devices \ D /\ f.open = u.open \ D
          /\ f.dead = u.dead \ D /\ f.ready = u.ready \ D
          /\ f.grabbed = u.grabbed \ D /\ f.refused = u.refused \ D
          /\ f.had = u.had \ D /\ f.asleep = u.asleep
          /\ f.watches = u.watches /\ f.stale = u.stale \cup (u.watches \cap D)
          /\ f.believed = u.believed /\ f.console = u.console
      BY <1>1, ForgetFacts
    <3> QED
      BY <1>1, <3>1, <3>2, <3>3
  <2> HIDE DEF f
  <2>3. HeldKeys(KeyboardGone(f)) = HeldKeys(f)
    BY <2>2 DEF KeyboardGone, SendKeyboard, HeldKeys, Held, KB
  <2>4. /\ HeldKeys(f) \subseteq Path
        /\ KeyboardGone(f) \in KB
        /\ KeyboardGone(f).phone = KeyboardGone(f).believed
        /\ KeyboardGone(f).lent = KeyboardGone(f).phone \ f.grabbed
        /\ KeyboardGone(f).believed
             \subseteq HeldKeys(f) \cap (f.believed \cup ModKey)
    BY <2>2 DEF KeyboardGone, SendKeyboard, HeldKeys, Held, KB
  <2>5. /\ KeyboardGone(f).devices = f.devices
        /\ KeyboardGone(f).open = f.open /\ KeyboardGone(f).dead = f.dead
        /\ KeyboardGone(f).ready = f.ready
        /\ KeyboardGone(f).grabbed = f.grabbed
        /\ KeyboardGone(f).refused = f.refused
        /\ KeyboardGone(f).had = f.had /\ KeyboardGone(f).asleep = f.asleep
        /\ KeyboardGone(f).watches = f.watches
        /\ KeyboardGone(f).stale = f.stale
        /\ KeyboardGone(f).console = f.console
    BY <2>2 DEF KeyboardGone, SendKeyboard, KB
  <2> QED
    BY <1>3, <2>1, <2>2, <2>3, <2>4, <2>5
<1> QED
  BY <1>2, <1>3

\* What is there and what is in the set are then the same.
LEMMA RescanFacts ==
  ASSUME NEW k \in KB, NEW front \in BOOLEAN, TypeInv
  PROVE  LET gone == k.devices \ plugged
             r == Rescan(k, front)
         IN  /\ r \in KB
             /\ r.devices = plugged
             /\ r.open = (IF k.asleep THEN k.open
                                      ELSE k.open \cup (plugged \ k.devices))
                         \ gone
             /\ r.dead = k.dead \ gone
             /\ r.ready = k.ready \ gone
             /\ r.grabbed = k.grabbed \ gone
             /\ r.refused = k.refused \ gone
             /\ r.had = k.had \ gone
             /\ r.asleep = k.asleep
             /\ r.watches = k.watches \ gone
             /\ r.stale = k.stale \ gone
             /\ r.console = k.console
             /\ gone = {} => /\ r.believed = k.believed
                             /\ r.phone = k.phone /\ r.lent = k.lent
             /\ gone # {} =>
                  /\ r.phone = r.believed /\ r.lent = r.phone \ r.grabbed
                  /\ r.believed \subseteq
                       HeldKeys(r) \cap (k.believed \cup ModKey)
<1> DEFINE gone == k.devices \ plugged
           f == Refresh(k)
           d == Drop(f, gone)
           r == Rescan(k, front)
<1>1. /\ f \in KB /\ f.devices = k.devices \cup plugged
      /\ f.open = IF k.asleep THEN k.open
                              ELSE k.open \cup (plugged \ k.devices)
      /\ f.dead = k.dead /\ f.ready = k.ready /\ f.grabbed = k.grabbed
      /\ f.refused = k.refused /\ f.had = k.had /\ f.asleep = k.asleep
      /\ f.watches = k.watches /\ f.stale = k.stale
      /\ f.believed = k.believed /\ f.phone = k.phone /\ f.lent = k.lent
      /\ f.console = k.console
  BY DEF Refresh, KB, TypeInv
<1>2. gone \in SUBSET Path
  BY DEF KB
<1>4. r = PushLeds(d) \/ r = d
  BY DEF Rescan
<1> HIDE DEF f, gone, r
<1>3. /\ d \in KB /\ d.devices = f.devices \ gone /\ d.open = f.open \ gone
      /\ d.dead = f.dead \ gone /\ d.ready = f.ready \ gone
      /\ d.grabbed = f.grabbed \ gone /\ d.refused = f.refused \ gone
      /\ d.had = f.had \ gone /\ d.asleep = f.asleep
      /\ d.watches = f.watches \ gone /\ d.stale = f.stale \ gone
      /\ d.console = f.console
      /\ gone = {} => /\ d.believed = f.believed /\ d.phone = f.phone
                      /\ d.lent = f.lent
      /\ gone # {} => /\ d.phone = d.believed
                      /\ d.lent = d.phone \ d.grabbed
                      /\ d.believed
                           \subseteq HeldKeys(d) \cap (f.believed \cup ModKey)
  BY <1>1, <1>2, DropFacts
<1> HIDE DEF d
<1>5. /\ PushLeds(d) \in KB /\ PushLeds(d).devices = d.devices
      /\ PushLeds(d).open = d.open /\ PushLeds(d).dead = d.dead
      /\ PushLeds(d).ready = d.ready /\ PushLeds(d).grabbed = d.grabbed
      /\ PushLeds(d).refused = d.refused /\ PushLeds(d).had = d.had
      /\ PushLeds(d).asleep = d.asleep /\ PushLeds(d).watches = d.watches
      /\ PushLeds(d).stale = d.stale /\ PushLeds(d).believed = d.believed
      /\ PushLeds(d).phone = d.phone /\ PushLeds(d).lent = d.lent
      /\ PushLeds(d).console = d.console
      /\ HeldKeys(PushLeds(d)) = HeldKeys(d)
  BY <1>3 DEF PushLeds, Held, HeldKeys, KB
<1>7. /\ r \in KB /\ r.devices = d.devices
      /\ r.open = d.open /\ r.dead = d.dead
      /\ r.ready = d.ready /\ r.grabbed = d.grabbed
      /\ r.refused = d.refused /\ r.had = d.had
      /\ r.asleep = d.asleep /\ r.watches = d.watches
      /\ r.stale = d.stale /\ r.believed = d.believed
      /\ r.phone = d.phone /\ r.lent = d.lent
      /\ r.console = d.console
      /\ HeldKeys(r) = HeldKeys(d)
  BY <1>3, <1>4, <1>5
<1>6. d.devices = plugged
  BY <1>1, <1>3, <1>2 DEF gone, TypeInv
<1> QED
  BY <1>1, <1>3, <1>6, <1>7 DEF gone, r

\* Only what is grabbed is left, and its watches go stale with the rest.
LEMMA DiscardFacts ==
  ASSUME NEW k \in KB, Sound(k)
  PROVE  /\ Discard(k) \in KB /\ Sound(Discard(k))
         /\ Discard(k).devices = k.grabbed /\ Discard(k).open = k.grabbed
         /\ Discard(k).grabbed = k.grabbed
         /\ Discard(k).dead = k.dead \cap k.grabbed
         /\ Discard(k).ready = k.ready \ (k.devices \ k.grabbed)
         /\ Discard(k).had = k.had \ (k.devices \ k.grabbed)
         /\ Discard(k).asleep = k.asleep
         /\ Discard(k).watches = k.watches
         /\ Discard(k).stale =
              k.stale \cup (k.watches \cap (k.devices \ k.grabbed))
         /\ Discard(k).believed = k.believed
         /\ Discard(k).phone = k.phone /\ Discard(k).lent = k.lent
         /\ Discard(k).console = k.console
<1> DEFINE D == k.devices \ k.grabbed
<1>1. D \in SUBSET Path
  BY DEF KB
<1>2. Discard(k) = Forget(k, D)
  BY DEF Discard
<1> HIDE DEF D
<1>3. /\ Forget(k, D) \in KB /\ Forget(k, D).devices = k.devices \ D
      /\ Forget(k, D).open = k.open \ D /\ Forget(k, D).dead = k.dead \ D
      /\ Forget(k, D).ready = k.ready \ D
      /\ Forget(k, D).grabbed = k.grabbed \ D
      /\ Forget(k, D).had = k.had \ D /\ Forget(k, D).asleep = k.asleep
      /\ Forget(k, D).watches = k.watches
      /\ Forget(k, D).stale = k.stale \cup (k.watches \cap D)
      /\ Forget(k, D).believed = k.believed
      /\ Forget(k, D).phone = k.phone /\ Forget(k, D).lent = k.lent
      /\ Forget(k, D).console = k.console
  BY <1>1, ForgetFacts
<1> QED
  BY <1>2, <1>3 DEF D, Sound

\* Every keyboard of the set is then grabbed, or closed and remembered.
LEMMA GrabAllFacts ==
  ASSUME NEW k \in KB, Sound(k), TypeInv
  PROVE  LET no == k.devices \ Grabbable(k)
         IN  /\ GrabAll(k) \in KB /\ Sound(GrabAll(k))
             /\ GrabAll(k).devices = k.devices
             /\ GrabAll(k).open = Grabbable(k)
             /\ GrabAll(k).grabbed = Grabbable(k)
             /\ GrabAll(k).dead = k.dead \cap Grabbable(k)
             /\ GrabAll(k).ready = k.ready \ no
             /\ GrabAll(k).refused = (k.refused \ Grabbable(k)) \cup no
             /\ GrabAll(k).had = k.had \cup Grabbable(k)
             /\ GrabAll(k).asleep = k.asleep
             /\ GrabAll(k).watches = k.watches
             /\ GrabAll(k).stale = k.stale
             /\ GrabAll(k).believed = k.believed
             /\ GrabAll(k).phone = k.phone /\ GrabAll(k).lent = k.lent
             /\ GrabAll(k).console = k.console
             /\ Grabbable(k) \subseteq k.open
<1> DEFINE G == Grabbable(k)
           no == k.devices \ G
           e == TakeEach(k, G)
           r == Release(e, no)
<1>1. /\ G \in SUBSET Path /\ no \in SUBSET Path
      /\ k.grabbed \subseteq G /\ G \subseteq k.open /\ G \subseteq k.devices
  BY DEF KB, Sound, Grabbable, Held
<1>2. GrabAll(k) = [r EXCEPT !.refused = @ \cup no]
  BY DEF GrabAll
<1> HIDE DEF G, no
<1>3. e \in KB
  BY <1>1 DEF TakeEach, KB
<1>4. /\ e.devices = k.devices /\ e.open = k.open /\ e.dead = k.dead
      /\ e.ready = k.ready /\ e.grabbed = k.grabbed \cup G
      /\ e.refused = k.refused \ G /\ e.had = k.had \cup G
      /\ e.asleep = k.asleep /\ e.watches = k.watches
      /\ e.stale = k.stale /\ e.believed = k.believed /\ e.phone = k.phone
      /\ e.lent = k.lent
      /\ e.console = k.console
  BY <1>1 DEF TakeEach, KB
<1> HIDE DEF e
<1>5. /\ r \in KB /\ r.devices = e.devices /\ r.open = e.open \ no
      /\ r.dead = e.dead \ no /\ r.ready = e.ready \ no
      /\ r.grabbed = e.grabbed \ no /\ r.refused = e.refused
      /\ r.had = e.had /\ r.asleep = e.asleep /\ r.watches = e.watches
      /\ r.stale = e.stale /\ r.believed = e.believed
      /\ r.phone = e.phone /\ r.lent = e.lent /\ r.console = e.console
  BY <1>1, <1>3, ReleaseFacts
<1> HIDE DEF r
<1>6. [r EXCEPT !.refused = @ \cup no] \in KB
  BY <1>1, <1>5 DEF KB
<1>7. /\ GrabAll(k).devices = r.devices /\ GrabAll(k).open = r.open
      /\ GrabAll(k).dead = r.dead /\ GrabAll(k).ready = r.ready
      /\ GrabAll(k).grabbed = r.grabbed
      /\ GrabAll(k).refused = r.refused \cup no /\ GrabAll(k).had = r.had
      /\ GrabAll(k).asleep = r.asleep /\ GrabAll(k).watches = r.watches
      /\ GrabAll(k).stale = r.stale /\ GrabAll(k).believed = r.believed
      /\ GrabAll(k).phone = r.phone /\ GrabAll(k).lent = r.lent
      /\ GrabAll(k).console = r.console
  BY <1>2, <1>5 DEF KB
<1>8. /\ GrabAll(k).devices = k.devices /\ GrabAll(k).open = G
      /\ GrabAll(k).grabbed = G /\ GrabAll(k).dead = k.dead \cap G
  BY <1>1, <1>4, <1>5, <1>7 DEF no, Sound
<1> QED
  BY <1>1, <1>2, <1>4, <1>5, <1>6, <1>7, <1>8 DEF G, no, Sound

LEMMA RescanSound ==
  ASSUME NEW k \in KB, NEW front \in BOOLEAN, Sound(k), TypeInv
  PROVE  Sound(Rescan(k, front))
<1> DEFINE gone == k.devices \ plugged
           r == Rescan(k, front)
<1>1. /\ r \in KB /\ r.devices = plugged
      /\ r.open = (IF k.asleep THEN k.open
                               ELSE k.open \cup (plugged \ k.devices)) \ gone
      /\ r.dead = k.dead \ gone /\ r.grabbed = k.grabbed \ gone
      /\ r.watches = k.watches \ gone /\ r.stale = k.stale \ gone
  BY RescanFacts
<1> HIDE DEF r
<1> QED
  BY <1>1 DEF Sound, r

(***************************************************************************)
(* What may be grabbed at once: nothing there is closed, and what died was *)
(* never btkey's.                                                          *)
(***************************************************************************)
Ready(k) ==
  /\ k.devices \subseteq plugged /\ k.open = k.devices
  /\ k.dead = {} \/ k.had = {}

\* Whether or not it has to look again: what is open is what is grabbed, the
\* rest is remembered as refused, and nothing btkey has and that is still
\* there is lost.
LEMMA GrabFacts ==
  ASSUME NEW k \in KB, Sound(k), TypeInv, ~k.asleep
  PROVE  /\ Sound(Grab(k)) /\ ~Grab(k).asleep
         /\ Grab(k).open = Grab(k).grabbed
         /\ Grab(k).devices \ Grab(k).grabbed \subseteq Grab(k).refused
         /\ plugged \subseteq k.devices => plugged \subseteq Grab(k).devices
         /\ Grab(k).dead \subseteq k.dead \cap k.grabbed
         /\ k.stale \cap Grab(k).dead \subseteq Grab(k).stale
         /\ k.dead \cap k.grabbed \cap Grab(k).grabbed \subseteq Grab(k).dead
         /\ Grab(k).console = k.console
         /\ Grab(k).grabbed \cap other \subseteq k.grabbed
         /\ Grab(k).watches \subseteq k.watches
         /\ \/ /\ Grab(k).believed = k.believed
               /\ Grab(k).phone = k.phone /\ Grab(k).lent = k.lent
               /\ k.grabbed \subseteq Grab(k).grabbed
               /\ k.grabbed \cap k.ready \subseteq Grab(k).ready
            \/ /\ Grab(k).phone = Grab(k).believed
               /\ Grab(k).believed \subseteq down \ Grab(k).dead
               /\ Grab(k).phone \ Grab(k).lent \subseteq Grab(k).grabbed
               /\ Grab(k).lent \ ModKey \subseteq k.believed \ k.grabbed
         /\ Grab(k).believed \subseteq k.believed \cup ModKey
         /\ \A p \in Grab(k).believed \cap k.grabbed :
              /\ p \in Grab(k).grabbed
              /\ p \in k.watches => p \in Grab(k).watches
              /\ p \in Grab(k).stale => p \in k.stale
              /\ p \in k.ready => p \in Grab(k).ready
         /\ Ready(k) /\ k.stale = {} =>
              Grab(k).stale \subseteq Grab(k).devices \ Grab(k).grabbed
         /\ Ready(k) /\ k.watches \subseteq k.devices =>
              Grab(k).watches \subseteq Grab(k).devices
         /\ (Ready(k) /\ plugged \subseteq k.devices) \/ k.had = {} =>
              Grab(k).grabbed \subseteq k.grabbed \cup (Held(k) \ other)
<1> DEFINE G == Grabbable(k)
           no == k.devices \ G
           a == GrabAll(k)
           b == Discard(a)
           c == Rescan(b, TRUE)
           d == GrabAll(c)
<1>1. /\ a \in KB /\ Sound(a) /\ a.devices = k.devices /\ a.open = G
      /\ a.grabbed = G /\ a.dead = k.dead \cap G /\ a.ready = k.ready \ no
      /\ a.refused = (k.refused \ G) \cup no /\ a.had = k.had \cup G
      /\ ~a.asleep /\ a.watches = k.watches /\ a.stale = k.stale
      /\ a.believed = k.believed /\ a.phone = k.phone /\ a.lent = k.lent
      /\ a.console = k.console
  BY GrabAllFacts
<1>2. /\ k.grabbed \subseteq G /\ G \subseteq k.open
      /\ G = k.grabbed \cup (k.open \ (k.dead \cup other))
  BY DEF Grabbable, Held, Sound
<1> HIDE DEF G, a
<1>3. CASE ~Lost(k)
  <2>1. Grab(k) = a
    BY <1>3 DEF Grab, a
  <2> QED
    BY <1>1, <1>2, <2>1 DEF no, Sound, Held
<1>4. CASE Lost(k)
  <2>1. /\ b \in KB /\ Sound(b) /\ b.devices = G /\ b.open = G
        /\ b.grabbed = G /\ b.dead = k.dead \cap G
        /\ b.ready = k.ready \ no /\ ~b.asleep /\ b.watches = k.watches
        /\ b.stale = k.stale \cup (k.watches \cap no)
        /\ b.believed = k.believed /\ b.phone = k.phone /\ b.lent = k.lent
        /\ b.console = k.console
    BY <1>1, DiscardFacts DEF no
  <2> HIDE DEF b, no
  <2>2. /\ c \in KB /\ Sound(c) /\ c.devices = plugged /\ c.open = plugged
        /\ c.grabbed = G \cap plugged
        /\ c.dead = k.dead \cap G \cap plugged
        /\ c.ready = (k.ready \ no) \ (G \ plugged) /\ ~c.asleep
        /\ c.watches = k.watches \ (G \ plugged)
        /\ c.stale = (k.stale \cup (k.watches \cap no)) \ (G \ plugged)
        /\ c.console = k.console
    <3> DEFINE gone == b.devices \ plugged
    <3>1. gone = G \ plugged
      BY <2>1
    <3>2. plugged \subseteq Path
      BY DEF TypeInv
    <3>3. /\ c \in KB /\ c.devices = plugged
          /\ c.open = (b.open \cup (plugged \ b.devices)) \ gone
          /\ c.dead = b.dead \ gone /\ c.ready = b.ready \ gone
          /\ c.grabbed = b.grabbed \ gone /\ ~c.asleep
          /\ c.watches = b.watches \ gone /\ c.stale = b.stale \ gone
          /\ c.console = b.console
      BY <2>1, RescanFacts
    <3>4. Sound(c)
      BY <2>1, RescanSound
    <3> HIDE DEF c, gone
    <3>5. c.open = plugged /\ c.grabbed = G \cap plugged
      BY <2>1, <3>1, <3>3
    <3>6. c.dead = k.dead \cap G \cap plugged
      BY <2>1, <3>1, <3>3
    <3> QED
      BY <2>1, <3>1, <3>3, <3>4, <3>5, <3>6
  <2>3. \/ /\ G \ plugged = {} /\ c.believed = k.believed
           /\ c.phone = k.phone /\ c.lent = k.lent
        \/ /\ c.phone = c.believed /\ c.lent = c.phone \ c.grabbed
           /\ c.believed \subseteq
                plugged \cap (down \ c.dead) \cap (k.believed \cup ModKey)
    <3> DEFINE gone == b.devices \ plugged
    <3>1. /\ gone = {} => /\ c.believed = b.believed
                          /\ c.phone = b.phone /\ c.lent = b.lent
          /\ gone # {} =>
               /\ c.phone = c.believed /\ c.lent = c.phone \ c.grabbed
               /\ c.believed \subseteq
                    HeldKeys(c) \cap (b.believed \cup ModKey)
      BY <2>1, RescanFacts
    <3>2. HeldKeys(c) \subseteq plugged \cap (down \ c.dead)
      BY <2>2 DEF HeldKeys, Held
    <3> HIDE DEF c
    <3> QED
      BY <2>1, <3>1, <3>2
  <2> HIDE DEF c
  <2>4. /\ d \in KB /\ Sound(d) /\ d.devices = plugged
        /\ d.open = d.grabbed
        /\ d.grabbed = (G \cap plugged) \cup (plugged \ (c.dead \cup other))
        /\ d.dead = c.dead /\ d.ready = c.ready \ (plugged \ d.grabbed)
        /\ plugged \ d.grabbed \subseteq d.refused /\ ~d.asleep
        /\ d.watches = c.watches /\ d.stale = c.stale
        /\ d.believed = c.believed /\ d.phone = c.phone /\ d.lent = c.lent
        /\ d.console = k.console
    <3>1. Grabbable(c) = (G \cap plugged) \cup (plugged \ (c.dead \cup other))
      BY <2>2 DEF Grabbable, Held
    <3> QED
      BY <2>2, <3>1, GrabAllFacts
  <2>5. Grab(k) = d
    BY <1>4 DEF Grab, a, b, c
  <2> HIDE DEF d
  <2>6. Ready(k) => k.dead = {} /\ no \subseteq other
    BY <1>2, <1>4 DEF Ready, Lost, no, G
  <2>7. k.had # {}
    BY <1>4 DEF Lost
  <2>8. /\ Sound(d) /\ ~d.asleep /\ d.open = d.grabbed
        /\ d.devices \ d.grabbed \subseteq d.refused
        /\ plugged \subseteq d.devices
        /\ d.dead \subseteq k.dead \cap k.grabbed
        /\ k.stale \cap d.dead \subseteq d.stale
        /\ k.dead \cap k.grabbed \cap d.grabbed \subseteq d.dead
        /\ d.console = k.console /\ d.grabbed \cap other \subseteq k.grabbed
        /\ d.watches \subseteq k.watches
    BY <1>2, <2>2, <2>4
  <2>9. /\ \/ /\ d.believed = k.believed
              /\ d.phone = k.phone /\ d.lent = k.lent
              /\ k.grabbed \subseteq d.grabbed
              /\ k.grabbed \cap k.ready \subseteq d.ready
           \/ /\ d.phone = d.believed
              /\ d.believed \subseteq down \ d.dead
              /\ d.phone \ d.lent \subseteq d.grabbed
              /\ d.lent \ ModKey \subseteq k.believed \ k.grabbed
        /\ d.believed \subseteq k.believed \cup ModKey
    <3>1. CASE /\ G \ plugged = {} /\ c.believed = k.believed
               /\ c.phone = k.phone /\ c.lent = k.lent
      <4>1. k.grabbed \subseteq d.grabbed
        BY <1>2, <2>4, <3>1
      <4>2. k.grabbed \cap k.ready \subseteq d.ready
        BY <1>2, <2>2, <2>4, <3>1, <4>1 DEF no
      <4> QED
        BY <2>4, <3>1, <4>1, <4>2
    <3>2. CASE /\ c.phone = c.believed /\ c.lent = c.phone \ c.grabbed
               /\ c.believed \subseteq
                    plugged \cap (down \ c.dead) \cap (k.believed \cup ModKey)
      <4>1. c.grabbed \subseteq d.grabbed
        BY <2>2, <2>4
      <4>2. plugged \cap k.grabbed \subseteq c.grabbed
        BY <1>2, <2>2
      <4> QED
        BY <2>4, <3>2, <4>1, <4>2
    <3> QED
      BY <2>3, <3>1, <3>2
  <2>10. \A p \in d.believed \cap k.grabbed :
           /\ p \in d.grabbed
           /\ p \in k.watches => p \in d.watches
           /\ p \in d.stale => p \in k.stale
           /\ p \in k.ready => p \in d.ready
    BY <1>2, <2>2, <2>3, <2>4 DEF no
  <2>11. Ready(k) /\ k.stale = {} => d.stale \subseteq d.devices \ d.grabbed
    BY <1>2, <2>2, <2>4, <2>6 DEF no, Ready
  <2>12. Ready(k) /\ k.watches \subseteq k.devices =>
           d.watches \subseteq d.devices
    BY <1>2, <2>2, <2>4 DEF Ready
  <2>13. Ready(k) /\ plugged \subseteq k.devices =>
           d.grabbed \subseteq k.grabbed \cup (Held(k) \ other)
    BY <1>2, <2>2, <2>4, <2>6 DEF Held, Ready
  <2> QED
    BY <2>5, <2>7, <2>8, <2>9, <2>10, <2>11, <2>12, <2>13
<1> QED
  BY <1>3, <1>4

\* While a key is down: everything is watched, nothing taken.
LEMMA WaitFacts ==
  ASSUME NEW k \in KB, Sound(k), HeldKeys(k) # {}
  PROVE  /\ Sound(Taken(k))
         /\ Taken(k).devices = k.devices /\ Taken(k).open = k.open
         /\ Taken(k).dead = k.dead /\ Taken(k).grabbed = k.grabbed
         /\ Taken(k).refused = k.refused /\ Taken(k).had = k.had
         /\ Taken(k).asleep = k.asleep /\ Taken(k).ready = k.ready
         /\ Taken(k).watches = k.watches \cup k.devices
         /\ Taken(k).stale = k.stale /\ Taken(k).believed = k.believed
         /\ Taken(k).phone = k.phone /\ Taken(k).lent = k.lent
         /\ Taken(k).console = k.console
<1>1. Taken(k) = [k EXCEPT !.watches = @ \cup k.devices]
  BY DEF Taken, Watch
<1>2. k.devices \in SUBSET Path
  BY DEF KB
<1>3. [k EXCEPT !.watches = @ \cup k.devices] \in KB
  BY <1>2 DEF KB
<1> QED
  BY <1>1, <1>3 DEF KB, Sound

\* With every key up: what Grab made, and only that, is watched.
LEMMA TakeFacts ==
  ASSUME NEW k \in KB, Sound(k), TypeInv, ~k.asleep, HeldKeys(k) = {}
  PROVE  LET g == Grab(k)
             no == g.devices \ g.grabbed
         IN  /\ Sound(Taken(k))
             /\ Taken(k).devices = g.devices /\ Taken(k).open = g.open
             /\ Taken(k).dead = g.dead /\ Taken(k).grabbed = g.grabbed
             /\ Taken(k).refused = g.refused /\ Taken(k).had = g.had
             /\ ~Taken(k).asleep /\ Taken(k).ready = g.ready
             /\ Taken(k).watches = (g.watches \ no) \cup g.grabbed
             /\ Taken(k).stale = g.stale \ no
             /\ Taken(k).believed \subseteq
                  (g.believed \ ModKey) \cup (ModKey \cap (down \ g.dead))
             /\ Taken(k).phone = g.phone /\ Taken(k).lent = g.lent
             /\ Taken(k).console = g.console
<1> DEFINE g == Grab(k)
           no == g.devices \ g.grabbed
           u == Unwatch(g, no)
           w == Watch(u, g.grabbed)
           s == SyncModifiers(w)
           r == PushLeds(s)
<1>1. g \in KB /\ Sound(g) /\ ~g.asleep
  BY GrabFacts DEF Sound
<1>2. Taken(k) = r
  BY DEF Taken, WatchHeld
<1> HIDE DEF g
<1>3. no \in SUBSET Path /\ g.grabbed \in SUBSET Path
  BY <1>1 DEF KB
<1> HIDE DEF no
<1>4. u \in KB
  BY <1>1, <1>3 DEF Unwatch, KB
<1>5. /\ u.devices = g.devices /\ u.open = g.open /\ u.dead = g.dead
      /\ u.grabbed = g.grabbed /\ u.refused = g.refused /\ u.had = g.had
      /\ u.asleep = g.asleep /\ u.ready = g.ready
      /\ u.watches = g.watches \ no /\ u.stale = g.stale \ no
      /\ u.believed = g.believed /\ u.phone = g.phone /\ u.lent = g.lent
      /\ u.console = g.console
  BY <1>1 DEF Unwatch, KB
<1> HIDE DEF u
<1>6. w \in KB
  BY <1>3, <1>4 DEF Watch, KB
<1>7. /\ w.devices = u.devices /\ w.open = u.open /\ w.dead = u.dead
      /\ w.grabbed = u.grabbed /\ w.refused = u.refused /\ w.had = u.had
      /\ w.asleep = u.asleep /\ w.ready = u.ready
      /\ w.watches = u.watches \cup g.grabbed /\ w.stale = u.stale
      /\ w.believed = u.believed /\ w.phone = u.phone /\ w.lent = u.lent
      /\ w.console = u.console
  BY <1>4 DEF Watch, KB
<1> HIDE DEF w
<1>8. ModKey \in SUBSET Path
  BY KeyboardsAssumption
<1>9. s \in KB
  BY <1>6, <1>8 DEF SyncModifiers, KB
<1>10. /\ s.devices = w.devices /\ s.open = w.open /\ s.dead = w.dead
       /\ s.grabbed = w.grabbed /\ s.refused = w.refused /\ s.had = w.had
       /\ s.asleep = w.asleep /\ s.ready = w.ready
       /\ s.watches = w.watches /\ s.stale = w.stale
       /\ s.believed = (w.believed \ ModKey) \cup (HeldKeys(w) \cap ModKey)
       /\ s.phone = w.phone /\ s.lent = w.lent /\ s.console = w.console
  BY <1>6 DEF SyncModifiers, KB
<1> HIDE DEF s
<1>11. /\ r \in KB
       /\ r.devices = s.devices /\ r.open = s.open /\ r.dead = s.dead
       /\ r.grabbed = s.grabbed /\ r.refused = s.refused /\ r.had = s.had
       /\ r.asleep = s.asleep /\ r.ready = s.ready
       /\ r.watches = s.watches /\ r.stale = s.stale
       /\ r.believed = s.believed /\ r.phone = s.phone /\ r.lent = s.lent
       /\ r.console = s.console
  BY <1>9 DEF PushLeds, Held, KB
<1> HIDE DEF r
<1>12. /\ Taken(k).devices = g.devices /\ Taken(k).open = g.open
       /\ Taken(k).dead = g.dead /\ Taken(k).grabbed = g.grabbed
       /\ Taken(k).refused = g.refused /\ Taken(k).had = g.had
       /\ ~Taken(k).asleep /\ Taken(k).ready = g.ready
       /\ Taken(k).watches = (g.watches \ no) \cup g.grabbed
       /\ Taken(k).stale = g.stale \ no
       /\ Taken(k).phone = g.phone /\ Taken(k).lent = g.lent
       /\ Taken(k).console = g.console
  BY <1>1, <1>2, <1>5, <1>7, <1>10, <1>11
<1>13. Taken(k).believed \subseteq
         (g.believed \ ModKey) \cup (ModKey \cap (down \ g.dead))
  BY <1>2, <1>5, <1>7, <1>10, <1>11 DEF HeldKeys, Held
<1>14. Sound(Taken(k))
  BY <1>1, <1>2, <1>11, <1>12 DEF Sound, no
<1> QED
  BY <1>12, <1>13, <1>14 DEF g, no

\* Everything that is there is open again, and the rest is gone.
LEMMA WakeFacts ==
  ASSUME NEW k \in KB, Sound(k), TypeInv
  PROVE  LET gone == k.devices \ (plugged \cup k.open)
         IN  /\ Sound(Wake(k)) /\ Wake(k).open = Wake(k).devices
             /\ Wake(k).devices = k.devices \ gone
             /\ Wake(k).dead = k.dead /\ Wake(k).grabbed = k.grabbed
             /\ Wake(k).had = k.had \ gone /\ ~Wake(k).asleep
             /\ Wake(k).watches = k.watches \ gone
             /\ Wake(k).stale = k.stale \ gone
             /\ \/ /\ Wake(k).believed = k.believed
                   /\ Wake(k).phone = k.phone /\ Wake(k).lent = k.lent
                \/ /\ Wake(k).phone = Wake(k).believed
                   /\ Wake(k).lent = Wake(k).phone \ Wake(k).grabbed
                   /\ Wake(k).believed \subseteq down \ Wake(k).dead
             /\ Wake(k).believed \subseteq k.believed \cup ModKey
             /\ Wake(k).console = k.console
<1> DEFINE there == k.devices \cap plugged
           o == [k EXCEPT !.asleep = FALSE, !.open = @ \cup there]
           gone == k.devices \ (there \cup k.open)
<1>1. there \in SUBSET Path /\ gone \in SUBSET Path
  BY DEF KB
<1>2. Wake(k) = Drop(o, gone)
  BY DEF Wake
<1> HIDE DEF there
<1>3. o \in KB
  BY <1>1 DEF KB
<1>4. /\ o.devices = k.devices /\ o.open = k.open \cup there
      /\ o.dead = k.dead /\ o.grabbed = k.grabbed /\ o.had = k.had
      /\ ~o.asleep /\ o.watches = k.watches /\ o.stale = k.stale
      /\ o.believed = k.believed /\ o.phone = k.phone /\ o.lent = k.lent
      /\ o.console = k.console
  BY DEF KB
<1> HIDE DEF o
<1>5. gone = k.devices \ (plugged \cup k.open)
  BY DEF there
<1> HIDE DEF gone
<1> DEFINE d == Drop(o, gone)
<1>6. /\ d \in KB /\ d.devices = o.devices \ gone /\ d.open = o.open \ gone
      /\ d.dead = o.dead \ gone /\ d.grabbed = o.grabbed \ gone
      /\ d.had = o.had \ gone /\ d.asleep = o.asleep
      /\ d.watches = o.watches \ gone /\ d.stale = o.stale \ gone
      /\ d.console = o.console
      /\ gone = {} => /\ d.believed = o.believed /\ d.phone = o.phone
                      /\ d.lent = o.lent
      /\ gone # {} => /\ d.phone = d.believed
                      /\ d.lent = d.phone \ d.grabbed
                      /\ d.believed
                           \subseteq HeldKeys(d) \cap (o.believed \cup ModKey)
  BY <1>1, <1>3, DropFacts
<1> HIDE DEF d
<1>7. d.dead = k.dead /\ d.grabbed = k.grabbed /\ d.open = d.devices
  BY <1>4, <1>5, <1>6 DEF Sound, there
<1> QED
  BY <1>2, <1>4, <1>5, <1>6, <1>7 DEF d, Sound, HeldKeys, Held

\* Nothing is open, and nothing that was in the set is watched.
LEMMA SleepFacts ==
  ASSUME NEW k \in KB, Sound(k)
  PROVE  /\ Sleep(k) \in KB
         /\ Sleep(k).devices = k.devices /\ Sleep(k).open = {}
         /\ Sleep(k).dead = {} /\ Sleep(k).grabbed = {}
         /\ Sleep(k).had = k.had /\ Sleep(k).asleep
         /\ Sleep(k).watches = k.watches \ k.devices
         /\ Sleep(k).stale = k.stale \ k.devices
         /\ Sleep(k).believed = k.believed /\ Sleep(k).phone = k.phone
         /\ Sleep(k).lent = k.lent
         /\ Sleep(k).console = k.console
<1> DEFINE u == Unwatch(k, k.devices)
           r == Release(u, k.devices)
<1>1. k.devices \in SUBSET Path
  BY DEF KB
<1>2. u \in KB
  BY <1>1 DEF Unwatch, KB
<1>3. /\ u.devices = k.devices /\ u.open = k.open /\ u.dead = k.dead
      /\ u.grabbed = k.grabbed /\ u.had = k.had
      /\ u.watches = k.watches \ k.devices
      /\ u.stale = k.stale \ k.devices /\ u.believed = k.believed
      /\ u.phone = k.phone /\ u.lent = k.lent /\ u.console = k.console
  BY DEF Unwatch, KB
<1>4. Sleep(k) = [r EXCEPT !.asleep = TRUE]
  BY DEF Sleep
<1> HIDE DEF u
<1>5. /\ r \in KB /\ r.devices = u.devices /\ r.open = u.open \ k.devices
      /\ r.dead = u.dead \ k.devices /\ r.grabbed = u.grabbed \ k.devices
      /\ r.had = u.had /\ r.watches = u.watches /\ r.stale = u.stale
      /\ r.believed = u.believed /\ r.phone = u.phone /\ r.lent = u.lent
      /\ r.console = u.console
  BY <1>1, <1>2, ReleaseFacts
<1> HIDE DEF r
<1>6. [r EXCEPT !.asleep = TRUE] \in KB
  BY <1>5 DEF KB
<1>7. r.open = {} /\ r.dead = {} /\ r.grabbed = {}
  BY <1>3, <1>5 DEF Sound
<1> QED
  BY <1>3, <1>4, <1>5, <1>6, <1>7 DEF KB

(***************************************************************************)
(* What each of the console in front, the console elsewhere and the end    *)
(* means for the set, whatever happens around btkey.                       *)
(***************************************************************************)
InFrontInv ==
  foreground => /\ ~kb.asleep /\ kb.grabbed \subseteq kb.watches
                /\ monitor # "off"

AwayInv ==
  ~foreground => /\ ~waiting /\ ~settle /\ monitor = "off"
                 /\ kb.watches \subseteq kb.stale /\ kb.grabbed = {}
                 /\ kb.believed = {} /\ kb.phone = {}
                 /\ \/ kb.asleep /\ kb.open = {}
                    \/ ~kb.asleep /\ kb.had = {} /\ kb.open = kb.devices

OverInv ==
  /\ kb.devices = {} /\ kb.watches = {} /\ kb.stale = {}
  /\ kb.believed = {} /\ kb.phone = {}
  /\ ~settle /\ monitor = "off"

SetInv ==
  /\ TypeInv /\ Sound(kb)
  /\ IF running THEN InFrontInv /\ AwayInv ELSE OverInv

\* A key that moves is heard, or it is not.
LEMMA KeyFacts ==
  ASSUME NEW p \in Path, TypeInv, KeyDown(p) \/ KeyUp(p)
  PROVE  /\ kb' \in KB /\ kb'.ready = Heard(p)
         /\ KeyDown(p) => kb'.console = IF Exclusive(p) THEN kb.console
                                         ELSE kb.console \cup {p}
         /\ KeyUp(p) => kb'.console = IF Exclusive(p) THEN kb.console
                                       ELSE kb.console \ {p}
         /\ kb'.devices = kb.devices /\ kb'.open = kb.open
         /\ kb'.dead = kb.dead /\ kb'.grabbed = kb.grabbed
         /\ kb'.refused = kb.refused /\ kb'.had = kb.had
         /\ kb'.asleep = kb.asleep /\ kb'.watches = kb.watches
         /\ kb'.stale = kb.stale /\ kb'.believed = kb.believed
         /\ kb'.phone = kb.phone /\ kb'.lent = kb.lent
<1>1. Heard(p) \in SUBSET Path
  BY DEF Heard, TypeInv, KB
<1>2. CASE KeyDown(p)
  BY <1>1, <1>2 DEF KeyDown, KeyUp, TypeInv, KB
<1>3. CASE KeyUp(p)
  BY <1>1, <1>3 DEF KeyDown, KeyUp, TypeInv, KB
<1> QED
  BY <1>2, <1>3

LEMMA UnplugFacts ==
  ASSUME NEW p \in Path, TypeInv, Unplug(p)
  PROVE  /\ kb' \in KB
         /\ kb'.dead = kb.dead \cup (kb.open \cap {p})
         /\ kb'.ready = kb.ready \cup (kb.open \cap {p})
         /\ kb'.console = kb.console \ {p}
         /\ kb'.devices = kb.devices /\ kb'.open = kb.open
         /\ kb'.grabbed = kb.grabbed /\ kb'.refused = kb.refused
         /\ kb'.had = kb.had /\ kb'.asleep = kb.asleep
         /\ kb'.watches = kb.watches /\ kb'.stale = kb.stale
         /\ kb'.believed = kb.believed /\ kb'.phone = kb.phone
         /\ kb'.lent = kb.lent
BY DEF Unplug, TypeInv, KB

LEMMA ReadFacts ==
  ASSUME NEW p, TypeInv, Sound(kb)
  PROVE  /\ Sound(Read(p)) /\ Read(p).ready = kb.ready \ {p}
         /\ Read(p).devices = kb.devices /\ Read(p).open = kb.open
         /\ Read(p).dead = kb.dead /\ Read(p).grabbed = kb.grabbed
         /\ Read(p).refused = kb.refused /\ Read(p).had = kb.had
         /\ Read(p).asleep = kb.asleep /\ Read(p).watches = kb.watches
         /\ Read(p).stale = kb.stale /\ Read(p).believed = kb.believed
         /\ Read(p).phone = kb.phone /\ Read(p).lent = kb.lent
         /\ Read(p).console = kb.console
         /\ HeldKeys(Read(p)) = HeldKeys(kb)
BY DEF Read, TypeInv, Sound, HeldKeys, Held, KB

LEMMA InputFacts ==
  ASSUME NEW p \in Path, TypeInv, Sound(kb), Input(p)
  PROVE  /\ kb' \in KB /\ kb'.ready = kb.ready \ {p}
         /\ kb'.devices = kb.devices /\ kb'.open = kb.open
         /\ kb'.dead = kb.dead /\ kb'.grabbed = kb.grabbed
         /\ kb'.refused = kb.refused /\ kb'.had = kb.had
         /\ kb'.asleep = kb.asleep /\ kb'.watches = kb.watches
         /\ kb'.stale = kb.stale /\ kb'.console = kb.console
         /\ kb'.believed = IF p \in down THEN kb.believed \cup {p}
                                          ELSE kb.believed \ {p}
         /\ kb'.phone = kb'.believed
         /\ kb'.lent = kb'.phone \ kb.grabbed
         /\ UNCHANGED <<machine, session>>
<1> DEFINE now == IF p \in down THEN kb.believed \cup {p}
                                ELSE kb.believed \ {p}
           r == Read(p)
<1>1. now \in SUBSET Path
  BY DEF TypeInv, KB
<1>2. /\ kb' = [r EXCEPT !.believed = now, !.phone = now,
                         !.lent = now \ r.grabbed]
      /\ UNCHANGED <<machine, session>>
  BY DEF Input, SendKeyboard
<1>3. /\ r \in KB /\ r.ready = kb.ready \ {p}
      /\ r.devices = kb.devices /\ r.open = kb.open
      /\ r.dead = kb.dead /\ r.grabbed = kb.grabbed
      /\ r.refused = kb.refused /\ r.had = kb.had
      /\ r.asleep = kb.asleep /\ r.watches = kb.watches
      /\ r.stale = kb.stale /\ r.console = kb.console
  BY ReadFacts DEF Sound
<1> HIDE DEF now, r
<1>4. [r EXCEPT !.believed = now, !.phone = now,
                !.lent = now \ r.grabbed] \in KB
  BY <1>1, <1>3 DEF KB
<1> QED
  BY <1>2, <1>3, <1>4 DEF KB, now

\* The phone has been told, and nothing is left of what btkey believed.
LEMMA ToldFacts ==
  ASSUME NEW k, Sound(k),
         NEW told, told = LetGo(k)
  PROVE  /\ Sound(told)
         /\ told.devices = k.devices /\ told.had = k.had
         /\ told.watches = k.watches /\ told.stale = k.stale
         /\ told.believed = {} /\ told.phone = {} /\ told.lent = {}
         /\ told.console = k.console
<1>1. told = [k EXCEPT !.believed = {}, !.phone = {}, !.lent = {}]
  BY DEF LetGo, SendKeyboard
<1>2. told \in KB
  <2>1. k \in KB
    BY DEF Sound
  <2>2. [k EXCEPT !.believed = {}, !.phone = {}, !.lent = {}] \in KB
    BY <2>1 DEF KB
  <2> QED
    BY <1>1, <2>2
<1> QED
  BY <1>1, <1>2 DEF Sound, KB

\* Leaving the foreground, or ending, nothing is held, here or by the phone.
LEMMA LetGoFacts ==
  ASSUME TypeInv, Sound(kb), LeaveForeground \/ Stop
  PROVE  /\ kb' \in KB /\ kb'.open = {} /\ kb'.dead = {} /\ kb'.grabbed = {}
         /\ kb'.believed = {} /\ kb'.phone = {} /\ kb'.lent = {}
         /\ kb'.console = kb.console
         /\ LeaveForeground => /\ kb'.asleep /\ kb'.devices = kb.devices
                               /\ kb'.watches = kb.watches \ kb.devices
                               /\ kb'.stale = kb.stale \ kb.devices
         /\ Stop => kb'.devices = {} /\ kb'.watches = {} /\ kb'.stale = {}
<1> DEFINE told == LetGo(kb)
           s == Sleep(told)
<1>1. /\ Sound(told) /\ told.devices = kb.devices
      /\ told.watches = kb.watches /\ told.stale = kb.stale
      /\ told.believed = {} /\ told.phone = {} /\ told.lent = {}
      /\ told.console = kb.console
  BY ToldFacts
<1>2. CASE LeaveForeground
  <2>1. kb' = s /\ ~Stop
    BY <1>2 DEF LeaveForeground, Stop
  <2> HIDE DEF told
  <2> QED
    BY <1>1, <1>2, <2>1, SleepFacts DEF Sound
<1>3. CASE Stop
  <2>1. /\ kb' = [s EXCEPT !.devices = {}, !.watches = {}, !.stale = {}]
        /\ ~LeaveForeground
    BY <1>3 DEF LeaveForeground, Stop
  <2> HIDE DEF told
  <2>2. /\ s \in KB /\ s.open = {} /\ s.dead = {} /\ s.grabbed = {}
        /\ s.believed = {} /\ s.phone = {} /\ s.lent = {}
        /\ s.console = kb.console
    BY <1>1, SleepFacts DEF Sound
  <2> HIDE DEF s
  <2>3. [s EXCEPT !.devices = {}, !.watches = {}, !.stale = {}] \in KB
    BY <2>2 DEF KB
  <2> QED
    BY <1>3, <2>1, <2>2, <2>3 DEF KB
<1> QED
  BY <1>2, <1>3

-----------------------------------------------------------------------------
LEMMA SetInductive == SetInv /\ [Next]_vars => SetInv'
<1> SUFFICES ASSUME SetInv, [Next]_vars PROVE SetInv'
  OBVIOUS
<1>0. TypeInv /\ Sound(kb) /\ kb \in KB
  BY DEF SetInv, TypeInv
<1>1. ASSUME NEW p \in Path, KeyDown(p) \/ KeyUp(p)
      PROVE  SetInv'
  <2>1. /\ plugged' = plugged /\ other' = other /\ session' = session
        /\ down' \subseteq Path
    BY <1>0, <1>1 DEF KeyDown, KeyUp, TypeInv
  <2>2. /\ kb' \in KB /\ kb'.devices = kb.devices /\ kb'.open = kb.open
        /\ kb'.dead = kb.dead /\ kb'.grabbed = kb.grabbed
        /\ kb'.had = kb.had /\ kb'.asleep = kb.asleep
        /\ kb'.watches = kb.watches /\ kb'.stale = kb.stale
        /\ kb'.believed = kb.believed /\ kb'.phone = kb.phone
        /\ kb'.lent = kb.lent
    BY <1>0, <1>1, KeyFacts
  <2>3. TypeInv' /\ Sound(kb')
    BY <1>0, <2>1, <2>2 DEF session, TypeInv, Sound
  <2> QED
    BY <2>1, <2>2, <2>3 DEF session, SetInv, InFrontInv, AwayInv, OverInv
<1>2. ASSUME NEW p \in Path, Plug(p)
      PROVE  SetInv'
  BY <1>0, <1>2 DEF Plug, Changed, SetInv, TypeInv, Sound,
     InFrontInv, AwayInv, OverInv
<1>3. ASSUME NEW p \in Path, Unplug(p)
      PROVE  SetInv'
  <2>1. TypeInv' /\ Sound(kb')
    BY <1>0, <1>3, UnplugFacts DEF Unplug, Changed, TypeInv, Sound
  <2> QED
    BY <1>0, <1>3, <2>1, UnplugFacts DEF Unplug, Changed, SetInv,
       InFrontInv, AwayInv, OverInv, TypeInv
<1>4. ASSUME NEW p \in Path, OtherTakes(p) \/ OtherLetsGo(p)
      PROVE  SetInv'
  BY <1>0, <1>4 DEF OtherTakes, OtherLetsGo, session, SetInv, TypeInv, Sound,
     InFrontInv, AwayInv, OverInv
<1>5. ASSUME NEW p \in Path, InputGone(p)
      PROVE  SetInv'
  <2>1. /\ running /\ p \in kb.watches \ kb.stale
        /\ kb' = Drop(kb, {p}) /\ UNCHANGED <<machine, session>>
    BY <1>5 DEF InputGone, Served
  <2>2. foreground
    BY <2>1 DEF SetInv, AwayInv
  <2>3. /\ kb' \in KB /\ kb'.devices = kb.devices \ {p}
        /\ kb'.open = kb.open \ {p} /\ kb'.dead = kb.dead \ {p}
        /\ kb'.grabbed = kb.grabbed \ {p} /\ kb'.asleep = kb.asleep
        /\ kb'.watches = kb.watches \ {p} /\ kb'.stale = kb.stale \ {p}
    BY <1>0, <2>1, DropFacts
  <2>4. TypeInv' /\ Sound(kb')
    BY <1>0, <2>1, <2>3 DEF machine, session, TypeInv, Sound
  <2> QED
    BY <2>1, <2>2, <2>3, <2>4 DEF session, SetInv, InFrontInv, AwayInv
<1>6. ASSUME NEW p \in Path, InputWaiting(p)
      PROVE  SetInv'
  <2>1. /\ running /\ foreground /\ ~kb.asleep
        /\ kb.grabbed \subseteq kb.watches /\ monitor # "off"
    BY <1>6 DEF InputWaiting, Served, SetInv, InFrontInv, AwayInv
  <2>2. CASE HeldKeys(kb) = {} /\ Take(Read(p))
    <3>1. /\ kb' = Taken(Read(p)) /\ waiting' \in BOOLEAN
          /\ HeldKeys(Read(p)) = {} /\ ~Read(p).asleep /\ Sound(Read(p))
      BY <1>0, <2>1, <2>2, ReadFacts DEF Take
    <3>2. /\ Sound(kb') /\ ~kb'.asleep /\ kb'.grabbed \subseteq kb'.watches
      BY <1>0, <3>1, TakeFacts DEF Sound
    <3> QED
      BY <1>0, <1>6, <2>1, <3>1, <3>2 DEF InputWaiting, machine, SetInv,
         InFrontInv, AwayInv, TypeInv, Sound
  <2>3. CASE kb' = Read(p) /\ UNCHANGED waiting
    BY <1>0, <1>6, <2>1, <2>3, ReadFacts DEF InputWaiting, machine, SetInv,
       InFrontInv, AwayInv, TypeInv, Sound
  <2> QED
    BY <1>6, <2>2, <2>3 DEF InputWaiting
<1>7. ASSUME NEW p \in Path, Input(p)
      PROVE  SetInv'
  <2>1. running /\ foreground
    BY <1>7 DEF Input, Served, SetInv, AwayInv
  <2> QED
    BY <1>0, <1>7, <2>1, InputFacts DEF machine, session, SetInv, InFrontInv,
       AwayInv, TypeInv, Sound
<1>8. CASE Settle
  <2> DEFINE k == Rescan(Discard(kb), TRUE)
  <2>1. /\ running /\ foreground /\ ~kb.asleep
        /\ kb.grabbed \subseteq kb.watches /\ monitor # "off"
    BY <1>8 DEF Settle, SetInv, InFrontInv, AwayInv
  <2>2. /\ Sound(k) /\ ~k.asleep /\ k.grabbed \subseteq k.watches
    <3>1. /\ Discard(kb) \in KB /\ Sound(Discard(kb)) /\ ~Discard(kb).asleep
          /\ Discard(kb).grabbed \subseteq Discard(kb).watches
          /\ Discard(kb).grabbed = Discard(kb).devices
      BY <1>0, <2>1, DiscardFacts
    <3> DEFINE d == Discard(kb)
    <3>2. Sound(k)
      BY <1>0, <3>1, RescanSound
    <3>3. /\ k.asleep = d.asleep
          /\ k.grabbed = d.grabbed \ (d.devices \ plugged)
          /\ k.watches = d.watches \ (d.devices \ plugged)
      BY <1>0, <3>1, RescanFacts
    <3> HIDE DEF d, k
    <3> QED
      BY <3>1, <3>2, <3>3 DEF d
  <2>3. kb' = Taken(k) /\ waiting' \in BOOLEAN
    BY <1>8, <2>1 DEF Settle, Take
  <2> HIDE DEF k
  <2>4. Sound(kb') /\ ~kb'.asleep /\ kb'.grabbed \subseteq kb'.watches
    <3>1. CASE HeldKeys(k) # {}
      BY <2>2, <2>3, <3>1, WaitFacts DEF Sound
    <3>2. CASE HeldKeys(k) = {}
      BY <1>0, <2>2, <2>3, <3>2, TakeFacts DEF Sound
    <3> QED
      BY <3>1, <3>2
  <2> QED
    BY <1>0, <1>8, <2>1, <2>3, <2>4 DEF Settle, machine, SetInv, InFrontInv,
       AwayInv, TypeInv, Sound
<1>9. CASE RescanTimer
  <2>1. /\ running /\ foreground /\ ~kb.asleep
        /\ kb.grabbed \subseteq kb.watches /\ monitor # "off"
    BY <1>9 DEF RescanTimer, SetInv, InFrontInv, AwayInv
  <2>2. Sound(kb') /\ ~kb'.asleep /\ kb'.grabbed \subseteq kb'.watches
    <3> DEFINE gone == kb.devices \ plugged
               r == Rescan(kb, foreground)
    <3>1. foreground \in BOOLEAN /\ kb' = r
      BY <1>0, <1>9 DEF RescanTimer, TypeInv
    <3>2. Sound(r)
      BY <1>0, <3>1, RescanSound
    <3>3. /\ r.asleep = kb.asleep /\ r.grabbed = kb.grabbed \ gone
          /\ r.watches = kb.watches \ gone
      BY <1>0, <3>1, RescanFacts
    <3> HIDE DEF r
    <3> QED
      BY <2>1, <3>1, <3>2, <3>3
  <2> QED
    BY <1>0, <1>9, <2>1, <2>2 DEF RescanTimer, machine, SetInv, InFrontInv,
       AwayInv, TypeInv, Sound
<1>10. CASE ComeForward
  <2> DEFINE w == Wake(kb)
             k == Rescan(w, TRUE)
  <2>1. running /\ ~foreground /\ kb.grabbed = {} /\ foreground'
    BY <1>10 DEF ComeForward, SetInv, AwayInv
  <2>2. Sound(w) /\ ~w.asleep /\ w.grabbed = {}
    BY <1>0, <2>1, WakeFacts
  <2> HIDE DEF w
  <2>3. Sound(k) /\ ~k.asleep /\ k.grabbed = {}
    BY <1>0, <2>2, RescanFacts, RescanSound DEF Sound
  <2>4. kb' = Taken(k) /\ waiting' \in BOOLEAN
    BY <1>10 DEF ComeForward, Take, w
  <2> HIDE DEF k
  <2>5. Sound(kb') /\ ~kb'.asleep /\ kb'.grabbed \subseteq kb'.watches
    <3>1. CASE HeldKeys(k) # {}
      BY <2>3, <2>4, <3>1, WaitFacts DEF Sound
    <3>2. CASE HeldKeys(k) = {}
      BY <1>0, <2>3, <2>4, <3>2, TakeFacts DEF Sound
    <3> QED
      BY <3>1, <3>2
  <2> QED
    BY <1>0, <1>10, <2>1, <2>4, <2>5 DEF ComeForward, WatchForDevices, machine,
       SetInv, InFrontInv, AwayInv, TypeInv, Sound
<1>11. CASE LeaveForeground
  <2>1. kb'.watches \subseteq kb'.stale /\ Sound(kb')
    BY <1>0, <1>11, LetGoFacts DEF Sound
  <2> QED
    BY <1>0, <1>11, <2>1, LetGoFacts DEF LeaveForeground, UnwatchForDevices,
       machine, SetInv, InFrontInv, AwayInv, TypeInv
<1>12. CASE Stop
  BY <1>0, <1>12, LetGoFacts DEF Stop, machine, SetInv, OverInv, TypeInv, Sound
<1>13. CASE UNCHANGED vars
  BY <1>13 DEF vars, machine, session, SetInv, InFrontInv, AwayInv, OverInv,
     TypeInv, Sound
<1> QED
  BY <1>1, <1>2, <1>3, <1>4, <1>5, <1>6, <1>7, <1>8, <1>9, <1>10, <1>11,
     <1>12, <1>13 DEF Next, Machine, Inputs

LEMMA SetInvariant == Spec => []SetInv
<1>1. Init => SetInv
  <2> SUFFICES ASSUME Init PROVE SetInv
    OBVIOUS
  <2>1. kb \in KB
    BY DEF Init, KB
  <2> QED
    BY <2>1 DEF Init, SetInv, TypeInv, Sound, InFrontInv, AwayInv
<1> QED
  BY <1>1, SetInductive, PTL DEF Spec

-----------------------------------------------------------------------------
(***************************************************************************)
(* Watches.  Unless keyboards come and go while btkey waits for the keys   *)
(* to come up: what is watched is open, and once the waiting is over it is *)
(* grabbed too, so that what settle_devices forgets is never watched.      *)
(***************************************************************************)
NoWaitPlug == "waitplug" \notin Environment

WatchInv ==
  running =>
    /\ kb.stale = {} /\ kb.watches \subseteq kb.open
    /\ foreground /\ ~waiting => kb.watches \subseteq kb.grabbed
    /\ waiting => ~settle /\ Ready(kb)

\* What is ready to be taken leaves nothing watched but what is open.
LEMMA TakenIsWatched ==
  ASSUME TypeInv, NEW k, Sound(k), ~k.asleep, Ready(k), k.stale = {},
         k.watches \subseteq k.devices, Take(k), UNCHANGED plugged
  PROVE  /\ kb'.stale = {} /\ kb'.watches \subseteq kb'.open
         /\ ~waiting' => kb'.watches \subseteq kb'.grabbed
         /\ waiting' => Ready(kb)'
<1>1. CASE HeldKeys(k) # {}
  BY <1>1, WaitFacts DEF Take, Ready, Sound
<1>2. CASE HeldKeys(k) = {}
  <2> DEFINE g == Grab(k)
  <2>1. /\ g.stale \subseteq g.devices \ g.grabbed
        /\ g.watches \subseteq g.devices /\ g.open = g.grabbed
    BY GrabFacts DEF Sound
  <2>2. /\ kb'.open = g.open /\ kb'.grabbed = g.grabbed
        /\ kb'.watches = (g.watches \ (g.devices \ g.grabbed)) \cup g.grabbed
        /\ kb'.stale = g.stale \ (g.devices \ g.grabbed) /\ ~waiting'
    BY <1>2, TakeFacts DEF Sound, Take
  <2> QED
    BY <2>1, <2>2
<1> QED
  BY <1>1, <1>2

\* When a change has settled, what is there is ready to be taken,
LEMMA SettleIsReady ==
  ASSUME SetInv, WatchInv, Settle
  PROVE  LET k == Rescan(Discard(kb), TRUE)
         IN  /\ Take(k) /\ Sound(k) /\ ~k.asleep /\ Ready(k) /\ k.stale = {}
             /\ k.watches \subseteq k.devices /\ plugged \subseteq k.devices
             /\ k.grabbed \ k.dead \subseteq kb.grabbed \ kb.dead
             /\ k.console = kb.console
<1>0. TypeInv /\ Sound(kb) /\ kb \in KB
  BY DEF SetInv, TypeInv
<1> DEFINE d == Discard(kb)
           k == Rescan(d, TRUE)
<1>1. /\ foreground /\ ~kb.asleep /\ kb.dead \cap (kb.watches \ kb.stale) = {}
      /\ kb.stale = {} /\ kb.watches = kb.grabbed
  BY DEF Settle, SetInv, InFrontInv, AwayInv, WatchInv
<1>2. /\ Sound(d) /\ d.devices = kb.grabbed /\ d.open = kb.grabbed
      /\ d.dead = {} /\ ~d.asleep /\ d.stale = {} /\ d.watches = kb.grabbed
      /\ d.grabbed = kb.grabbed /\ d.console = kb.console
  BY <1>0, <1>1, DiscardFacts
<1>3. Take(k)
  BY <1>1 DEF Settle
<1> HIDE DEF d
<1>4. /\ k.devices = plugged
      /\ k.open = (d.open \cup (plugged \ d.devices)) \ (d.devices \ plugged)
      /\ k.dead = d.dead \ (d.devices \ plugged) /\ ~k.asleep
      /\ k.watches = d.watches \ (d.devices \ plugged)
      /\ k.stale = d.stale \ (d.devices \ plugged)
      /\ k.grabbed = d.grabbed \ (d.devices \ plugged)
      /\ k.console = d.console
  BY <1>0, <1>2, RescanFacts DEF Sound
<1>5. Sound(k)
  BY <1>0, <1>2, RescanSound DEF Sound
<1>6. k = Rescan(Discard(kb), TRUE)
  BY DEF d
<1> HIDE DEF k
<1>7. /\ Ready(k) /\ k.stale = {} /\ k.watches \subseteq k.devices
      /\ k.grabbed \ k.dead \subseteq kb.grabbed \ kb.dead
      /\ k.console = kb.console
  BY <1>0, <1>1, <1>2, <1>4 DEF Ready, Sound
<1> QED
  BY <1>3, <1>4, <1>5, <1>6, <1>7

\* and so it is when btkey comes forward.
LEMMA ForwardIsReady ==
  ASSUME SetInv, WatchInv, ComeForward
  PROVE  LET k == Rescan(Wake(kb), TRUE)
         IN  /\ Take(k) /\ Sound(k) /\ ~k.asleep /\ Ready(k) /\ k.stale = {}
             /\ k.watches \subseteq k.devices /\ plugged \subseteq k.devices
             /\ k.grabbed = {} /\ k.console = kb.console
<1>0. TypeInv /\ Sound(kb) /\ kb \in KB
  BY DEF SetInv, TypeInv
<1> DEFINE w == Wake(kb)
           k == Rescan(w, TRUE)
<1>1. /\ ~foreground /\ kb.stale = {} /\ kb.watches = {} /\ kb.grabbed = {}
      /\ kb.dead = {} \/ kb.had = {}
  BY <1>0 DEF ComeForward, SetInv, AwayInv, WatchInv, Sound
<1>2. /\ Sound(w) /\ ~w.asleep /\ w.open = w.devices
      /\ w.dead = {} \/ w.had = {}
      /\ w.stale = {} /\ w.watches = {} /\ w.grabbed = {}
      /\ w.console = kb.console
  <2>1. /\ Sound(w) /\ ~w.asleep /\ w.open = w.devices
        /\ w.dead = kb.dead /\ w.had \subseteq kb.had
        /\ w.stale \subseteq kb.stale /\ w.watches \subseteq kb.watches
        /\ w.grabbed = kb.grabbed /\ w.console = kb.console
    BY <1>0, WakeFacts
  <2> QED
    BY <1>1, <2>1
<1>3. Take(k)
  BY DEF ComeForward
<1> HIDE DEF w
<1>4. /\ k.devices = plugged
      /\ k.open = (w.open \cup (plugged \ w.devices)) \ (w.devices \ plugged)
      /\ k.dead = w.dead \ (w.devices \ plugged) /\ ~k.asleep
      /\ k.had = w.had \ (w.devices \ plugged)
      /\ k.watches = w.watches \ (w.devices \ plugged)
      /\ k.stale = w.stale \ (w.devices \ plugged)
      /\ k.grabbed = w.grabbed \ (w.devices \ plugged)
      /\ k.console = w.console
  BY <1>0, <1>2, RescanFacts DEF Sound
<1>5. Sound(k)
  BY <1>0, <1>2, RescanSound DEF Sound
<1> QED
  BY <1>0, <1>2, <1>3, <1>4, <1>5 DEF Ready, w

LEMMA WatchInductive ==
  NoWaitPlug /\ SetInv /\ WatchInv /\ [Next]_vars => WatchInv'
<1> SUFFICES ASSUME NoWaitPlug, SetInv, WatchInv, [Next]_vars PROVE WatchInv'
  OBVIOUS
<1>0. TypeInv /\ Sound(kb) /\ kb \in KB
  BY DEF SetInv, TypeInv
<1>1. ASSUME NEW p \in Path, KeyDown(p) \/ KeyUp(p)
      PROVE  WatchInv'
  <2>1. plugged' = plugged /\ session' = session
    BY <1>1 DEF KeyDown, KeyUp
  <2>2. /\ kb'.devices = kb.devices /\ kb'.open = kb.open
        /\ kb'.dead = kb.dead /\ kb'.grabbed = kb.grabbed
        /\ kb'.had = kb.had /\ kb'.watches = kb.watches
        /\ kb'.stale = kb.stale
    BY <1>0, <1>1, KeyFacts
  <2> QED
    BY <2>1, <2>2 DEF session, WatchInv, Ready
<1>2. ASSUME NEW p \in Path, Plug(p)
      PROVE  WatchInv'
  BY <1>2 DEF Plug, Pluggable, NoWaitPlug, WatchInv
<1>3. ASSUME NEW p \in Path, Unplug(p)
      PROVE  WatchInv'
  <2>1. ~waiting /\ UNCHANGED <<foreground, waiting, running>>
    BY <1>3 DEF Unplug, Pluggable, NoWaitPlug
  <2> QED
    BY <1>0, <1>3, <2>1, UnplugFacts DEF WatchInv
<1>4. ASSUME NEW p \in Path, OtherTakes(p) \/ OtherLetsGo(p)
      PROVE  WatchInv'
  BY <1>4 DEF OtherTakes, OtherLetsGo, session, WatchInv, Ready
<1>5. ASSUME NEW p \in Path, InputGone(p)
      PROVE  WatchInv'
  <2>1. kb' = Drop(kb, {p}) /\ UNCHANGED <<machine, session>>
    BY <1>5 DEF InputGone
  <2>2. /\ kb'.devices = kb.devices \ {p} /\ kb'.open = kb.open \ {p}
        /\ kb'.dead = kb.dead \ {p} /\ kb'.had = kb.had \ {p}
        /\ kb'.grabbed = kb.grabbed \ {p}
        /\ kb'.watches = kb.watches \ {p} /\ kb'.stale = kb.stale \ {p}
    BY <1>0, <2>1, DropFacts
  <2> QED
    BY <2>1, <2>2 DEF machine, session, WatchInv, Ready
<1>6. ASSUME NEW p \in Path, InputWaiting(p)
      PROVE  WatchInv'
  <2>1. running /\ UNCHANGED <<machine, foreground, monitor, settle, running>>
    BY <1>6 DEF InputWaiting, Served
  <2>2. CASE waiting /\ HeldKeys(kb) = {} /\ Take(Read(p))
    <3> DEFINE k == Read(p)
               g == Grab(k)
    <3>1. /\ Sound(k) /\ ~k.asleep /\ HeldKeys(k) = {} /\ k.stale = {}
          /\ Ready(k) /\ k.watches \subseteq k.devices
      BY <1>0, <2>1, <2>2, ReadFacts DEF WatchInv, Ready, SetInv, InFrontInv,
         AwayInv
    <3>2. kb' = Taken(k) /\ ~waiting'
      BY <2>2, <3>1 DEF Take
    <3> HIDE DEF k
    <3>3. /\ g.stale \subseteq g.devices \ g.grabbed
          /\ g.watches \subseteq g.devices /\ g.open = g.grabbed
      BY <1>0, <3>1, GrabFacts DEF Sound
    <3>4. /\ kb'.open = g.open /\ kb'.grabbed = g.grabbed
          /\ kb'.watches = (g.watches \ (g.devices \ g.grabbed)) \cup g.grabbed
          /\ kb'.stale = g.stale \ (g.devices \ g.grabbed)
      BY <1>0, <3>1, <3>2, TakeFacts DEF Sound
    <3> QED
      BY <2>1, <3>2, <3>3, <3>4 DEF WatchInv
  <2>3. CASE kb' = Read(p) /\ UNCHANGED waiting
    BY <1>0, <2>1, <2>3, ReadFacts DEF machine, WatchInv, Ready
  <2> QED
    BY <1>6, <2>2, <2>3 DEF InputWaiting
<1>7. ASSUME NEW p \in Path, Input(p)
      PROVE  WatchInv'
  BY <1>0, <1>7, InputFacts DEF machine, session, WatchInv, Ready
<1>8. CASE Settle
  <2>1. running /\ foreground /\ UNCHANGED <<machine, foreground>> /\ ~settle'
    BY <1>8 DEF Settle, SetInv, AwayInv
  <2> QED
    BY <1>0, <1>8, <2>1, SettleIsReady, TakenIsWatched DEF machine, WatchInv
<1>9. CASE RescanTimer
  <2>1. /\ running /\ foreground /\ ~kb.asleep
        /\ kb' = Rescan(kb, foreground) /\ ~settle'
        /\ UNCHANGED <<machine, foreground, waiting, monitor, running>>
    BY <1>9 DEF RescanTimer, SetInv, InFrontInv, AwayInv
  <2> DEFINE gone == kb.devices \ plugged
  <2>2. /\ kb'.devices = plugged
        /\ kb'.open = (kb.open \cup (plugged \ kb.devices)) \ gone
        /\ kb'.dead = kb.dead \ gone /\ kb'.had = kb.had \ gone
        /\ kb'.grabbed = kb.grabbed \ gone
        /\ kb'.watches = kb.watches \ gone /\ kb'.stale = kb.stale \ gone
    BY <1>0, <2>1, RescanFacts
  <2> QED
    BY <2>1, <2>2 DEF machine, WatchInv, Ready
<1>10. CASE ComeForward
  <2>1. /\ running /\ foreground' /\ UNCHANGED machine /\ ~settle'
    BY <1>10 DEF ComeForward, SetInv, AwayInv
  <2> QED
    BY <1>0, <1>10, <2>1, ForwardIsReady, TakenIsWatched DEF machine, WatchInv
<1>11. CASE LeaveForeground
  BY <1>0, <1>11, LetGoFacts DEF LeaveForeground, WatchInv, Sound
<1>12. CASE Stop
  BY <1>12 DEF Stop, WatchInv
<1>13. CASE UNCHANGED vars
  BY <1>13 DEF vars, machine, session, WatchInv, Ready
<1> QED
  BY <1>1, <1>2, <1>3, <1>4, <1>5, <1>6, <1>7, <1>8, <1>9, <1>10, <1>11,
     <1>12, <1>13 DEF Next, Machine, Inputs

LEMMA WatchInvariant ==
  ASSUME NoWaitPlug
  PROVE  Spec => []WatchInv
<1>1. Init => WatchInv
  BY DEF Init, WatchInv
<1>2. SetInv /\ WatchInv /\ [Next]_vars => WatchInv'
  BY WatchInductive
<1> QED
  BY <1>1, <1>2, SetInvariant, PTL DEF Spec

\* However keyboards come and go, but while btkey waits for the keys, a watch
\* is for the descriptor that is open: drop_device and take_keyboards never
\* leave the loop with one for a descriptor since closed.
THEOREM WatchesAreOpen ==
  ASSUME NoWaitPlug
  PROVE  Spec => []WatchedIsOpen
<1>1. WatchInv => WatchedIsOpen
  BY DEF WatchInv, WatchedIsOpen
<1> QED
  BY <1>1, WatchInvariant, PTL

-----------------------------------------------------------------------------
(***************************************************************************)
(* The console's keys.  Unless a read fails on a keyboard still there, and *)
(* so lets go of it while btkey waits: what the console believes down is   *)
(* down on a keyboard nobody has grabbed, and whenever btkey is about to   *)
(* take what is there, nothing comes into the set on the way.              *)
(***************************************************************************)
NoFlaky == "flaky" \notin Environment

ConsoleInv ==
  /\ kb.console \subseteq down
  /\ kb.console \cap (other \cup (kb.grabbed \ kb.dead)) = {}
  /\ running /\ waiting => plugged \subseteq kb.devices \/ kb.had = {}

\* A keyboard is grabbed at once only with its key up.
LEMMA TakenStealsNone ==
  ASSUME TypeInv, NEW k, Sound(k), ~k.asleep, Take(k), Ready(k),
         plugged \subseteq k.devices \/ k.had = {}, UNCHANGED plugged,
         k.console \subseteq down, k.console \cap (k.grabbed \ k.dead) = {}
  PROVE  /\ kb'.console = k.console
         /\ kb'.console \cap (kb'.grabbed \ kb'.dead) = {}
         /\ waiting' => plugged' \subseteq kb'.devices \/ kb'.had = {}
<1>1. CASE HeldKeys(k) # {}
  BY <1>1, WaitFacts DEF Take, Sound
<1>2. CASE HeldKeys(k) = {}
  <2> DEFINE g == Grab(k)
  <2>1. /\ kb'.grabbed = g.grabbed /\ kb'.dead = g.dead
        /\ kb'.console = g.console /\ ~waiting'
    BY <1>2, TakeFacts DEF Sound, Take
  <2>2. /\ g.console = k.console
        /\ k.dead \cap k.grabbed \cap g.grabbed \subseteq g.dead
        /\ g.grabbed \subseteq k.grabbed \cup (Held(k) \ other)
    BY GrabFacts DEF Sound
  <2> QED
    BY <1>2, <2>1, <2>2 DEF HeldKeys
<1> QED
  BY <1>1, <1>2

LEMMA ConsoleInductive ==
  ASSUME NoWaitPlug, NoFlaky
  PROVE  SetInv /\ WatchInv /\ ConsoleInv /\ [Next]_vars => ConsoleInv'
<1> SUFFICES ASSUME SetInv, WatchInv, ConsoleInv, [Next]_vars
             PROVE  ConsoleInv'
  OBVIOUS
<1>0. TypeInv /\ Sound(kb) /\ kb \in KB
  BY DEF SetInv, TypeInv
<1>1. ASSUME NEW p \in Path, KeyDown(p)
      PROVE  ConsoleInv'
  <2>1. /\ UNCHANGED <<plugged, other, session>> /\ down' = down \cup {p}
    BY <1>1 DEF KeyDown
  <2>2. /\ kb'.devices = kb.devices /\ kb'.dead = kb.dead
        /\ kb'.grabbed = kb.grabbed /\ kb'.had = kb.had
        /\ kb'.console =
             IF Exclusive(p) THEN kb.console ELSE kb.console \cup {p}
    BY <1>0, <1>1, KeyFacts
  <2> QED
    BY <2>1, <2>2 DEF session, Exclusive, ConsoleInv
<1>2. ASSUME NEW p \in Path, KeyUp(p)
      PROVE  ConsoleInv'
  <2>1. /\ UNCHANGED <<plugged, other, session>> /\ down' = down \ {p}
    BY <1>2 DEF KeyUp
  <2>2. /\ kb'.devices = kb.devices /\ kb'.dead = kb.dead
        /\ kb'.grabbed = kb.grabbed /\ kb'.had = kb.had
        /\ kb'.console = IF Exclusive(p) THEN kb.console ELSE kb.console \ {p}
    BY <1>0, <1>2, KeyFacts
  <2> QED
    BY <2>1, <2>2 DEF session, Exclusive, ConsoleInv
<1>3. ASSUME NEW p \in Path, Plug(p)
      PROVE  ConsoleInv'
  BY <1>3 DEF Plug, Pluggable, NoWaitPlug, ConsoleInv
<1>4. ASSUME NEW p \in Path, Unplug(p)
      PROVE  ConsoleInv'
  <2>1. ~waiting' /\ other' = other \ {p} /\ down' = down \ {p}
    BY <1>4 DEF Unplug, Pluggable, NoWaitPlug
  <2> QED
    BY <1>0, <1>4, <2>1, UnplugFacts DEF ConsoleInv
<1>5. ASSUME NEW p \in Path, OtherTakes(p) \/ OtherLetsGo(p)
      PROVE  ConsoleInv'
  BY <1>5 DEF OtherTakes, OtherLetsGo, session, ConsoleInv
<1>6. ASSUME NEW p \in Path, InputGone(p)
      PROVE  ConsoleInv'
  <2>1. /\ running /\ p \in kb.dead /\ kb' = Drop(kb, {p})
        /\ UNCHANGED <<machine, session>>
    BY <1>6 DEF InputGone, Served, NoFlaky
  <2>2. /\ kb'.dead = kb.dead \ {p} /\ kb'.grabbed = kb.grabbed \ {p}
        /\ kb'.had = kb.had \ {p} /\ kb'.console = kb.console
    BY <1>0, <2>1, DropFacts
  <2>3. waiting => kb.had = {}
    BY <2>1 DEF WatchInv, Ready
  <2> QED
    BY <2>1, <2>2, <2>3 DEF machine, session, ConsoleInv
<1>7. ASSUME NEW p \in Path, InputWaiting(p)
      PROVE  ConsoleInv'
  <2>1. running /\ UNCHANGED <<machine, foreground, monitor, settle, running>>
    BY <1>7 DEF InputWaiting, Served
  <2>2. CASE waiting /\ HeldKeys(kb) = {} /\ Take(Read(p))
    <3> DEFINE k == Read(p)
    <3>1. /\ Sound(k) /\ ~k.asleep /\ Ready(k) /\ k.console = kb.console
          /\ k.grabbed = kb.grabbed /\ k.dead = kb.dead
          /\ plugged \subseteq k.devices \/ k.had = {}
      BY <1>0, <2>1, <2>2, ReadFacts DEF WatchInv, Ready, SetInv, InFrontInv,
         AwayInv, ConsoleInv
    <3> HIDE DEF k
    <3>2. Take(k)
      BY <2>2 DEF k
    <3> QED
      BY <1>0, <2>1, <3>1, <3>2, TakenStealsNone DEF machine, ConsoleInv
  <2>3. CASE kb' = Read(p) /\ UNCHANGED waiting
    BY <1>0, <2>1, <2>3, ReadFacts DEF machine, ConsoleInv
  <2> QED
    BY <1>7, <2>2, <2>3 DEF InputWaiting
<1>8. ASSUME NEW p \in Path, Input(p)
      PROVE  ConsoleInv'
  BY <1>0, <1>8, InputFacts DEF machine, session, ConsoleInv
<1>9. CASE Settle
  <2> DEFINE k == Rescan(Discard(kb), TRUE)
  <2>1. /\ Take(k) /\ Sound(k) /\ ~k.asleep /\ Ready(k)
        /\ plugged \subseteq k.devices /\ k.console = kb.console
        /\ k.grabbed \ k.dead \subseteq kb.grabbed \ kb.dead
    BY <1>9, SettleIsReady
  <2> HIDE DEF k
  <2>2. UNCHANGED machine
    BY <1>9 DEF Settle
  <2> QED
    BY <1>0, <2>1, <2>2, TakenStealsNone DEF machine, ConsoleInv
<1>10. CASE RescanTimer
  <2> DEFINE gone == kb.devices \ plugged
  <2>1. /\ kb' = Rescan(kb, foreground) /\ UNCHANGED machine
    BY <1>10 DEF RescanTimer
  <2>2. /\ kb'.devices = plugged /\ kb'.dead = kb.dead \ gone
        /\ kb'.grabbed = kb.grabbed \ gone /\ kb'.console = kb.console
    <3>1. foreground \in BOOLEAN
      BY <1>0 DEF TypeInv
    <3> QED
      BY <1>0, <2>1, <3>1, RescanFacts
  <2> QED
    BY <2>1, <2>2 DEF machine, ConsoleInv
<1>11. CASE ComeForward
  <2> DEFINE k == Rescan(Wake(kb), TRUE)
  <2>1. /\ Take(k) /\ Sound(k) /\ ~k.asleep /\ Ready(k)
        /\ plugged \subseteq k.devices /\ k.console = kb.console
        /\ k.grabbed = {}
    BY <1>11, ForwardIsReady
  <2> HIDE DEF k
  <2>2. UNCHANGED machine
    BY <1>11 DEF ComeForward
  <2> QED
    BY <1>0, <2>1, <2>2, TakenStealsNone DEF machine, ConsoleInv
<1>12. CASE LeaveForeground \/ Stop
  <2>1. UNCHANGED machine /\ ~(running' /\ waiting')
    BY <1>12 DEF LeaveForeground, Stop
  <2>2. kb'.grabbed = {} /\ kb'.console = kb.console
    BY <1>0, <1>12, LetGoFacts
  <2> QED
    BY <2>1, <2>2 DEF machine, ConsoleInv
<1>13. CASE UNCHANGED vars
  BY <1>13 DEF vars, machine, session, ConsoleInv
<1> QED
  BY <1>1, <1>2, <1>3, <1>4, <1>5, <1>6, <1>7, <1>8, <1>9, <1>10, <1>11,
     <1>12, <1>13 DEF Next, Machine, Inputs

\* Whatever keyboards come and go: waiting for every key to come up before it
\* grabs anything, btkey never takes a key-up away from the console.
THEOREM ConsoleKeepsItsKeys ==
  ASSUME NoWaitPlug, NoFlaky
  PROVE  Spec => []ConsoleKeepsNoKey
<1>1. Init => ConsoleInv
  BY DEF Init, ConsoleInv
<1>2. SetInv /\ WatchInv /\ ConsoleInv /\ [Next]_vars => ConsoleInv'
  BY ConsoleInductive
<1>3. ConsoleInv => ConsoleKeepsNoKey
  BY DEF ConsoleInv, ConsoleKeepsNoKey
<1> QED
  BY <1>1, <1>2, <1>3, SetInvariant, WatchInvariant, PTL DEF Spec

-----------------------------------------------------------------------------
(***************************************************************************)
(* The keyboards there are.  Unless they come and go before btkey is first *)
(* in front, and reads fail only on what is gone: in front, told of every  *)
(* change and with none settling, no device that died is still served, and *)
(* each keyboard there is in the set while btkey waits and, once it has    *)
(* taken them, grabbed or refused.                                         *)
(***************************************************************************)
NoEarlyPlug == "earlyplug" \notin Environment

TakenInv ==
  /\ running /\ ~foreground => kb.dead = {}
  /\ running /\ foreground /\ monitor = "watching" /\ ~settle =>
       /\ kb.dead \cap (kb.watches \ kb.stale) = {}
       /\ waiting => plugged \subseteq kb.devices
       /\ ~waiting => plugged \subseteq kb.grabbed \cup kb.refused

\* Taking them leaves none out.
LEMMA TakenIsWhole ==
  ASSUME TypeInv, NEW k, Sound(k), ~k.asleep, Take(k), UNCHANGED plugged,
         plugged \subseteq k.devices, k.dead \cap k.grabbed \subseteq k.stale,
         HeldKeys(k) # {} => k.dead \subseteq k.stale
  PROVE  /\ kb'.dead \cap (kb'.watches \ kb'.stale) = {}
         /\ waiting' => plugged' \subseteq kb'.devices
         /\ ~waiting' => plugged' \subseteq kb'.grabbed \cup kb'.refused
<1>1. CASE HeldKeys(k) # {}
  BY <1>1, WaitFacts DEF Take, Sound
<1>2. CASE HeldKeys(k) = {}
  <2> DEFINE g == Grab(k)
  <2>1. /\ kb'.devices = g.devices /\ kb'.grabbed = g.grabbed
        /\ kb'.dead = g.dead /\ kb'.refused = g.refused /\ ~waiting'
        /\ kb'.stale = g.stale \ (g.devices \ g.grabbed)
    BY <1>2, TakeFacts DEF Sound, Take
  <2>2. /\ Sound(g) /\ g.open = g.grabbed
        /\ g.devices \ g.grabbed \subseteq g.refused
        /\ plugged \subseteq g.devices
        /\ g.dead \subseteq k.dead \cap k.grabbed
        /\ k.stale \cap g.dead \subseteq g.stale
    BY GrabFacts DEF Sound
  <2>3. g.dead \subseteq g.grabbed /\ g.dead \subseteq g.stale
    BY <2>2 DEF Sound
  <2> QED
    BY <2>1, <2>2, <2>3
<1> QED
  BY <1>1, <1>2

LEMMA TakenInductive ==
  ASSUME NoEarlyPlug, NoFlaky
  PROVE  SetInv /\ TakenInv /\ [Next]_vars => TakenInv'
<1> SUFFICES ASSUME SetInv, TakenInv, [Next]_vars PROVE TakenInv'
  OBVIOUS
<1>0. TypeInv /\ Sound(kb) /\ kb \in KB
  BY DEF SetInv, TypeInv
<1>1. ASSUME NEW p \in Path, KeyDown(p) \/ KeyUp(p)
      PROVE  TakenInv'
  <2>1. plugged' = plugged /\ session' = session
    BY <1>1 DEF KeyDown, KeyUp
  <2>2. /\ kb'.devices = kb.devices /\ kb'.dead = kb.dead
        /\ kb'.grabbed = kb.grabbed /\ kb'.refused = kb.refused
        /\ kb'.watches = kb.watches /\ kb'.stale = kb.stale
    BY <1>0, <1>1, KeyFacts
  <2> QED
    BY <2>1, <2>2 DEF session, TakenInv
<1>2. ASSUME NEW p \in Path, Plug(p)
      PROVE  TakenInv'
  BY <1>2 DEF Plug, Changed, SetInv, InFrontInv, TakenInv
<1>3. ASSUME NEW p \in Path, Unplug(p)
      PROVE  TakenInv'
  <2>1. /\ UNCHANGED <<foreground, waiting, monitor, running>>
        /\ running /\ foreground => settle'
        /\ running /\ ~foreground => kb.open = {}
    BY <1>3 DEF Unplug, Changed, Pluggable, NoEarlyPlug, SetInv, InFrontInv,
       AwayInv
  <2> QED
    BY <1>0, <1>3, <2>1, UnplugFacts DEF TakenInv
<1>4. ASSUME NEW p \in Path, OtherTakes(p) \/ OtherLetsGo(p)
      PROVE  TakenInv'
  BY <1>4 DEF OtherTakes, OtherLetsGo, session, TakenInv
<1>5. ASSUME NEW p \in Path, InputGone(p)
      PROVE  TakenInv'
  <2>1. /\ running /\ p \in kb.dead \cap (kb.watches \ kb.stale)
        /\ UNCHANGED <<machine, session>>
    BY <1>5 DEF InputGone, Served, NoFlaky
  <2> QED
    BY <2>1 DEF session, TakenInv
<1>6. ASSUME NEW p \in Path, InputWaiting(p)
      PROVE  TakenInv'
  <2>1. /\ running /\ foreground /\ ~kb.asleep
        /\ UNCHANGED <<machine, foreground, monitor, settle, running>>
        /\ kb.grabbed \subseteq kb.watches
    BY <1>6 DEF InputWaiting, Served, SetInv, InFrontInv, AwayInv
  <2>2. CASE waiting /\ HeldKeys(kb) = {} /\ Take(Read(p))
    <3>1. CASE monitor = "watching" /\ ~settle
      <4> DEFINE k == Read(p)
      <4>1. /\ Sound(k) /\ ~k.asleep /\ HeldKeys(k) = {}
            /\ plugged \subseteq k.devices
            /\ k.dead \cap k.grabbed \subseteq k.stale
        BY <1>0, <2>1, <2>2, <3>1, ReadFacts DEF TakenInv
      <4>2. Take(k)
        BY <2>2
      <4> HIDE DEF k
      <4> QED
        BY <1>0, <2>1, <4>1, <4>2, TakenIsWhole DEF machine, TakenInv
    <3> QED
      BY <2>1, <3>1 DEF TakenInv
  <2>3. CASE kb' = Read(p) /\ UNCHANGED waiting
    BY <1>0, <2>1, <2>3, ReadFacts DEF machine, TakenInv
  <2> QED
    BY <1>6, <2>2, <2>3 DEF InputWaiting
<1>7. ASSUME NEW p \in Path, Input(p)
      PROVE  TakenInv'
  BY <1>0, <1>7, InputFacts DEF machine, session, TakenInv
<1>8. CASE Settle
  <2> DEFINE d == Discard(kb)
             k == Rescan(d, TRUE)
  <2>1. /\ running /\ foreground /\ foreground' /\ ~kb.asleep
        /\ UNCHANGED machine /\ kb.grabbed \subseteq kb.watches
        /\ kb.dead \cap (kb.watches \ kb.stale) = {} /\ Take(k)
    BY <1>8 DEF Settle, SetInv, InFrontInv, AwayInv
  <2>2. /\ Sound(d) /\ d.devices = kb.grabbed /\ ~d.asleep
        /\ d.dead \subseteq d.stale
    BY <1>0, <2>1, DiscardFacts
  <2> HIDE DEF d
  <2>3. /\ k.devices = plugged /\ ~k.asleep /\ k.dead \subseteq k.stale
    <3> DEFINE gone == d.devices \ plugged
    <3>1. /\ k.devices = plugged /\ k.asleep = d.asleep
          /\ k.dead = d.dead \ gone /\ k.stale = d.stale \ gone
      BY <1>0, <2>2, RescanFacts DEF Sound
    <3> HIDE DEF k
    <3> QED
      BY <2>2, <3>1
  <2>4. Sound(k)
    BY <1>0, <2>2, RescanSound DEF Sound
  <2> HIDE DEF k
  <2> QED
    BY <1>0, <2>1, <2>3, <2>4, TakenIsWhole DEF machine, TakenInv
<1>9. CASE RescanTimer
  BY <1>9 DEF RescanTimer, SetInv, AwayInv, TakenInv
<1>10. CASE ComeForward
  <2> DEFINE w == Wake(kb)
             k == Rescan(w, TRUE)
  <2>1. /\ foreground' /\ kb.dead = {} /\ UNCHANGED machine /\ Take(k)
    BY <1>10 DEF ComeForward, TakenInv
  <2>2. Sound(w) /\ ~w.asleep /\ w.dead = {}
    BY <1>0, <2>1, WakeFacts
  <2> HIDE DEF w
  <2>3. k.devices = plugged /\ ~k.asleep /\ k.dead = {}
    BY <1>0, <2>2, RescanFacts DEF Sound
  <2>4. Sound(k)
    BY <1>0, <2>2, RescanSound DEF Sound
  <2> HIDE DEF k
  <2> QED
    BY <1>0, <2>1, <2>3, <2>4, TakenIsWhole DEF machine, TakenInv
<1>11. CASE LeaveForeground \/ Stop
  BY <1>0, <1>11, LetGoFacts DEF LeaveForeground, Stop, TakenInv
<1>12. CASE UNCHANGED vars
  BY <1>12 DEF vars, machine, session, TakenInv
<1> QED
  BY <1>1, <1>2, <1>3, <1>4, <1>5, <1>6, <1>7, <1>8, <1>9, <1>10, <1>11,
     <1>12 DEF Next, Machine, Inputs

\* However they come and go once btkey has been in front, while it waits too:
\* told of changes and done with them, it has every keyboard there is that it
\* was not refused, and watches it (settle_devices, rescan_devices, grab_all).
THEOREM TakesEveryKeyboard ==
  ASSUME NoEarlyPlug, NoFlaky
  PROVE  Spec => []EveryKeyboardTaken
<1>1. Init => TakenInv
  BY DEF Init, TakenInv
<1>2. SetInv /\ TakenInv /\ [Next]_vars => TakenInv'
  BY TakenInductive
<1>3. SetInv /\ TakenInv => EveryKeyboardTaken
  BY DEF SetInv, InFrontInv, AwayInv, TakenInv, EveryKeyboardTaken
<1> QED
  BY <1>1, <1>2, <1>3, SetInvariant, PTL DEF Spec

-----------------------------------------------------------------------------
(***************************************************************************)
(* The phone's keys.  A plain key is believed down only on a keyboard that *)
(* is held; what is believed of such a keyboard, and what the phone has    *)
(* but was not lent, is so, or there is something to read that will say    *)
(* so.  A modifier may be believed, and so lent, on a keyboard that the    *)
(* console still has, and what is believed of one changes without the      *)
(* phone being told (sync_modifiers): the two sets are kept apart here.    *)
(***************************************************************************)
Answered(k) == (k.believed \cap k.grabbed) \cup (k.phone \ k.lent)

Told(k) ==
  /\ k.grabbed \cap other \subseteq k.dead
  /\ k.believed \ ModKey \subseteq k.grabbed
  /\ k.lent \subseteq ModKey
  /\ k.phone \ k.lent \subseteq k.grabbed
  /\ \A p \in Answered(k) : p \in k.ready \/ p \in down \ k.dead

LEMMA RescanIsTold ==
  ASSUME TypeInv, NEW k, NEW front \in BOOLEAN, Sound(k), Told(k)
  PROVE  Told(Rescan(k, front))
<1> DEFINE gone == k.devices \ plugged
           r == Rescan(k, front)
<1>1. /\ r.devices = plugged /\ r.dead = k.dead \ gone
      /\ r.ready = k.ready \ gone /\ r.grabbed = k.grabbed \ gone
      /\ gone = {} => /\ r.believed = k.believed /\ r.phone = k.phone
                      /\ r.lent = k.lent
      /\ gone # {} => /\ r.phone = r.believed /\ r.lent = r.phone \ r.grabbed
                      /\ r.believed
                           \subseteq HeldKeys(r) \cap (k.believed \cup ModKey)
  BY RescanFacts DEF Sound
<1> HIDE DEF r
<1>2. CASE gone = {}
  <2>1. /\ r.dead = k.dead /\ r.ready = k.ready /\ r.grabbed = k.grabbed
        /\ r.believed = k.believed /\ r.phone = k.phone /\ r.lent = k.lent
    BY <1>1, <1>2
  <2> QED
    BY <2>1 DEF Told, Answered, r
<1>3. CASE gone # {}
  <2>1. /\ r.believed \subseteq plugged \cap (down \ r.dead)
        /\ r.believed \ ModKey \subseteq k.believed
        /\ r.phone = r.believed /\ r.lent = r.phone \ r.grabbed
    BY <1>1, <1>3 DEF HeldKeys, Held
  <2> HIDE DEF gone
  <2>2. r.believed \ ModKey \subseteq r.grabbed
    BY <1>1, <2>1 DEF Told, gone
  <2>3. r.grabbed \cap other \subseteq r.dead
    BY <1>1 DEF Told
  <2> QED
    BY <2>1, <2>2, <2>3 DEF Told, Answered, r
<1> QED
  BY <1>2, <1>3

LEMMA DiscardIsTold ==
  ASSUME NEW k, Sound(k), Told(k)
  PROVE  Told(Discard(k))
<1>1. Answered(Discard(k)) = Answered(k) /\ Answered(k) \subseteq k.grabbed
  BY DiscardFacts DEF Sound, Told, Answered
<1> QED
  BY <1>1, DiscardFacts DEF Sound, Told

LEMMA TakenIsTold ==
  ASSUME TypeInv, NEW k, Sound(k), ~k.asleep, Told(k)
  PROVE  Told(Taken(k))
<1>1. CASE HeldKeys(k) # {}
  BY <1>1, WaitFacts DEF Sound, Told, Answered
<1>2. CASE HeldKeys(k) = {}
  <2> DEFINE g == Grab(k)
             r == Taken(k)
  <2>1. /\ r.grabbed = g.grabbed /\ r.dead = g.dead /\ r.ready = g.ready
        /\ r.believed \subseteq
             (g.believed \ ModKey) \cup (ModKey \cap (down \ g.dead))
        /\ r.phone = g.phone /\ r.lent = g.lent
    BY <1>2, TakeFacts DEF Sound
  <2>2. /\ g.dead \subseteq k.dead
        /\ k.dead \cap k.grabbed \cap g.grabbed \subseteq g.dead
        /\ g.grabbed \cap other \subseteq k.grabbed
        /\ g.believed \subseteq k.believed \cup ModKey
        /\ \A p \in g.believed \cap k.grabbed :
             /\ p \in g.grabbed
             /\ p \in k.ready => p \in g.ready
    BY GrabFacts DEF Sound
  <2>3. \/ /\ g.phone = k.phone /\ g.lent = k.lent
           /\ k.grabbed \subseteq g.grabbed
           /\ k.grabbed \cap k.ready \subseteq g.ready
        \/ /\ g.phone = g.believed /\ g.believed \subseteq down \ g.dead
           /\ g.phone \ g.lent \subseteq g.grabbed
           /\ g.lent \ ModKey \subseteq k.believed \ k.grabbed
    BY GrabFacts DEF Sound
  <2> HIDE DEF g, r
  <2>4. g.believed \ ModKey \subseteq k.believed \cap k.grabbed
    BY <2>2 DEF Told
  <2>5. r.grabbed \cap other \subseteq r.dead
    BY <2>1, <2>2 DEF Told
  <2>6. r.believed \ ModKey \subseteq r.grabbed
    BY <2>1, <2>2, <2>4
  <2>7. r.lent \subseteq ModKey /\ r.phone \ r.lent \subseteq r.grabbed
    BY <2>1, <2>3 DEF Told
  <2>8. ASSUME NEW p \in r.believed
        PROVE  p \in r.ready \/ p \in down \ r.dead
    BY <2>1, <2>2, <2>4, <2>8 DEF Told, Answered
  <2>9. ASSUME NEW p \in r.phone \ r.lent
        PROVE  p \in r.ready \/ p \in down \ r.dead
    BY <2>1, <2>2, <2>3, <2>9 DEF Told, Answered
  <2> QED
    BY <2>5, <2>6, <2>7, <2>8, <2>9 DEF Told, Answered, r
<1> QED
  BY <1>1, <1>2

LEMMA PhoneInductive == SetInv /\ Told(kb) /\ [Next]_vars => Told(kb)'
<1> SUFFICES ASSUME SetInv, Told(kb), [Next]_vars PROVE Told(kb)'
  OBVIOUS
<1>0. TypeInv /\ Sound(kb) /\ kb \in KB /\ Answered(kb) \subseteq kb.grabbed
  BY DEF SetInv, TypeInv, Told, Answered
<1>1. ASSUME NEW p \in Path, KeyDown(p) \/ KeyUp(p)
      PROVE  Told(kb)'
  <2>1. other' = other /\ down' \cup {p} = down \cup {p}
    BY <1>1 DEF KeyDown, KeyUp
  <2>2. /\ kb'.dead = kb.dead /\ kb'.grabbed = kb.grabbed
        /\ kb'.ready = Heard(p) /\ kb'.lent = kb.lent
        /\ kb'.believed = kb.believed /\ kb'.phone = kb.phone
    BY <1>0, <1>1, KeyFacts
  <2>3. kb.ready \subseteq Heard(p)
    BY DEF Heard
  <2>4. p \in Answered(kb) \ kb.dead => p \in Heard(p)
    BY <1>0 DEF Heard, Held, Told, Sound
  <2> QED
    BY <2>1, <2>2, <2>3, <2>4 DEF Told, Answered
<1>2. ASSUME NEW p \in Path, Plug(p)
      PROVE  Told(kb)'
  BY <1>2 DEF Plug, Told, Answered
<1>3. ASSUME NEW p \in Path, Unplug(p)
      PROVE  Told(kb)'
  <2>1. other' = other \ {p} /\ down' = down \ {p}
    BY <1>3 DEF Unplug
  <2>2. /\ kb'.dead = kb.dead \cup (kb.open \cap {p})
        /\ kb'.ready = kb.ready \cup (kb.open \cap {p})
        /\ kb'.grabbed = kb.grabbed /\ kb'.lent = kb.lent
        /\ kb'.believed = kb.believed /\ kb'.phone = kb.phone
    BY <1>0, <1>3, UnplugFacts
  <2>3. Answered(kb) \subseteq kb.open
    BY <1>0 DEF Sound
  <2> QED
    BY <2>1, <2>2, <2>3 DEF Told, Answered
<1>4. ASSUME NEW p \in Path, OtherTakes(p) \/ OtherLetsGo(p)
      PROVE  Told(kb)'
  BY <1>4 DEF OtherTakes, OtherLetsGo, Exclusive, Told, Answered
<1>5. ASSUME NEW p \in Path, InputGone(p)
      PROVE  Told(kb)'
  <2>1. kb' = Drop(kb, {p}) /\ UNCHANGED machine
    BY <1>5 DEF InputGone
  <2>2. /\ kb'.devices = kb.devices \ {p} /\ kb'.dead = kb.dead \ {p}
        /\ kb'.grabbed = kb.grabbed \ {p}
        /\ kb'.phone = kb'.believed /\ kb'.lent = kb'.phone \ kb'.grabbed
        /\ kb'.believed \subseteq HeldKeys(kb') \cap (kb.believed \cup ModKey)
    BY <1>0, <2>1, DropFacts
  <2>3. /\ kb'.believed \subseteq (down \ kb'.dead) \ {p}
        /\ kb'.believed \ ModKey \subseteq kb.believed
    BY <2>2 DEF HeldKeys, Held
  <2> QED
    BY <2>1, <2>2, <2>3 DEF machine, Told, Answered
<1>6. ASSUME NEW p \in Path, InputWaiting(p)
      PROVE  Told(kb)'
  <2>1. /\ running /\ ~kb.asleep /\ UNCHANGED machine
        /\ p \notin kb.dead \cup kb.grabbed
    BY <1>6 DEF InputWaiting, Served, SetInv, InFrontInv, AwayInv
  <2>2. Sound(Read(p)) /\ ~Read(p).asleep /\ Told(Read(p))
    BY <1>0, <2>1, ReadFacts DEF Told, Answered
  <2> DEFINE k == Read(p)
             r == Taken(k)
  <2>3. kb' = r \/ kb' = k
    BY <1>6 DEF InputWaiting, Take
  <2> HIDE DEF k
  <2>4. Told(k) /\ Told(r)
    BY <1>0, <2>2, TakenIsTold DEF k
  <2> HIDE DEF r
  <2> QED
    BY <2>1, <2>3, <2>4 DEF machine, Told, Answered
<1>7. ASSUME NEW p \in Path, Input(p)
      PROVE  Told(kb)'
  <2>1. p \in kb.grabbed \ kb.dead
    BY <1>7 DEF Input
  <2>2. /\ kb'.ready = kb.ready \ {p} /\ kb'.dead = kb.dead
        /\ kb'.grabbed = kb.grabbed
        /\ kb'.phone = kb'.believed /\ kb'.lent = kb'.phone \ kb.grabbed
        /\ kb'.believed \subseteq kb.believed \cup {p}
        /\ p \in kb'.believed => p \in down
        /\ UNCHANGED <<machine, session>>
    BY <1>0, <1>7, InputFacts
  <2> QED
    BY <2>1, <2>2 DEF machine, Told, Answered
<1>8. CASE Settle
  <2>1. /\ ~kb.asleep /\ UNCHANGED machine
        /\ kb' = Taken(Rescan(Discard(kb), TRUE))
    BY <1>8 DEF Settle, Take, SetInv, InFrontInv, AwayInv
  <2>2. Sound(Discard(kb)) /\ ~Discard(kb).asleep /\ Told(Discard(kb))
    BY <1>0, <2>1, DiscardFacts, DiscardIsTold
  <2> DEFINE k == Rescan(Discard(kb), TRUE)
  <2>3. Sound(k) /\ ~k.asleep /\ Told(k)
    BY <1>0, <2>2, RescanFacts, RescanSound, RescanIsTold DEF Sound
  <2> HIDE DEF k
  <2>4. Told(Taken(k))
    BY <1>0, <2>3, TakenIsTold
  <2> QED
    BY <2>1, <2>4 DEF machine, Told, Answered, k
<1>9. CASE RescanTimer
  <2>1. kb' = Rescan(kb, foreground) /\ UNCHANGED machine
    BY <1>9 DEF RescanTimer
  <2>2. Told(Rescan(kb, foreground))
    BY <1>0, RescanIsTold DEF TypeInv
  <2> QED
    BY <2>1, <2>2 DEF machine, Told, Answered
<1>10. CASE ComeForward
  <2> DEFINE w == Wake(kb)
             k == Rescan(w, TRUE)
  <2>1. /\ UNCHANGED machine /\ kb' = Taken(k)
        /\ kb.grabbed = {} /\ kb.believed = {} /\ kb.phone = {}
    BY <1>10 DEF ComeForward, Take, SetInv, AwayInv
  <2>2. Sound(w) /\ ~w.asleep /\ Told(w)
    BY <1>0, <2>1, WakeFacts DEF Told, Answered
  <2> HIDE DEF w
  <2>3. Sound(k) /\ ~k.asleep /\ Told(k)
    BY <1>0, <2>2, RescanFacts, RescanSound, RescanIsTold DEF Sound
  <2> HIDE DEF k
  <2>4. Told(Taken(k))
    BY <1>0, <2>3, TakenIsTold
  <2> QED
    BY <2>1, <2>4 DEF machine, Told, Answered
<1>11. CASE LeaveForeground \/ Stop
  BY <1>0, <1>11, LetGoFacts DEF Told, Answered
<1>12. CASE UNCHANGED vars
  BY <1>12 DEF vars, machine, Told, Answered
<1> QED
  BY <1>1, <1>2, <1>3, <1>4, <1>5, <1>6, <1>7, <1>8, <1>9, <1>10, <1>11,
     <1>12 DEF Next, Machine, Inputs

\* Whatever is plugged, pulled, grabbed or in front, but while btkey waits for
\* the keys, and however often a read fails: a key that the phone believes
\* down, modifiers included, is down, or btkey has the news of its release
\* still to read; and all that it may be left with is a modifier it was told
\* of by keyboard_gone with the console still holding that keyboard
\* (keyboard_gone, drop_device, sleep_devices).
THEOREM NothingIsLeftDown ==
  ASSUME NoWaitPlug
  PROVE  Spec => []NothingSticks
<1>1. Init => Told(kb)
  BY DEF Init, Told, Answered
<1>2. SetInv /\ Told(kb) /\ [Next]_vars => Told(kb)'
  BY PhoneInductive
<1>3. SetInv /\ WatchInv /\ Told(kb) => NothingSticks
  <2> SUFFICES ASSUME SetInv, WatchInv, Told(kb)
               PROVE  NothingSticks
    OBVIOUS
  <2>1. CASE running /\ foreground
    BY <2>1 DEF SetInv, InFrontInv, WatchInv, Told, Answered, NothingSticks
  <2>2. CASE ~(running /\ foreground)
    BY <2>2 DEF SetInv, AwayInv, OverInv, Told, NothingSticks
  <2> QED
    BY <2>1, <2>2
<1> QED
  BY <1>1, <1>2, <1>3, SetInvariant, WatchInvariant, PTL DEF Spec
=============================================================================
