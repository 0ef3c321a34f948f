# btkey in TLA+

btkey turns a Linux text console into a Bluetooth keyboard: while the console
it runs on is in front it grabs the machine's keyboards and sends what is typed
to a phone as HID reports; while another console is in front it lets go of
everything. This directory models its concurrent and stateful parts, checks
them with TLC on small instances, and proves the central results with TLAPS for
every value of the constants. File and line references are to the repository
(`src/` in `PROJECT.json`).

1. [Inventory](#1-inventory): the components, their state, what is hard
2. [The modules](#2-the-modules): which models what, and how it corresponds
3. [The runs](#3-the-runs): what each shows, with its bounds
4. [Departures](#4-departures): where the code does not do what it promises
5. [Fairness](#5-fairness)
6. [The proofs](#6-the-proofs)
7. [What is not modelled](#7-what-is-not-modelled)
8. [Plan](#8-plan)

## 1. Inventory

btkey is one process with one GLib main loop (`session.py`), a child that
watches it (`guardian.py`), and optionally a private `bluetoothd` (`btd.py`).
Handlers of the loop run one at a time and to their end; everything else (user,
kernel, console, BlueZ, phone, guardian) acts between two of them, and in a few
places in the middle of one.

| Component | State | Operations | Talks to |
|---|---|---|---|
| Keystroke forwarding (`session.py`) | `pressed`, `modifiers`, `foreground`, `waiting_for_release`, `top_row` | `on_device_input`, `handle_key`, `send_keyboard`, `release_all`, `set_foreground`, `take_keyboards`, `sync_modifiers`, `on_connection_state`, `quit` | kernel (evdev), phone (link), console (VT), `Pairing` |
| Keyboards and hotplug (`evdev.py`, `session.py`) | `KeyboardSet.devices`, each device's fd, grab, saved LEDs and repeat; watches by path; settle timer | `refresh`, `grab_all`, `take`, `release`, `forget`, `discard_refusals`, `open_all`, `close`; watch, settle, rescan, drop, wake, sleep | kernel, guardian (the debts) |
| Passkey entry (`pairing.py`, `btlink.Agent`) | `active`, `digits`, `length`, `timeout`; the callbacks of the open call | request, cancel, digits, Backspace, Enter, Escape, timeout | BlueZ over D-Bus |
| Typing and sweep (`typist.py`, `sweep.py`) | `queue`, `timer`, `pending`, `escape_timer`; `running`, poll timer | text in, drain tick, escape timeout, clear; start, poll, cancel | link, `Session.pressed` |
| Watchdog (`session.py`, `guardian.py`) | `heartbeat_timer`; armed or not, deadline | watch_myself, heartbeat, disarm; the guardian's wait | a pipe |
| Lifetime (`cli.py`, `single.py`, `btd.py`, `guardian.py`) | the lock, `unit_was_active`, the guardian's record | every step of start and stop; `_cleanup` | systemd, kernel, console |
| HID link (`btlink.py`) | `control`, `interrupt`, `peer`, `_known_host`, the dial | accept, adopt, refuse, reconnect, `_dial`, disconnect | hosts over L2CAP, `Session` |
| Lock lights (`session.py`, `btlink.py`) | `link.leds`, `Session.leds`, `leds_from_host`, the keyboards' LEDs | `note_lock_key`, `on_host_leds`, `push_leds`, `restore_leds` | host, kernel |
| Class of device (`advertising.py`) | `seen`, `unsignalled`, `class_watch` | `start`, `class_changed`, `recheck`, `put_back`, `stop` | bluetoothd, the controller |
| Console (`vt.py`, `session.py`) | the watched attribute, its readiness | `watch`, `rearm`, `active`, `switch_to`; `watch_foreground`, `console_changed`, `poll_foreground` | kernel, `Session.foreground` |
| Escape decoder (`escapes.py`), keymap (`kbmap.py`), probe (`probe.py`) | none: pure functions; the layout file, `Typist.keymap` and `pending` hold what they make | `decode`; `build`, `load_layout`; `capture_strokes`, `parse_capture`, `to_layout`, `import_sweep` | phone, console's keymap, `Typist` |
| Display, journal, FIFO, config, socket shims | descriptors | I/O | |

What is hard about it, and never reached by `tests/`:

* a key is pressed under one regime (grabbed, forwarded, connected, with one
  function row) and released under another;
* a write fails in the middle of a handler: `disconnect`, the state callback
  and `release_all` run inside `send_keyboard`, before its caller goes on;
* EVIOCGKEY and EVIOCGRAB are two calls, with the user typing between them;
* D-Bus answers cross withdrawals, LED reports cross lock keys, a dial crosses
  an incoming connection;
* the console changes between a look and the watch, and reading the news is
  what takes it away;
* bluetoothd recomputes the class while a write or a signal is on its way;
* what a phone answered to one probe decides what the next one asks, and both
  are read back from a text that holds nothing else;
* btkey may die between any two steps, and what it changed has to be undone;
* a handler that blocks looks to the guardian like one that hangs.

`hazards` in `PROJECT.json` lists them at their lines with the properties that
watch over them. What makes each component correct is the *Properties* section
of its module; the questions asked are listed with the runs below.

## 2. The modules

| Module | Models | Composes with |
|---|---|---|
| `Forwarding` | one keyboard with its kernel queue, Session's handlers, the phone, the console | stands alone; link, pairing and console are variables of it |
| `Strays` | `Forwarding` with a history of the keys whose release was taken on its way | extends `Forwarding` |
| `Keyboards` | several keyboards, `KeyboardSet`, the watches, hotplug | stands alone; a keystroke is cut to "the key at this node" |
| `Pairing` | `btlink.Agent` and `Pairing`, with BlueZ and both directions of D-Bus | |
| `Typist` | `Typist` and `Sweep`, the shared link and Session's own keys | implements `TypedText` |
| `TypedText` | the promise: each stroke asked for is heard once, in order | abstract |
| `Watchdog` | heartbeats, teardown, the guardian's deadline, in seconds | |
| `Console` | which console is in front, and how btkey comes to know | extends `Watchdog`; implements it (proved) |
| `Lifetime` | several btkeys one after another, the machine, the guardian's cleanup | |
| `Link` | the two L2CAP channels, hosts, dials, the remembered host | |
| `Leds` | the four copies of a lock | extends `Link`; implements it (proved) |
| `Advertising` | the class of device, bluetoothd, writes and signals on their way | |
| `Escapes` | `escapes.match` and `decode`, as operators | |
| `Keymap` | `kbmap` and `Typist.load_keymap`, as operators | extends `Escapes` |
| `Probe` | `probe` and `cli.import_sweep`, as operators | extends `Escapes` |
| `Paste` | a phone, its layout learnt, and text pasted on it | extends `Keymap` and `Probe` |
| `Forwarding_proofs`, `Keyboards_proofs`, `Typist_proofs`, `Lifetime_proofs`, `Paste_proofs` | the theorems | each extends its module (`Forwarding_proofs`: `Strays`, and so `Forwarding`) |
| `Pairing_proofs` | those of `Pairing` and of `Advertising`, the two things btkey and bluetoothd say to each other | the second names its own (`ClassInit`, `ClassNext`, ...), so that both can be extended |
| `Console_proofs`, `Leds_proofs` | those of `Watchdog` and `Console`, of `Link` and `Leds` | the second of each implements the first |
| `MC*` | model values for TLC | |

How the models correspond to the code:

* **A handler is an action.** One main loop runs one handler at a time, so
  everything it calls is in the action. The one handler that is split is
  `on_device_input` with several events in one read: the user may type between
  them (`reading` counts those read and not handled) though btkey does nothing
  else. In `Lifetime` a step is a system call that leaves something behind,
  since btkey may be killed after each.
* **A failing write** is a disjunct of the action that writes (`WriteFails`),
  ending in `LinkLost`, as the callback of `disconnect` does before the caller
  goes on.
* **Forwarding.** `down` is what EVIOCGKEY answers; `events` is the kernel's
  queue of the descriptor with, in front, the `reading` events already read;
  `phone` is what the host last read; `console` is what the console's own
  handler believes down. `inFront` and `notice` are VT_GETSTATE and the sysfs
  watch. Keys are grouped as the guards of `handle_key` tell them apart: plain,
  function, modifier (of which Alt and Ctrl), media. `Strays` adds `stray`, a
  history variable: the keys the phone may go on believing down, because a
  pairing took their release, the function row changed under them, or they were
  pressed in the rest of a read that gave the console up. What sticks is said
  relative to it, so that these cases are in the run and in the theorems.
* **Keyboards.** One record `kb` holds `KeyboardSet`, the watches and the debts,
  so that the helpers compose as the code calls them: `Drop`, `Rescan`,
  `Taken`, `Wake`, `Sleep` are functions from one such record to the next.
  `stale` are watches on a descriptor closed since, `dead` are descriptors
  whose device is gone. `lent` is a history of what the phone was told is down
  on keyboards that the console still had. A node that does not open
  (`evdev.py:470`) is one not plugged in yet: it is opened when the directory
  next changes, which a change of its attributes does.
* **Pairing.** `pending` is the callbacks the Agent holds; BlueZ's messages and
  btkey's answers are two queues; a passkey is a number of digits. `replaced`
  is a history of the calls whose request found an entry still open.
* **Typist.** A report is modifiers and keys; `asked` and `heard` are ghost
  variables over which `TypedText` is stated. One key and one modifier of the
  keyboard share the link at any time, and the text may use both; what the
  keyboard reports is `Session.pressed` and `modifiers`, as in the code. The escape decoder is cut to one
  Escape and one rest that makes an arrow of it.
* **Watchdog.** Time is whole seconds; nobody who is free to act lets one pass.
  `silence` is a ghost clock. The guardian reads at once. Coming to the front is
  two steps, the keyboards taken (`ComeForward`, `pc = "taking"`) and the
  watchdog armed (`WatchMyself`), and a btkey may hang between the two.
* **Console.** A change of console is asked for (`wanted`) and made later
  (`SwitchDone`), which makes the attribute `ready`. `console_changed` reads the
  attribute and then asks the kernel; since a console may change between the
  two, they are two steps, with `looking` between them. What is seen goes to
  `Watchdog`'s `ComeForward` and `LeaveForeground`, so that the guardian's
  promises are checked with the switches that cause them.
* **Advertising.** `class` is bluetoothd's property. `wire` and `signals` are
  writes and PropertiesChanged on their way; `due` says which of them arrive
  before the next look, both taking far less than `RECHECK_SECONDS`. `start` is
  three steps, since bluetoothd does not wait for it.
* **Escapes, Keymap, Probe.** Characters are strings and a keystroke is a key
  with its modifiers. A layout is a function from characters to keystrokes; the
  layout file is the set of its lines. What is printed about them is left out.
* **Paste.** `case` is what does not change: a phone (what its keys make,
  whether it composes, whether it makes quotes curly) and which texts are
  pasted. The phone is a machine of one text and one dead key waiting. A run
  goes through learning, in one probe or two, through building and loading a
  keymap, or loads the console's at once; after that text arrives in chunks and
  the escape timer may fire between two of them. That each keystroke reaches
  the phone once and in order is `Typist`'s question, and not asked here again.
* **Lifetime.** `told` is the guardian's record; the lock is an inherited
  descriptor, so it is free only when taker and guardian have both ended.
* **Link.** A listener's backlog is a set of hosts; a channel the host has
  closed and btkey has not read as closed is in `closed`.
* **Leds.** Each action of `Link` is joined with what it does to the lights
  (`LinkUp`, `LinkDown`, `LinkOther`); the rest leaves `Link` alone. One lock
  stands for five bits that never meet, one keyboard for all that are held.
  `replaced` and `written` are history variables: the connection came over one
  that btkey had not yet read as gone; Session has written the light since the
  link last came or went.

Every module has a constant `Environment` (`ClassEnvironment` in
`Advertising`), a subset of the named `Events` of what may happen around btkey. Most are ordinary life, switched on by a run to
keep its state space small; some lead to a departure, listed in section 4, and
stay off in the passing run of the property they break.

The definitions whose name begins with `Mut` are plausible mistakes in the
definition after them. Each property of a passing run is violated when one of
them takes the place of its original (`mutants` in `PROJECT.json`).

## 3. The runs

Passing runs (with their distinct states):

| Run | Asks | Bounds | States |
|---|---|---|---|
| `forwarding_reports` | With a pairing and the function row changing between press and release, and the link lost while no modifier is held: are the phone's keys those last reported (`ReportIsCurrent`)? Does btkey know each modifier that is down (`EveryModifierKnown`)? | 3 keys (Escape, F1, Alt), 1 slot, reads of 2, queue of 2 | 1.4M |
| `forwarding_sticks` | With all of that, the link lost at any time, in the middle of a write too, and keys pressed in the breath before the grab: what may stick on the phone (`NothingSticks`), or be said to it from the background (`BackgroundSilent`), and which key-ups does a grab take from the console (`ConsoleKeepsNoKey`)? Does btkey believe no modifier down that is up (`NoPhantomModifier`), and does every wait end (`WaitEnds`)? | 2 keys (F1, Alt), reads of 2, queue of 2 | 1.1M |
| `keyboards_hold` | Is what is watched open, every keyboard taken in the end, and no key left down on phone or console, for several keyboards, plugged and unplugged at any time but during a wait, with another program grabbing and a directory that may not be watched? | 3 nodes, 2 of them with a modifier | 490k |
| `pairing_entry` | Is what is typed going somewhere exactly while it is asked for; is each call answered once, and settled; is the timeout the entry's own, whether BlueZ withdraws a call before the next or not? | 3 calls of 1 or 2 digits | 1,508 |
| `typist_typed` | With a key and a modifier of the keyboard pressed meanwhile: does the phone hear every stroke (`PromiseKept`, that `Typist` implements `TypedText`), with a stroke's modifiers let go apart (`ReleasesApart`), nothing of a paste left down after, Escape decided, a sweep that is "done" whole? | 3 strokes asked, chunks of 2, queue limit 2, 2 polls; the keyboard's key and modifier are ones the text uses | 78k |
| `watchdog_deadline` | Is only a hung btkey killed, and one hung in its loop in time; is one in the background left alone; does btkey come to know of each change of console (`NoNewsIsMissed`, `FollowsTheConsole`)? | the source's 5 s and 10 s, handlers up to 4 s, a teardown up to 20 s, 3 messages, 2 consoles | 83k |
| `lifetime_crash` | Whatever step btkey is killed at: one at a time, one daemon, the machine put back? | 2 btkeys, 1 keyboard, 2 repeats | 8k |
| `leds_lights` | Are both channels one host's, the one Session was told of; is a second host refused; does every dial end; is the lock btkey shows the host's, once all reports are read; is the light the owner's, whether the console's own lock is on or off? | 2 hosts, 2 keys and reports in flight | 497k |
| `advertising_class` | While the class is wrong, is something on its way that mends it (`NothingForgotten`), and is it mended (`IsPutBack`)? | 4 classes (the wanted one, one with more bits, two with fewer), 3 changes by bluetoothd | 24k |
| `paste_roundtrip` | Does the layout file say of each character the cheapest way that types it, and of no other (`LayoutIsThePhones`)? Is a text, however cut up, what the phone writes (`PhoneReads`)? | 1,728 phones of 2 rows at 2 levels with one character typed, and one phone with texts of 5 characters of an alphabet of 7 in chunks of 2 | 129k |

Why these bounds are enough to mean something. Keyboard reports saturate at
one slot with two keys, so that the roll-over code is reached; a read of two is
the least that leaves an event in hand; a queue of two holds a press and its
release. Three nodes give one keyboard grabbed, one refused and one arriving.
Three calls give an entry, one that takes its place or follows it, and one
after that. Three strokes
are the least with a repeat, a change of modifier and one behind it. Two hosts
are one connected and one to refuse. Two consoles are ours and another; which
other does not matter to btkey. Four classes are the least with a wrong class
after another wrong one, and a right one that is not the wanted. Two rows at two
levels give a row of several keys and one of a single one, a dead key plain or
shifted (the marker's key makes nothing when shifted), and on them every way for two keys to make the same
character; five characters are the longest sequence with two parameters. Two
btkeys are one whose guardian is
cleaning up and one that wants the lock; each may start again any number of
times, so nothing is bounded there but the number at once. Bounds that cut
behaviour (`MaxCalls`, `MaxAsked`, `MaxPolls`, `MaxPipe`, `MaxFlight`,
`MaxMoves`, `MaxChunk`, `Capacity`) are constants named in their modules and stand in guards.

Runs with a violation (each is a finding of `PROJECT.json`):

| Run | Property | What TLC shows |
|---|---|---|
| `keyboards_stale` | `WatchedIsOpen` | While btkey waits for a key to come up it watches every keyboard, held or not. If the directory changes then, `settle_devices` calls `discard_refusals`, which closes a keyboard with its watch on; `unwatch_device` says "Always before closing its fd". |
| `typist_latetext` | `AllHeard` | Text that comes after the last report and before the tick that finds the queue empty is compared with nothing, so a repeat of the last key gets no gap. |

Deadlock is checked where btkey goes on for ever. It is off in
`watchdog_deadline` (btkey and the guardian end), in `pairing_entry` (after
`MaxCalls` BlueZ asks no more), in `advertising_class` (after `stop`) and in
`paste_roundtrip` (a text of the longest length has been typed).

## 4. Departures

Each line below is a behaviour TLC exhibits when the event named is added to
the `Environment` of the run named (or the constant or the property changed as
said), with the property it violates. Where the property can name what goes
wrong it excepts just that, and the event is in the passing run; the others are
kept out of the passing runs so that the rest of each property is still checked.

| Run | With | Violates | What happens |
|---|---|---|---|
| `forwarding_sticks` | `stray` left out | `BackgroundSilent` | Alt+Fn in the middle of a read: `handle_key` lets go, and the loop of `session.py:345` goes on with the rest of that read, sending it after `release_all` (`session.py:719`). |
| `forwarding_sticks` | `stray` left out | `NothingSticks` | A key pressed while forwarding and released during an entry: the release goes to the entry (`session.py:382`). |
| `forwarding_sticks` | `stray` left out | `NothingSticks` | The function row is translated by the table of the moment (`session.py:389`), so a release may not match its press. |
| `forwarding_sticks` | `breath` left out | `ConsoleKeepsNoKey` | A key that goes down between the look at `held_keys` and the grab (`session.py:556`): the console has heard its press and not its release, until that key comes up again in its hearing. |
| `forwarding_sticks` | `"overflow"` | `NothingSticks` | SYN_DROPPED is ignored (`evdev.py:384`); a release lost with it is never made up for. |
| `forwarding_reports` | `"linkloss"` | `EveryModifierKnown` | `release_all` forgets modifiers that are still held (`session.py:219`); Alt+Fn does not work until Alt is pressed anew. |
| `forwarding_sticks`, `forwarding_reports` | `"overflow"` | `NoPhantomModifier`; `EveryModifierKnown` | The press or the release of a modifier may be the event lost. |
| `keyboards_hold` | `lent` left out | `NothingSticks` | A keyboard that went while another console was in front is dropped on the way back (`wake_devices`, `session.py:535`), and `keyboard_gone` tells the phone of the Alt held on another. `take_keyboards` then waits for that Alt, does not forward its release and tells the phone nothing when it takes the grab: Alt stays down there until the next key. `session.py:588` explains why the modifiers must not be adopted at the switch. |
| `keyboards_hold` | `"earlyplug"` | `EveryKeyboardTaken` | A keyboard plugged in before btkey first looks (`session.py:701`, `session.py:873`). |
| `keyboards_hold` | `"flaky"` | `ConsoleKeepsNoKey`, `EveryKeyboardTaken` | A keyboard whose read fails is dropped though it is still there (`session.py:327`): nobody looks for it until the directory changes, and what is down on it is no longer asked for. |
| `keyboards_hold` | `"waitplug"` | `ConsoleKeepsNoKey`, `NothingSticks` | While waiting, a rescan changes which keyboards are asked for their keys (`session.py:557`, `session.py:582`). |
| `typist_typed` | `"latetext"`, `"latesweep"` | `PromiseKept`, `DoneIsWhole` | The finding of `typist_latetext` above; a sweep begun in that moment loses its first stroke the same way. |
| `typist_typed` | `Held` never true | `PromiseKept` | A stroke of a key that the keyboard holds makes no difference to the report, and the phone does not hear it: the queue knows nothing of `Session.pressed` (`typist.py:253`, `typist.py:306`). The properties count such a stroke as heard. |
| `typist_typed` | `modifiers` left out of `ReleasesApart` | `ReleasesApart` | A modifier held on the keyboard is let go of by the first report of a paste, in one with its press (`typist.py:255` looks at the queue alone, `session.py:417` sends the modifiers held). |
| `typist_typed` | `"latecancel"` | `LinkGivenBack` | A cancel after the last report and before the last tick: `clear` finds an empty queue and sends nothing (`typist.py:280`). |
| `typist_typed` | `"quickback"` | `DoneIsWhole` | The link lost and back between two polls of a sweep: it finds the queue empty and says it is done (`sweep.py:116`). |
| `pairing_entry` | `replaced` left out | `PromptIsLive` | A second request with no Cancel before it: `Agent` stores the new callbacks, then `on_request` clears the old entry, whose `abandon_passkey` answers through them. The second call is refused and what is typed goes nowhere, the case the comment at `pairing.py:57` is written for. BlueZ makes one call at a time, and withdraws it first. |
| `watchdog_deadline` | `MaxBlock = 25` | `SparesTheLiving` | `connect_audio` waits for D-Bus for up to 25 s (`btlink.py:591`), longer than the guardian does. |
| `watchdog_deadline` | `pc = "loop"` left out | `HangIsBounded` | The keyboards are taken before the watchdog is armed (`session.py:708`, `session.py:709`), and the teardown disarms it and then sends with the keyboards still held (`session.py:925`): nobody times a btkey that hangs in either place. |
| `watchdog_deadline` | `"latewatch"` | `NoNewsIsMissed` | A change between the first look and the watch (`session.py:912`, `session.py:913`): the read that arms the watch takes its news away, and btkey thinks itself in front until the next change. |
| `watchdog_deadline` | `"switchfails"` | `NoNewsIsMissed` | `switch_vt` lets go before it asks (`session.py:790`), and does not take the keyboards back when the kernel makes no change. (A refused change that btkey let nothing go for is among the steps of the passing run.) |
| `watchdog_deadline` | `"overtaken"` | `NoNewsIsMissed` | The change btkey asked for is overtaken by one back to its own console: nothing changes, and nothing is said. |
| `lifetime_crash` | `"midcrash"` | `PutBack` | Killed between the write that hushes a keyboard and the word to the guardian (`evdev.py:650`, `session.py:168`). |
| `lifetime_crash` | `"slowdeath"` | `PutBack` | The guardian sends SIGTERM to the private `bluetoothd` and starts the unit without waiting (`guardian.py:242`). |
| `lifetime_crash` | `"stuck"` | `PutBack` | A private `bluetoothd` that survives SIGKILL has the name when the unit is started (`btd.py`). |
| `leds_lights` | `"halves"` | `AnnouncedIsConnected`, `SecondHostRefused` | A host whose control channel was refused or lost may still have its interrupt channel accepted, and only that one announces it (`btlink.py:683`). |
| `leds_lights` | `"silentlock"` | `LockIsKnown` | A host with the lock on that does not report is inferred wrong until it is reconnected; `session.py:316` says one press corrects that, but a press toggles both. |
| `leds_lights` | `"mixed"` | `LockIsKnown` | That some host reported (`leds_from_host`) is never reset, so the lock of a later host that does not report is not followed. |
| `leds_lights` | `~replaced` left out | `LockIsKnown`, `LightIsTheOwners` | A host back before its loss is read: Session starts from off and the link's copy does not, so the report is dropped as a repetition (`btlink.py:936`). |
| `leds_lights` | `"unheard"` | `LockIsKnown` | A lock key that changes nothing in the report, seven keys being down with it or the same key on another keyboard, is inferred to have toggled the lock (`session.py:404`). |
| `leds_lights` | `written` left out | `LightIsTheOwners` | A new connection resets the lock and writes no lights (`session.py:208`): the console's stay, where its lock is on. |
| `advertising_class` | `"writefails"` | `NothingForgotten`, `IsPutBack` | A write that fails is logged, and the class that called for it counts as dealt with (`advertising.py:158`). |
| `advertising_class` | `"window"` | `NothingForgotten`, `IsPutBack` | A class recomputed between `start`'s write and its watch is read as the one told of (`advertising.py:133`), and never compared with the wanted one. |
| `advertising_class` | `"relapse"` | `NothingForgotten`, `IsPutBack` | With no watch or a lost signal, a class put back and set again to what the last look saw is taken for the same difference: `recheck` only says so (`advertising.py:179`). `btlink.py:528` says the backstop still puts it back. |
| `paste_roundtrip` | `"lookalike"` | `LayoutIsThePhones` | A phone with as many accent keys as a layout capture has rows (16): its accent capture reads as a layout (`cli.py:257` tells them apart by shape). |
| `paste_roundtrip` | the marker's key makes the accent of a dead key | `LayoutIsThePhones` | A dead key's field that did not settle ends in the marker's own character, and three of them in a row split one too early; `probe.py:42` takes a doubled marker for unambiguous. |

Further ones that follow from the code, and that no run shows: a wait for keys
ends only with an event on a keyboard not grabbed, so that it lasts when the
awaited keyboard goes (`session.py:329`, `session.py:336`); with the directory
not watchable, the timer refreshes the set and grabs nothing
(`session.py:641`); a dial to the remembered host replaces another that has
connected meanwhile, without a word to Session that the first went
(`btlink.py:749`; `SecondHostRefused` allows for it); `DESIGN.md:121` gives the
heartbeat and the deadline as 2 s and 15 s where the code has 5 s and 10 s.

## 5. Fairness

* `Forwarding`: the loop serves a readable descriptor, events in hand, and the
  console's notice. The user, the link and the console owe nothing: `WaitEnds`
  is about keys that are up already, and excuses a wait that a key pressed
  again or a switch away cuts short.
* `Pairing`: messages are delivered and served; a running timeout expires. The
  user need not type.
* `Typist`: timers expire. Nobody types or cancels by fairness.
* `Console`: a change of console asked for is made, the guardian runs, time
  passes, and whatever of the console's news, look or timer is ready is served.
  btkey is not fair beyond that: it may hang.
* `Leds`: the outcome of a dial (`DialGoesOn`, `Link`'s `Dialled` with its
  lights), which a timer of btkey's own ends (`DIAL_TIMEOUT_MS`,
  `btlink.py:816`) if the kernel does not.
* `Advertising`: a write reaches the controller, a signal the main loop, `start`
  goes on, and the timer fires and does not for ever find the property
  unreadable. bluetoothd owes nothing.

All of it is weak fairness: each of these stays enabled until it is taken,
being a timer, a message in a queue, or a readable descriptor.

## 6. The proofs

TLAPS checks every theorem here to its leaves, for every value of the constants
that satisfies the assumptions of the module (`KeyAssumption`,
`BoundAssumption`, `KeyboardsAssumption`, `PairingAssumption`,
`TypistAssumption`, `LinkAssumption`, `LedsAssumption`, `WatchdogAssumption`,
`ConsoleAssumption`, `LifetimeAssumption`, `AdvertisingAssumption`,
`PasteAssumption`), and for every `Environment` but where said. A theorem that
excludes an event names the exclusion (`NoOverflow`, `NoLate`, ...) in the
proof module; the events excluded are those of section 4, which shows that the
property fails with them, but for `NoHalves` in `LightIsOwners`.

**Forwarding_proofs.** `TypeCorrect`; `ReportsCurrent`, that the phone's keys
and modifiers are those btkey has last reported, or none; `ConsoleKept`, that a
grab takes from the console the key-ups of the breath before it and of no other
key; `NoPhantom`, that a modifier btkey
believes down is down or has its release in the queue. `ReportIsCurrent` and
`TypeOK` are inductive together once it is known that a phone that is gone has
nothing down (`ReportInv`). `ConsoleKeepsNoKey` is inductive with `TypeOK`, a
grab finding down only the keys of the breath. `NoPhantomModifier` is not: whether a modifier's
release is still to come depends on every event queued, and on what `modifiers`
becomes when they are handled one by one. Its strengthening says of the whole
queue that the last event of each key agrees with what is down (`Truth`), and
lemmas carry that through a press (`TruthAppend`), an event handled
(`TruthTail`) and a read thrown away (`TruthDrain`); it takes `NoOverflow`.
`ModifiersKnown` is the converse, and takes `NoLinkLoss` besides.

`LeavingLetsGo` is the action property behind `BackgroundSilent`: the step that
loses the console leaves the phone with nothing down, whatever the size of the
read it happens in. What the phone hears after that (`SilentInBackground`) is
what is left of that read: `QuietInv` adds that the phone of a btkey without the
keyboard holds only keys of `stray` (`Strayed`), and that with a read still in
hand it is in the background, its modifiers strays too. `NothingStuck` uses all
of these: each key of `pressed`, and a consumer usage that is down, has its press
behind it and its release in the queue, or is down, or is a stray (`StickInv`).
Neither bounds the read, and neither excludes a pairing or a function row;
`NothingStuck` takes `NoOverflow`.

**Keyboards_proofs.** All of `KeyboardSet` and of Session's handling of it acts
on the one record `kb`, so each operator has a lemma that says what it makes of
the parts of the record, and no later proof opens it. `SetInv` says what the
console in front, elsewhere, and the end each mean for the set, in every
environment. Upon it stand four invariants, each with the events it needs
excluded: `WatchesAreOpen` (`NoWaitPlug`: while nothing waits, what is watched is
grabbed, so that what `settle_devices` forgets is not watched), from it
`ConsoleKeepsItsKeys` (`NoFlaky` too: every key that is down on a keyboard that
btkey has is one it asks for), `TakesEveryKeyboard` (`NoEarlyPlug`, `NoFlaky`;
waiting is not excluded) and `NothingIsLeftDown` (`NoWaitPlug`), for any keys
as modifiers: its invariant `Told` keeps apart what is believed or told of
keyboards btkey holds (`Answered`) and what was `lent`.

**Typist_proofs.** `GivenBack` is all but inductive, needing that a host that is
gone has nothing down; it excludes only the late cancel. The rest is about text,
sweeps and queues of any length. Two predicates relate the queue to what was
asked for: `Spells` counts the presses in it, each being the next stroke asked
for and the last the last; `Apart` says that each report is news to the host
after the one before it, with no modifier let go of in a press, and `News` says
so of the first one and what the host has read last, but for the key and the
modifiers the keyboard holds: a report of the keyboard between two of the queue
makes it true at once. No theorem excludes any such report. One lemma each
for a stroke queued (`StrokeQueued`, `PlainQueued`) and for a report taken off
(`QueueDrained`, `SpellsTail`); `TextQueued`, `SweepQueued` and `DecodedType` carry
them through the folds `QueueAll`, `Plainly` and `Decoded`. That takes an
induction, and the library's induction theorems quantify over operators. Here
the property is a set of numbers (`UpTo`): its complement has a least element
(`LeastNumber`), because strict inclusion of finite sets is well-founded
(`FS_StrictSubsetOrderingWellFounded`) and the numbers to `n` are such sets;
and a fold is a function on sets of indices, whose existence (`FoldExists`) is
what the `CHOOSE` in its definition needs. `TypistInv` adds to the two predicates
that what was heard is the beginning of what was asked for, and all of it when
no timer runs. With `NoLate` (no text, sweep or cancel between the last report
and the tick after it) follow `AllIsHeard`, `ReleaseIsApart`, and `PromiseIsKept`:
every step of `Typist` is an `Ask`, a `Hear`, a `GiveUp` of `TypedText`, or a
stutter. `DoneIsDone` adds `NoQuickBack`, and that a sweep that has not seen the
link go has its strokes still asked for (`SweepInv`).

**Leds_proofs**, of `Link`. `TypeCorrect` includes that btkey has a peer exactly
while it has a channel. `HostIsOne`: `OneHost` says who was announced only of a
link with both channels; it is inductive once that is said of the interrupt
channel alone (`HostInv`), whose adoption is what announces. `AnnouncedHasBoth` and
`SecondIsRefused` assume that no host keeps half a connection (`NoHalves`); they
rest on `QueueInv`, that a host waits on the interrupt listener only while it
waits on the control listener too or has been adopted there, which every way to
lose a control channel has to keep.

Of `Leds`. `LedsImplementLink`: joining the lights to the link adds no
behaviour of the link, so every theorem of `Link` holds of `Leds`. By step
simulation, the refinement mapping being the identity on the link's variables.
`LedsTypeCorrect`, and `NothingIsCarriedOver`: no lock state outlives the
connection it came from. `LightIsOwners` takes `NoHalves`:
the property is inductive once it is known that only a host that is connected
can have `replaced` another (`LightInv`). With `"halves"` TLC finds no violation
within the bounds of `leds_lights`; the assumption is what the invariants of the
link rest on. `KnownLock` takes `NoHalves` and `OneKind`: hosts that all report
or none does, and no lock key that the report of keys does not show. `LockIsKnown` speaks
of the moment when nothing is on its way; the invariant (`KnownInv`) speaks of
every other: the last report on its way, or else what the link has, is the
host's lock, and without reports the lock shown differs from the host's exactly
when an odd number of lock keys is in flight.

**Console_proofs**, of `Watchdog`. `BeatInv` relates three things that change at
different times: `beating`, where btkey is, and what the guardian will know once
the pipe is read (`WillBe`: the last message that arms or disarms, if there is
one, else what it knows now). From it follow `LeftAlone`, and with the pipe empty
`armed = beating`. `LivingSpared` is the arithmetic of the two constants: since
no second passes with a message unread, each one read leaves the guardian's
`quiet` at 0 and the next heartbeat a whole interval away; after that
`quiet + beat` stays within the heartbeat, and once the beat is due
`quiet + left` below the heartbeat and the longest handler (`PaceInv`). It takes
`Prompt`, `Heartbeat < Deadline /\ Heartbeat + MaxBlock <= Deadline`: the source's
5 s and 10 s spare handlers of up to 5 s, and TLC finds the kill at 6.
`HangBounded` takes no assumption: a btkey that hangs in its loop is beating, so
the guardian is armed and counts along (`silence <= quiet`, `HangInv`). Of a
hang before the arming or after the disarming the property says nothing, and
nothing bounds it (section 4).

Of `Console`. `ConsoleImplementsWatchdog`: with the changes of console
written out, every behaviour is still one of `Watchdog`, by step simulation, so
that `GuardedThroughSwitches` takes the three theorems above over from it.
`NewsIsNotMissed` needs of the time between first look and watch that btkey is
not behind then (`NewsInv`), and assumes `Orderly`, `VTEnvironment = {}`:
without it the three departures are there.

**Pairing_proofs.** `TimeoutIsItsOwn` is inductive by itself, in every
environment. `AnsweredOnce` says of `outbox` that no call is in it twice, which
takes what is not said there: that the call in hand has not been answered, and
that those still in `inbox` come after all that have been (`FreshInv`).
`PromptAlive` is inductive as it stands, in every environment. `PromptedInTurn`
says of a BlueZ that withdraws a call before the next (`NoRetry`) that the
passkey is asked for exactly while a call can be answered: requests and cancels alternate in `inbox`, and whether the first to
come is one or the other is known from whether the last one served left a call
to answer (`TurnInv`, `PromptInv`).

Of `Advertising`, in the same module. `ClassTypeCorrect`, and `NeverForgotten`,
which strengthens `NothingForgotten` with what covers a class that goes wrong
while `start` is under way (`StartIsCovered`: the write, or a signal after the
watch). It assumes `Reliable`: no write fails, no change slips into the window,
and a class bluetoothd set just before is not set again in silence.

**Lifetime_proofs.** `TypeCorrect`, and `OnlyOne`: whoever is busy, as btkey or
as guardian, has the lock (`LockInv`), which `OneAtATime` does not say and
which makes it inductive. It holds for any number of btkeys and every
`Environment`. With it, whoever takes a step is the only one at work (`Alone`),
and the rest of the proofs follow one instance. `DaemonIsOne`, in every
environment: once btkey has asked about the unit it knows if there is one to
stop, and once it has stopped it nothing starts it underneath (`DaemonInv`).
`NoDebtIsStale` and `MachineIsPutBack` have invariants of one form: while some
instance is busy, what it has changed is what it or its guardian still has to
undo (`RepeatsOf`, `MachineOf`), and while none is, the machine is as it was
(`NoRepeats`, `NoMachine`). A crash hands the first from btkey to its guardian,
the guardian's last step turns it into the second. Both take `NoMidCrash`; the
machine takes `Orderly` (no `"slowdeath"`, no `"stuck"`) too.

**Paste_proofs.** `ThePhoneReads`: for every phone, text and cut, with a console
shared with the phone or a layout measured on it, what the phone writes is what
the text says (`PhoneReads`). The functions it is about are recursive, and nest
one fold in another; each is taken the way of `Typist_proofs`, by a set of indices
(`UpTo`) and the existence of the function its `CHOOSE` or recursion names
(`FoldExists`, `Walk`). Four steps:

* *Decoding* (`escapes.py`). A found sequence is the same whatever follows it,
  and one still arriving takes all there is. Hence `DecodeCutAnywhere`: the items
  and the tail of a text are those of its first part, and of that part's tail
  with the rest behind it. It holds of every text and needs no assumption.
* *Reading*. What `PhoneReads` asks of a text says nothing of `match`'s length:
  a sequence is whole by its form (`IsSequence`). The two agree
  (`SequenceIsMatched`, `MatchedIsSequence`), so the items decoded mean, one by
  one, what the text reads as.
* *Typing*. Strokes on a screen that waits with no dead key append what they write
  on an empty one, so a text is typed if each of its characters is. With what
  has been read, what is held back and the screen in one invariant (`Reached`),
  this gives `PhoneReads` from `EachIsTyped`.
* *Keymaps*. `EachTypes`: the strokes for each character type what it comes to
  and leave no dead key waiting (`EachIsTyped`; TLC finds it to hold on
  `paste_roundtrip`, where the one-character texts of `PhoneReads` say the same).
  Of a layout measured it follows from `LayoutIsThePhones`
  (`ALearntLayoutTypes`). Of the console's it follows from `kbmap.build` alone
  (`AConsoleTypes`): `keysym_to_char` and `keysym_to_diacritic` read back what
  the kernel wrote, type, bias and flipped bits (`KeysymsAreRead`); the first
  position of a character makes it; and a composition of the kernel's table is
  one of the phone's.

`PasteAssumption` says that a key a sequence stands for is none of a layout's.
`ConsoleAssumption` of `Paste` is what it means that the console shares the
phone's layout, which `load_keymap` takes for granted when no layout was
measured: a position of `TABLES` for each key, one of the keysyms of
`linux/keyboard.h` for what it makes (any code point below 0xf000 bare, or
Latin-1 with a type), and a compose table, of any length and in any order, of
which every entry is what the phone makes of the two. TLC evaluates both. With the console's keymap the result stands
on these alone (`ThePhoneReadsUnmeasured`); with a measured layout too,
`ThePhoneReads` and `EachTypes` take `[]LayoutIsThePhones` as their hypothesis: it
is what a run checks, see below.

What a theorem shares with a run is named in `PROJECT.json`.

Only model-checked: liveness (`WaitEnds`, `EveryCallSettled`, `EscapeDecided`,
`DialSettles`, `FollowsTheConsole`, `IsPutBack`), which is out of TLAPS's reach
here, as is ENABLED; and `LayoutIsThePhones`. That one is not a matter of
induction alone. It says that a capture is read as it was typed, which is so of
the phones of the run and not of every phone: whether a field can be told from
the marker depends on what the marker's key makes (section 4), and whether two
captures can be told apart on how many accents there are. What a phone must be
for it is known here only by example. The theorems of `Paste_proofs` are about
everything after the layout file, and TLC about the making of it.

## 7. What is not modelled

* Telling a keyboard from other devices, finding btkey's own console
  (`vt.own_console`), sockets, the FIFO, configuration, command line, the screen
  and the journal: I/O without state that anything above depends on.
* The D-Bus set-up of the HID profile, pairing policy, the SDP record, and
  `BluetoothHID.stop`, in `Link`: done once, before and after everything.
* Display of a passkey, confirmation and authorisation, in `Pairing`: they
  answer at once and keep nothing.
* HID descriptors and key tables: constant data. `PhoneReads` takes what a
  sequence stands for from the same table as `Decode` does, so that a wrong entry
  in it would go unseen.
* A malformed layout file; the notes of a layout file; wording, layout, speech.
* The layout file as the source of accent candidates (`cli.accent_candidates`
  takes either): it lists the dead keys the capture has, in their order.
* Characters outside a phone's rows that `unicodedata` or `isprintable` tell
  apart: `Keymap` has the printable ones as a constant.

## 8. Plan

Done, in this order: `Forwarding`, `Keyboards`, `Pairing`, `Typist` over
`TypedText`, `Watchdog`, `Lifetime`, `Link`, `Leds`; then `Console` over
`Watchdog`, `Advertising`, `Escapes`, `Keymap`, `Probe` and `Paste`; proofs of
every safety property the passing runs check but `LayoutIsThePhones`.

Next:

1. Which phones `LayoutIsThePhones` holds of, as an assumption on `Cases` that
   its proof needs and a phone can be seen to meet.
2. An abstract `Session` that `Forwarding` implements: what is down on the
   phone is a subset of what is down on the keyboard, while in front.
3. `Paste` with the layout file as the source of accent candidates, and with
   UTF-8 cut in the middle of a character.
