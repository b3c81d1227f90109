# Frecon in TLA+

Frecon is the console of Chromium OS: it shows the boot animation, gives the
user virtual terminals, and hands the display over to Chrome and back.  This
directory models it, checks the models with TLC and proves parts of them with
TLAPS.  Source references are to `src/`.

## 1. The system

One process, one thread, one event loop around `select` (`main.c`).  There is
no locking, yet a lot of concurrency: the process talks to Chrome over D-Bus
with blocking calls, shares the DRM master with it through the kernel, follows
monitors and keyboards through udev, runs one child per terminal behind a
pty, and is watched by the parent that started it.

| Component | State | Operations | Talks to |
|---|---|---|---|
| Virtual terminals and hand-over (`term.c`, `main.c`, `drm.c`, `dbus_full.c`) | `terminals[]`, `current_terminal`, `in_background`, `hotplug_occured`, links in `/run/frecon` | switch, background, foreground, restart, monitor hotplug | DRM, D-Bus, everything below |
| Event loop (`main.c`) | descriptor sets and the terminal pointer of the round | select, dispatch D-Bus, udev, keyboards, ptys; restart a finished child | all |
| PTY output ring (`shl_pty.c`) | `buf`, `size`, `start`, `end` | push, grow, peek, pop | terminal emulator, kernel |
| PTY life cycle, reading and bridge (`shl_pty.c`, `term.c`) | `in_buf`, epoll set, the master, the child | open, dispatch, read, write, close, hang-up | emulator (callbacks, re-entrant), children |
| Splash animation (`splash.c`) | options, pass, image, status, time | options, load, pace, show, loop | image files, event loop, D-Bus, terminal 0 |
| DRM objects and framebuffers (`drm.c`, `fb.c`) | reference counts, framebuffer ids, dumb handles, `delayed_rmfb_fb_id` | modeset, create, destroy, close | kernel |
| Choice of the display (`drm.c`) | `g_drm` | scan, score, compare, rescan | kernel, lid |
| Font and grid (`font.c`, `term.c`) | `font_ref`, `font_scaling`, prescaled glyphs, sizes | init, free, resize, zoom | framebuffers, emulator, pty |
| Keyboards (`input.c`, `dev_full.c`) | device list, modifier flags | add, remove, read one event | udev, evdev, terminals |
| D-Bus client (`dbus_full.c`) | connection, two callbacks, libdbus' queue | init, blocking calls, signals | Chrome, session and power manager |
| Escapes and drawing (`term.c`, `fb.c`, `fb.h`, `image.c`) | the words of a framebuffer | box, image, border, on a screen turned four ways | framebuffers |
| Daemon start (`util.c`, `main.c`) | a pipe, the parent, what children inherit | daemonize, create the consoles, report | parent process, children |
| Key symbols, lite build, font data, packaging | none | none that change state | |

What is hard in it:

* **Blocking inside handlers.**  `term_foreground` waits for Chrome up to six
  times, `drm_scan` waits for master without limit.  Meanwhile Chrome, the
  monitor and the bus move on, and a request that timed out is still served.
* **State shared across restarts and hotplugs.**  Terminals are created before
  their predecessors are closed; framebuffers outlive the DRM object that was
  current; one font is counted across all terminals; two pointers to a terminal
  are kept over calls that may close it.
* **Re-entrance.**  The emulator answers from the middle of a buffer, and the
  answer dispatches the pty that fills that buffer.
* **Descriptors copied by fork** decide who notices whose end.
* **Every kernel call may fail**, and the code undoes what it had done.
* **Time and errors in the animation**, which must neither stop nor spin.
* **Mixed signed and unsigned arithmetic** in the drawing code.

What makes each correct is in section 3; `PROJECT.json` lists the hazards one by
one with the line where each bites and the property that would catch it.

## 2. Modules

| Module | Models | Run through |
|---|---|---|
| `DisplayHandoff` | abstract: who owns the display | refined by `VtSwitch` |
| `VtSwitch` | terminals, hand-over, event handlers, Chrome, kernel master, monitor | `MCVtSwitch` |
| `ByteQueue` | abstract: a queue of bytes | refined by `PtyRing` |
| `PtyRing` | the ring buffer of `shl_pty.c` | `MCPtyRing` in `MCPty` |
| `RingBits` | `ring_pow2` and `RING_MASK`, bit by bit | `MCPtyRing` in `MCPty` |
| `PtyStream` | the traffic of a terminal with its child, over a `ByteQueue` | `MCPtyStream`, alone and in `MCPty` |
| `Daemon` | parent, frecon from start to event loop, children, what they inherit | `MCDaemon` |
| `Splash` | the options and `splash_run` | `MCSplash` |
| `DrmBuffers` | drm objects, framebuffers, kernel identifiers | `MCDrmBuffers` |
| `DrmScan` | the choice of device, connector and crtc, as operators | `Display` |
| `Stepper` | the arithmetic of drawing, as operators | `Display` |
| `Display` | monitors, lid, `drm_rescan`, boxes, images, borders; composes the two above | `MCDisplay`, alone and in `MCDevices` |
| `FontGrid` | the shared font and the sizes derived from it | `MCFontGrid` |
| `Input` | keyboards, udev, one round of the event loop | `MCInput` in `MCDevices` |

`MCPty` joins the two specifications of a pty, and `MCDevices` the display and the
keyboards, what udev tells of.  The specifications in them share no variable: a
behaviour is one of the first or one of the second (`part`), so that one run looks
at each of them alone.

Theorems are in `VtSwitchProofs`, `PtyRingProofs`, `PtyStreamProofs`,
`DaemonProofs`, `SplashProofs`, `DrmBuffersProofs`, `FontGridProofs`, each about the
module of its name, and in `DeviceProofs`, about `Stepper`, `DrmScan`, `Display` and
`Input`, what follows the devices udev tells of.

The modules meet at named places.  `PtyStream` uses of the ring only that it is a
byte queue, which is what `PtyRing` is shown to implement.  `VtSwitch` follows
which terminal is active and who has the display; `Daemon` follows which terminal
objects exist and who still holds them; both have the event loop's handlers as
actions.  `Display` decides *whether* the display changes on a rescan,
`VtSwitch` *when* a rescan may happen, `DrmBuffers` and `FontGrid` what one does
to the buffers and the sizes.

Operators whose comment begins with "Wrong:" are not part of any
specification.  Each is a plausible bug in the definition it stands next to;
`PROJECT.json` pairs them with the property that notices.

### VtSwitch

One action per handler.  A handler that never waits is one step; one that waits
is cut where it waits, with `pc` for the place and `target` for the
`term_switch_to` that has to be finished:

| Code | Actions |
|---|---|
| `term_switch_to` | `SwitchTo`, five disjuncts for its branches, `ShowVt` for its tail |
| `term_background` | `TermBackground`, then `TakeDone` when the call returns |
| `term_foreground` | `SwitchTo` (last disjunct), `ReleaseGranted`, `ReleaseFailed`, `SetMaster` |
| `drm_rescan`, `drm_scan` | `RescanDrop`, `Scan`, `Regain` |
| `term_monitor_hotplug` | `MonitorHotplug`, from udev, the lid switch and the end of a suspend |
| `main` | `Init`, `SplashFirstFrame`, `SplashSkipped`, `SplashDone`, `MainTail` |
| D-Bus signals | `LoginPromptVisible`, `SuspendDone`; `DbusConnect` for `dbus_init` |
| `main_process_events` | `RestartChild`, `PtyException` |

The environment is Chrome's DisplayService (it starts, crashes, becomes master
on its own account, serves requests in the order they were sent) and the
monitor.  `inbox` holds requests Chrome has not served, the timed-out ones
included: a D-Bus timeout does not take back the message.  `reply` is the answer
frecon waits for.  What Chrome does in `TakeOwnership` and `ReleaseOwnership`
is inferred from how frecon uses them.

### PtyRing

The record `ring` is `struct ring`.  Memory that `malloc` returned and nobody
wrote is the value `Garbage`, so reading it shows.  The two bit tricks are
constants with assumptions (`RoundUpAssumption`, `MaskAssumption`); `MCPtyRing`
gives them the code's own arithmetic from `RingBits`, so TLC checks that the
assumptions hold of it and that the ring works with it, and `CodeMeetsAssumptions`
proves the first for every width.  In `RingBits` the operators of C on bits are
set operators on the positions of the ones (`Bits`, `Number`), and the loop of
`ring_pow2` is a function of the rounds done.

### PtyStream

`calls` is the stack of `shl_pty_dispatch` calls, the innermost first, each in its
read, in the middle of parsing, or before its write.

| Code | Actions |
|---|---|
| `shl_pty_bridge_dispatch` | `BridgeDispatch` |
| `term_key_event` with `shl_pty_write`, `shl_pty_dispatch` | `KeyEvent` |
| `pty_read` | `Read`, which fills `in_buf` whoever is still reading it |
| `tsm_vte_input`, `term_read_cb`, `term_write_cb` | `Parse`, one byte; a byte in `Asks` pushes a dispatch |
| `pty_write` | `Write`, which takes what the kernel has room for |

`edge` is the ready list of the bridge's epoll instance.  `ChildWrites` and
`ChildReads` set it as an edge-triggered descriptor does.  Adding the descriptor
again after a read fails with `EEXIST` and arms nothing, as in the code.

### Daemon

| Code | Actions |
|---|---|
| `daemonize`, `main` up to `splash_run` | `Daemonize`, `InitDevices`, `SplashInit`, `PreCreate` (one terminal per step), `Report` |
| `splash_run`, the rest of `main` | `SplashRun`, `SplashFrame`, `SplashEnds`, `LeaveInteractive`, `LeaveSplash` |
| `main_process_events` | `Select` or `SelectTimesOut`, `DbusDispatch`, `InputDispatch`, `Dispatch`, `RestartCheck` |
| `get_process_events_timeout`, `main_loop` | `Top`, `Back`, `Broken` |
| the end of the process, `kill` | `Exit`, `Killed` |

A terminal object is an index in `terms` and is never reused, so that `misused`
can record a use after its `term_close`.  `held` has the pointers `splash_run` and
`main_process_events` keep across calls.  A descriptor inherited by `fork` is the
set `inherits` of masters and the flag `pipe` for the daemon pipe; from them
follow `MasterHeld` (does closing hang the child up?) and `ReportExpected` (can
the parent's read end?).  A child that exits closes its files first and can be
waited for later: `ChildExits`, then `ChildGone`.

### Splash

Options in the order `main` calls the setters, then the loop of `splash_run`
with `pc` at the places an error can leave it.  Time is the number of
milliseconds since the last image was attempted.  `errors` is `ec_ts`; the other
two counters only limit log messages and have no influence.

### DrmBuffers and FontGrid

Both follow terminals through `term_init`, `term_close`, the restart, the
splash terminal's end and the two loops of `term_monitor_hotplug`, one terminal
per step so that a state between the loops is seen.  `DrmBuffers` keeps drm
objects by address with the kernel's view of each file (framebuffers, dumb
handles, what is on the screen), and every ioctl may fail; the drm calls are
functions of that display, composed as the code composes the calls.  `FontGrid`
keeps the counted font and, per terminal, the size it computes with, the one the
screen was told and the one the child was told.  `halfMade` of `DrmBuffers` is a history of one fault: the handles
kept by a framebuffer whose making failed after its dumb buffer was made and
destroyed again (`fb.c:73-79`), until no terminal has them.  `fault` of `FontGrid`
says that a terminal failed to be set up.  They share no variable beyond
which terminals exist, so they are separate modules: their product would have
nothing to say that each does not.

### DrmScan, Stepper and Display

`DrmScan` states `find_main_monitor`, `find_crtc_for_connector`, `drm_score` and
`drm_scan`.  The loops over the devices and over the crtcs are one recursive function,
`KeepBest`.  Beside them is `BestMinor`, the best device as the comment of `drm_scan`
promises it.  `Stepper` has the arithmetic of `fb_stepper_init`,
`term_esc_draw_box`, `image_show` and `term_clear_border` with `int32_t` and
`uint32_t` of `Word` values, and beside it `Shown` and `Turned`, the visible part
of a rectangle on a turned screen.  `Display` lets monitors come and go, turns the
lid, rescans, and draws.

### Input

`devs` is the device list with the kernel's buffer of each reader.  `Enumerate` is
the scan of `dev_add_existing_input_devs`, `found` the devices it has still to look
at: `AddExisting` opens one at a time, and in between keyboards come and go.
`TryAdd` is `input_add` as both its callers see it.  `Select`,
`DevDispatch` and `InputDispatch` are the parts of one round; one key event or
one pass over all readable keyboards ends it, as `input_get_event` does.  The
number `plug` tells a keyboard from an earlier one with the same path.

## 3. What the runs show

All passing runs are exhaustive.

| Run | Instance | What it shows |
|---|---|---|
| `VtSwitch` | 2 VTs, 6 command lines, 2 connectors, 1 retry, backlog 1 | keys have one addressee, the display is free in the background, no hotplug is forgotten, the last call fits the mode, no link dangles; it implements `DisplayHandoff`; handlers come back; a delivered call gives Chrome the display |
| `Pty` | ring: 4-bit `size_t`, writes of 2, 3 pending; stream: 5 bytes of which 2 ask, 2 keys, room for 3 and 1 in the kernel | the ring is a byte queue, without garbage; input arrives once and in order; output is lost in one way only; nothing is left behind the edge-triggered descriptor |
| `Daemon` | 2 VTs, 4 command lines, 1 exit, 1 key | the parent is not misled; a closed terminal is used in two situations only; nobody outlives frecon by an inherited descriptor; output that wakes a round is read, and exits and signals are served as long as rounds keep coming |
| `Splash` | 3 images, loop counts -1, 0, 2 | pacing, one image in memory, order on the screen, a loop count above 0 ends and a negative one goes on |
| `DrmBuffers` | 2 terminals, 2 drm objects, one half made framebuffer at a time | reference counts exact; after a hotplug everybody is on the current object; framebuffers and dumb buffers each have one owner and go with it |
| `FontGrid` | 3 terminals, 2 monitors, scaling to 2 | glyphs go with the font count whatever fails; until a terminal fails, one reference each, and three sizes that agree |
| `Devices` | display: 7 machines, screens turned four ways, `int` of 64 values; keyboards: 2 paths, 2 plugs, buffer of 4 | the display chosen is the best where connector ids tell devices apart; drawing covers the visible part of what was asked, and nothing outside the framebuffer; the list follows the keyboards, chords are right, everyone is read |

Why the bounds suffice:

* *Terminals.*  `VtSwitch` has two: the splash screen's and another, which a switch,
  a restart and a return to the foreground need.  A third only adds switches
  between terminals that are treated alike, and its invariants and its refinement are
  proved for any number.  For reference counts the terminals are interchangeable
  but for terminal 0, so two are enough for one to hold an old object while
  another has moved on; three for the font, where the loops have a first, a middle
  and a last.
* *Retries* (`MaxRetry`, 5 in the code) only repeat the same step; 1 reaches the
  first and the last attempt.  The proofs hold for every number.
* *Backlog* (`MaxBacklog`): the user acts while Chrome still has one request to
  serve, and the retries of that switch pile up on it.
* *Ring*: sizes 1 to 8 (`Width` 4) include growth from every wrap position.  The
  argument of `ring_pow2` is at most 6, so its overflow is not among them: that
  part, a size that no power of two reaches, is `RingPow2Next` and
  `CodeMeetsAssumptions`, for every width, on which `RingImplementsQueue` rests.
  Not the initial 4096: a `size` of 0 plus `add + 1` never calls `ring_pow2(0)`.
* *Stream*: two bytes that ask, with bytes before, between and after, nest two
  dispatches and overwrite a buffer that still has bytes; the kernel takes one byte of
  input at a time (`KIn`), so every write with more is partial.  `KOut <= BufSize`
  because the line discipline holds at most 4096 bytes and the buffer is 16384.
* *Daemon*: one exit and one key besides the hang-ups, which are not counted; with
  two VTs the second child inherits what the first holds.  Four command lines: those
  on which a child inherits the pipe, masters of others, both or none.
* *Splash*: three images give a first, a loop start and a last image after it.
  `MaxSplashImages` is 30 in the code and also limits the error counter.
* *Drm*: identifiers `1..MaxId` (4) are what two terminals, the delayed one and a
  restart hold at once, and with one leaked there are not enough: the kernel then
  makes no more.  A terminal is leaked at most once per behaviour, since the counters
  would grow without end.  `MaxHalf` (1) half made framebuffers exist at a time, any
  number of them one after the other: one keeps a handle that a second terminal then
  gets, which takes all the terminals there are.
* *Display*: 64 values of an `int` leave room for a screen of 4 by 3, for twice the
  largest size, and for places that wrap; drawings are looked at one by one, between
  rescans.  One place is enlarged beyond an `int`.  The theorems about drawing hold
  for every `Word`.  Four of the seven machines, a laptop among them, have devices whose
  connectors are numbered apart; on the other three, laptops, the USB display has the id
  of the laptop's own socket.
* *Font*: `font_ref` is cut off at -1 (then at one less per terminal by a loop).
* *Input*: a buffer of 4 holds two events, each with its `EV_SYN`, and overflows at
  the third (`SYN_DROPPED`).  Two are needed for a modifier to change behind a
  key press that has not been read yet, the case in which what is down when a key is
  read differs from what was down when it was pressed; two plugs give two keyboards at once,
  or one path used twice while its first keyboard's events are still queued.

`CHECK_DEADLOCK FALSE` is set where the program really stops (the animation is
over, `main` ended, a division by zero) or waits for a user who need not come.

### Fairness

* `VtSwitch!ServedSpec`: weak fairness of `Continue`, since what a running handler
  waits for is a D-Bus call with a timeout, a `usleep` or a local system call, and
  of `ChromeServe`, since Chrome, while it is up, gets round to its queue (needed
  for `HandoffDelivered`, which is about what Chrome does).  Nothing is assumed of
  events: no user, no monitor, no bus.
* `Splash!LiveSpec`: weak fairness of `Frame`: reading a file, `nanosleep`,
  drawing and a round with a timeout of a microsecond all return.
* `Input!LiveSpec`, in `MCDevices!DevicesSpec`: of `Start`, the enumeration that start-up runs through, and of
  the loop, which goes round while select reports something.
* `PtyStream!LiveSpec`, in `MCPty!PtySpec`: of `Frecon`, since every call on the pty is non-blocking and
  the loop returns to a ready bridge, and of `ChildReads`, a child that reads its
  terminal.  A child that does not read stops its input, and nothing else.
* `Daemon!Spec`: of frecon's next step (its select reports what is ready), of the
  parent's read, and of the kernel ending a process that was hung up or has exited.
  Children, keys and signals need never come.  The part of `RoundServes` about exits
  and signals assumes besides, in the property itself, that rounds keep coming
  (`[]<>(pc = "restart")`): the code does not see to that, as the lost wake-ups below
  show, and the property says nothing of them.

### Where code and documents disagree

Five runs expect a violation.  Each checks one sentence of a comment or a
document; the counterexample is a behaviour of the code.

| Run | The sentence | What happens |
|---|---|---|
| `VtLinksLost` | `README.md:155`, a link for every VT | closing the old terminal after a restart removes the new one's links |
| `PtyShownAsWritten` | `README.md:159`, text written to the terminal appears | a nested dispatch overwrites bytes that wait to be parsed: when all is done these have never appeared, and the ones over them twice |
| `SplashLoopCountZero` | `README.md:45`, "Default of 0 repeats forever." | with a loop count of 0 the animation is over before its first image; the default is -1 |
| `DaemonParentHearsDeath` | `util.c:74`, "Child has died? [...] Propagate child exit code." | with the splash terminal made, the parent waits for ever |
| `DisplayDrmEqual` | `drm.c:582`, "Returns true if connector/crtc/driver have changed [...]" | `drm_equal` compares the connector id alone: when the best display is on another device under the same id, the console stays on the old one |

The models reach more states of this kind, for which no run is kept.

The hand-over:

* `drm_rescan` drops master before it scans (`drm.c:589`), so Chrome can become
  master while frecon is in the foreground, against `DESIGN-DOC.md:22`.
* "Frecon will steal master" (`term.c:1053`) is one `drmSetMaster` that fails while
  Chrome keeps the display, after which frecon goes on as if it had it.
* A terminal in the background is said to consume no keys (`term.c:1018`), but
  switching to the current VT (`term.c:881`) activates it without going to the
  foreground.
* When the bus comes up while `splash_run` looks for it (`splash.c:223`) no
  callback is registered, and the end of a suspend (`main.c:262`) is never heard.

The animation:

* `README.md:57` says `--offset` places the image; without a loop the loop offset
  is used.
* After `MAX_SPLASH_IMAGES` logged failures (`splash.c:197`) an image that was not
  drawn is treated as drawn, and the video mode is set on it.

Terminals and processes (`Daemon`):

* The exception check (`main.c:208`) looks at the terminal read before the bus was
  dispatched; when the signal of the login prompt has just closed the splash
  terminal, which a daemon with `--enable-vts` does at every boot, it is freed.
* `splash_run` keeps its pointer for all frames (`splash.c:133`); with
  `--enable-vt1` a child that exits during the animation has that terminal closed.
* A round that finds the files of a child closed before the child can be waited for
  (`main.c:225`) does not restart it, and no `SIGCHLD` is there to wake the next
  round (`shl_pty.c:522` relies on one).
* A signal that comes in during a blocking call is in libdbus' queue, not on the socket
  that select watches (`dbus_full.c:321`): it waits until something else wakes the loop.
* `util.c:77` expects `EPIPE` from a read, which a pipe never gives; the exit
  code it would propagate is never used.

Drawing and the choice of display (`Display`):

* Nor does `drm_equal` notice another monitor in the same socket, whose mode and
  crtc may differ.
* The crtc with most planes is looked for only within the first encoder that has one
  (`drm.c:105`).
* A box that is to be centred and is larger than the screen is not drawn, since the
  margin is unsigned (`term.c:286`); an empty one may leave a line of one pixel
  (`fb.c:358`).
* The scaling of the previous monitor stays on one of low density (`fb.c:225`).

Buffers, font and keyboards:

* When `drmModeAddFB` or the mapping fails (`fb.c:73-79`) the dumb buffer is destroyed
  and its handle is kept.  The kernel gives the number to the next terminal; the two
  then draw into one buffer, and the destruction of either frees it under the other.
  `BuffersAccounted` leaves out just the handles kept in this way (`halfMade`) and
  shows that nothing else is affected.
* A terminal that cannot be set up gives back a font reference it never took, or
  takes back the one `term_resize` has given back (`term.c:663`).  The count is then too
  low for good: the font may go while a terminal draws, and `term_resize` may divide by
  a scaling of 0 (`Crash`).  What holds nevertheless is in `TypeOK` and
  `GlyphsMatch`; the rest is stated for behaviours without such a failure (`fault`).
* A framebuffer whose removal is delayed until the next modeset (`drm.c:916`) is
  removed earlier when the modeset of a restarted terminal failed and then the next
  terminal cannot be set up (`drm.c:922`).
* A modifier down on a keyboard that is unplugged stays in `kbd_state`
  (`input.c:397`) until it is used on another keyboard.
* A keyboard that another process has grabbed is not tried again (`input.c:357`).
* The function keys are taken to be consecutive codes (`input.c:223`), which F11
  and F12 are not.  (Seen in the source; key codes are not modelled.)

## 4. What is proved

TLAPS checks the theorems for every value of the constants, from the assumptions
named in the modules: any number of terminals, images, monitors, objects, any
sizes.  TLC evaluates the assumptions in the runs.

**VtSwitch.**  None of the invariants is inductive alone; each strengthening says
what the waiting states of a handler mean:

* `Focus`: while a `term_switch_to` waits for its foreground no terminal is active,
  nor is any before the splash screen; there is a `target` only while it waits.
  Without it `ShowVt`, taken after a wait, could activate a second terminal.
* `Mode`: every wait but the one for `TakeOwnership` is in the foreground, and
  frecon is master only when it has a device.  Without it `Scan` and `Regain`
  could take master in the background.
* `HotplugKept`: a hotplug that was remembered and one that waits together; each
  half needs the other when a remembered hotplug turns into a rescan.
* `Calls`: without a bus or without Chrome nothing is queued.  Without it a refused
  call could leave an older one as the last.

Each is proved on top of the ones before it: `TypeCorrect`, `ActiveIsCurrent`,
`BackgroundNotMaster`, `HotplugNeverLost`, `LinksNeverDangle`, `LastCallFits`.
`HandoffImplemented` maps each step to a step or a stutter of `DisplayHandoff`
and uses `Focus` and `Mode`.

**PtyRing.**  The lemmas say what each operator does to the pending bytes:
`CopyAppends`, `ResizeKeeps`, `PopDrops`, `FreeIsRest`.  `RingTypeOK /\ NoGarbage` is
inductive with them; `RingImplementsQueue` follows.  What `ring_pow2` and the mask
must satisfy is assumed of the constants, and `CodeMeetsAssumptions` proves it of the
code's bit arithmetic at every `Width`.  A number below 2^`Width` and the set of the
positions of its ones determine each other (`BitsOfNumber`, `NumberOfBits`), and more
ones make a larger number (`NumberGrows`).  After n rounds of the loop the ones are the
positions less than 2^n below a one of the argument (`SmearedFacts`), so at the end
they are all those below the first one, and one more is a power of two:
`RingPow2Next` says it is the least that suffices, or 0 when there is none.
`RingMaskWraps` says the mask leaves an index inside a buffer alone and takes the one
past its end to 0.  The induction over the rounds is the well-foundedness of the
natural numbers, applied to a set (`UpTo`); that each recursive function exists is
`Recursion`.

**PtyStream.**  `StreamTypeCorrect`, `InputNeverReordered`, `OutputFaithful`.  The
inductive invariant of the types is `DataOK /\ CallsOK`; the part that is not about
types is `Filled`: what lies below the length of any dispatch was read from the
child, and a nested read, which fills the same buffer, does not change that.  Without
it a dispatch that goes on after a nested one could parse a byte nobody wrote.
`NestedByAsk`, in the type invariant, ties each nested dispatch that begins to the byte
just shown, which asked for it.
`OutputFaithful` says that output is shown as written unless a nested read
overwrote bytes that waited.  It is inductive on top of the types once it is split
(`WhoWaits`): either no dispatch of the stack has bytes left to parse, or exactly one
has and nothing was overwritten.  Each action keeps one of the two.

**Daemon.**  `ParentToldTruth` needs `Reported`, which says who has told what to
whom: success is only heard after the report, and the report comes after the last
console was tried.  `UseAfterCloseConfined` needs two invariants about pointers:
`RoundHeld` (the terminal of the round is open until the bus is dispatched) and
`SplashHeld` (that of `splash_run` is open unless VT1 is enabled), and `Phases`,
which says in which part of the program the login prompt can be heard.  Each step
is compared with the terminals before it by `Keeps`: every terminal is still there
and open, but for the one the step closes.
`DaemonTypeCorrect` has to bound the terminals ever made, and a table does not tell
how many there were.  `Counts` does: the terminals made, the VTs that are *due*
(those that may still get a first terminal, which the place in the program and the
command line decide) and the exits still to come are together never more than VTs
and exits.  A first terminal takes its VT from those due, and a restart takes an exit.

**Splash.**  `IInv` joins the types with `Memory` (what is loaded is the image in
work), `InLoop` and `Paced`; `Fresh` says where the loop finds itself when the
options are read.
`SplashInOrder`, an action property, needs `Order` besides: what is on the screen
is the image in work or the one before it, or a pass has just begun.

**DrmBuffers.**  `RefcountAlwaysExact`, `CurrentAlways`, `BuffersTypeCorrect`,
`BuffersAlwaysAccounted`.  For each drm call a
lemma says what it adds to the count of an object; for each step of a terminal
another says what it adds to the holders, by the library's facts on cardinality.
`IInv` has `Counted` (the two are equal, or the count is the greater once a restart
that failed has forgotten a terminal), `Unheld` (what a closed terminal, or one
between the loops of a hotplug, holds: nothing) and `Moved` (who has been through
the second loop is on the current object).

That every kernel buffer and identifier has its owner is `Accounts`, an invariant of
the display, of a table of the framebuffers there are, and of the handles in doubt
(`Half`, those of `halfMade`, of which only their release is claimed).  The table has
the terminals' framebuffers and one spare place, where a buffer is while it is made
and before it is in anybody's hands.  Each
drm call is a lemma about `Accounts`, so that a step, which makes several calls, is a
chain of them.  An object is closed only by its last holder: by `Counted` nobody
else has a buffer on it, so that closing the file, which drops all its
identifiers, drops none that is owned.  The identifiers may run out; then nothing is
made.  A step may put handles in doubt and ends the doubt about those that no terminal
has any more (`EndsNoted`); that fewer terminals have them does no harm (`Narrowed`).

**FontGrid.**  `FontTypeCorrect`, `FontAlwaysShared`, `SizesAlwaysAgree`.  `FontOK`
says of the font alone that its prescaled glyphs exist exactly while it is held at a
scaling above 1 and that this scaling is not 0 then, and `font_init` and `font_free` keep
it, whatever fails.  `RefPerTerminal` counts the holders as long as no terminal failed
to be set up, and `SizesAgree` is stated under the same condition (`~fault`), since a
failed `term_resize` leaves the count one too low for good.  Together: the scaling changes only at count 0, and the loops reach 0
before they take the first reference again, so the sizes computed with it agree.

**Stepper and DrmScan.**  Not about a specification but about the operators:
`CellIsTurn` (the matrices turn the
picture), `CellsApart` (no two pixels share a word), `FillInside`
(nothing outside the framebuffer, with overflow or not), `FillExact` (a rectangle
whose edges fit an `int` appears exactly).  `drm_scan` and `find_crtc_for_connector` have the same loop, `KeepBest`, which keeps a
candidate unless a later one scores higher: `KeepBestFindsFirst` says it ends with the
first of the best.  So `drm_scan` returns the best device, as its comment promises
(`ScanFindsBest`), and `find_crtc_for_connector` fails only when no encoder can use a
crtc and otherwise returns the one with the most planes of the first encoder that can
(`CrtcHasMostPlanes`).  The loop is a recursive function; the induction over what it
has after each candidate is the well-foundedness of the natural numbers, applied to a
set (`UpTo`).

**Display.**  `DisplayTypeCorrect`, `AlwaysFollowsWhereIdsApart`,
`AlwaysDrawsAsAsked`.  The three are inductive together, each drawing action needing the
framebuffer's type and each rescan the choice.  On a machine whose devices number their
connectors apart (`IdsApart`) equal ids are on one device, so a rescan that keeps
the old display has it on the best; without `IdsApart` it is false
(`DisplayDrmEqual`).  `DrawsAsAsked` combines `FillFaithful` (a
rectangle no larger than an eighth of an `int` appears exactly where it was put, and
one whose corner overflows is off the screen), `MiddleExact` (the unsigned margin
is the middle) and `TooLargeUnseen` (the margin of a box larger than the screen wraps
to a place no screen reaches).  They are why `WithinInts` is in the property, and need
`MonitorSize`: a mode's sizes are 16 bit, an `int` is 32 bit.

**Input.**  `InputTypeCorrect`, `KeyboardsAlwaysFollowed`, `ChordsAsPressed`.
The list is compared with the keyboards over the udev events still to come:
`LastTrue` (the last event of a path tells what is there), `Stale` (a device that is no
longer the one at its path has its removal to come) and `Opened` (a keyboard nobody
is going to tell of any more, neither udev nor the enumeration, is open).  A removal
that comes late takes the device away again, which is right since an add must
follow it.  That the list fits the paths is the injection of devices into paths,
by `Once`.
`Calm` holds while nothing was lost: there is one keyboard, and its queue leads
from the modifiers that are remembered to those that are down by a *trace*, one set
of modifiers for each event, in which every key finds those it was pressed with.
Reading takes the first event off the trace and typing puts one at its end.

**Only model-checked**: all liveness (fairness and `ENABLED` are beyond the
prover), so no theorem says that something happens.  Every invariant and every action
property of the passing runs has a theorem.

## 5. Not modelled

* Glyphs, colours and pixel values; PNG decoding; parsing of the escapes'
  parameters and of file specifications.
* The emulator (libtsm), beyond that it answers some bytes.
* What `main` does with a failed `splash_run` (`main.c:544-552`): `SplashSkipped` of
  `VtSwitch` goes on in every case, while without `--daemon` a failure ends the program
  and the splash object is freed.  The model has more behaviours, not fewer.
* A child left by a `term_init` that fails after its fork (`term.c:592-607`, the bridge or
  the first size).  In `Daemon` a terminal that fails (`CreateIn`, `RestartCheck`) makes
  no child, so nothing is said of what such a child has inherited and of how it ends
  after the `term_close` that follows.
* The return of `main.c:208` for a terminal that is open.  The descriptor looked at is
  the bridge, an epoll instance, for which `select` knows no exceptional condition;
  `Daemon` leaves the loop there only for a terminal closed since the top of the round,
  of which anything may be read.  `PtyException` of `VtSwitch` allows it at any time.
* The links in `/run/frecon` once the loop is over: `main_done` (`main.c:572-582`)
  removes `current` and leaves the links of the terminals, which `LinksSound`, about a
  frecon that runs, does not speak of.
* EDID, the atomic property set and DPMS: they say how a mode is set, not which.
* `--splash-only` and the escapes that switch VTs, in `Daemon`; both are in
  `VtSwitch`.
* The reuse of a descriptor number within one round of the event loop: `Daemon`
  takes the descriptor sets by terminal, so a new terminal that gets the number of
  one closed in the same round is not dispatched for it.  The dispatch it would get
  reads nothing.
* The handshake of `shl_pty_open` between parent and child of a terminal, which is
  one step that succeeds or fails.
* User activity and brightness calls, which leave frecon's state alone.
* The table of special keys and key symbols.
* The lite build (`dbus_lite.c`, `dev_lite.c`), which is stubs: it is
  `VtSwitch` without a bus.
* The font data, its converter, the build and the packaging.

## 6. Plan

Done, the most important first: hand-over, pty ring, splash, drm objects, font,
keyboards, pty traffic, daemon and terminal lifetimes, choice of display and
drawing; theorems about every invariant of all of them.

Left:

1. `Daemon` composed with `VtSwitch`, so that a closed terminal is followed through
   the hand-over as well.
2. Theorems about the safety half of what is only model-checked: which step helps at
   each point of a switch, a dispatch and an animation, short of `ENABLED`.
