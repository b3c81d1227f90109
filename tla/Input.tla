-------------------------------- MODULE Input --------------------------------
(***************************************************************************)
(* The keyboards: the device list of input.c, kept up to date by the udev  *)
(* events of dev_full.c, and the modifier keys that input_special_key      *)
(* remembers.  Each round of the event loop is the select of main.c, one   *)
(* udev event and one pass over the devices, while keys are pressed and    *)
(* keyboards come and go.                                                  *)
(*                                                                         *)
(* A plugged-in keyboard is told from the one that had its path before by  *)
(* a number, "plug".  What a key does once the modifiers are known is left *)
(* out, but for the switching, which is in VtSwitch.                       *)
(***************************************************************************)
EXTENDS Naturals, Sequences, FiniteSets, SequencesExt

CONSTANTS
  Paths,      \* /dev/input/event*
  Modifiers,  \* keys with a flag in kbd_state
  MaxQueue,   \* bound: events the kernel keeps for a reader
  MaxPlugs    \* bound: times a keyboard is plugged in

ASSUME PathsAssumption == IsFiniteSet(Paths)
ASSUME BoundsAssumption == MaxQueue \in Nat /\ MaxQueue >= 3 /\ MaxPlugs \in Nat

VARIABLES
  devs,      \* input.devs: sequence of [path, plug, queue], queue the kernel's
  kbd,       \* input.kbd_state
  pc,        \* "init", "enumerate" in dev_init, then where the round is
  found,     \* devices of the enumeration not looked at yet
  readable,  \* read_set: the plugs that had something to read
  udevq,     \* events on the udev socket
  plugged,   \* the keyboard at each path, 0 for none
  plugs,     \* keyboards plugged in so far
  held,      \* the modifiers physically down on each
  refused,   \* paths whose keyboard another process had grabbed
  disturbed, \* a modifier event was lost, or two keyboards used
  last       \* the last key pressed: its keyboard, kbd and what was down

vars == <<devs, kbd, pc, found, readable, udevq, plugged, plugs, held, refused, disturbed, last>>
kernelVars == <<plugged, plugs, held>>

Syn == [kind |-> "syn"]
Change(m, down) == [kind |-> "modifier", key |-> m, down |-> down]
Press(down) == [kind |-> "press", held |-> down]

Device == {devs[u] : u \in 1 .. Len(devs)}
Ready(d) == d.queue # <<>> \/ plugged[d.path] # d.plug
-----------------------------------------------------------------------------
\* Wrong: no check for duplicates.
AddTwice(list, path, grabbed) ==
  IF plugged[path] = 0 \/ grabbed THEN list
  ELSE Append(list, [path |-> path, plug |-> plugged[path], queue |-> <<>>])

\* input_add of a devnode that is a keyboard's: a duplicate, a path where there
\* is none any more and a keyboard another process has grabbed are passed over.
InputAdd(list, path, grabbed) ==
  IF \/ \E u \in 1 .. Len(list) : list[u].path = path
     \/ plugged[path] = 0 \/ grabbed
  THEN list
  ELSE Append(list, [path |-> path, plug |-> plugged[path], queue |-> <<>>])

\* Wrong: the last device is dropped instead of moved.
RemoveLast(list, path) ==
  IF \E u \in 1 .. Len(list) : list[u].path = path THEN Front(list) ELSE list

\* input_remove: the last device takes its place.
InputRemove(list, path) ==
  LET at == {u \in 1 .. Len(list) : list[u].path = path}
  IN  IF at = {} THEN list
      ELSE LET u == CHOOSE n \in at : \A m \in at : n <= m
           IN  Front(ReplaceAt(list, u, Last(list)))

Init ==
  /\ devs = <<>> /\ kbd = {} /\ pc = "init" /\ found = {} /\ readable = {} /\ udevq = <<>>
  /\ plugged = [p \in Paths |-> 0] /\ plugs = 0
  /\ held = [p \in Paths |-> {}] /\ refused = {}
  /\ disturbed = FALSE /\ last = [path |-> "none"]

\* The monitor is on and udev is asked for the devices there are.
Enumerate ==
  /\ pc = "init"
  /\ found' = {p \in Paths : plugged[p] # 0}
  /\ pc' = IF found' = {} THEN "select" ELSE "enumerate"
  /\ UNCHANGED <<devs, kbd, readable, udevq, kernelVars, refused, disturbed, last>>

\* input_add as its callers see it: the keyboard of the path is in the list, or
\* could not be opened, or another process has it.
TryAdd(path, grabbed) ==
  LET refuses == grabbed /\ plugged[path] # 0 /\ \A d \in Device : d.path # path
  IN  /\ devs' = InputAdd(devs, path, grabbed)
      /\ refused' = IF refuses THEN refused \cup {path} ELSE refused \ {path}
      /\ disturbed' = (disturbed \/ (devs' # devs /\ held[path] # {}))

\* dev_add_existing_input_devs, one device: it may have gone, or come again.
AddExisting(grabbed) ==
  /\ pc = "enumerate"
  /\ \E p \in found : TryAdd(p, grabbed) /\ found' = found \ {p}
  /\ pc' = IF found' = {} THEN "select" ELSE pc
  /\ UNCHANGED <<kbd, readable, udevq, kernelVars, last>>

\* select returns.
Select ==
  /\ pc = "select"
  /\ udevq # <<>> \/ \E d \in Device : Ready(d)
  /\ readable' = {d.plug : d \in {e \in Device : Ready(e)}}
  /\ pc' = IF udevq # <<>> THEN "dev" ELSE "input"
  /\ UNCHANGED <<devs, kbd, found, udevq, kernelVars, refused, disturbed, last>>

\* dev_dispatch_io: one udev event.
DevDispatch(grabbed) ==
  /\ pc = "dev"
  /\ LET event == Head(udevq)
     IN  IF event.action = "add"
         THEN TryAdd(event.path, grabbed)
         ELSE devs' = InputRemove(devs, event.path) /\ UNCHANGED <<refused, disturbed>>
  /\ udevq' = Tail(udevq)
  /\ pc' = "input"
  /\ UNCHANGED <<kbd, found, readable, kernelVars, last>>

\* The device input_get_event is at: the first that had something to read and
\* has not been read in this pass.
AtTurn(u) == devs[u].plug \in readable /\ \A n \in 1 .. u - 1 : devs[n].plug \notin readable

\* A keyboard that is gone: ENODEV, and the pass ends.
ReadGone(u) ==
  /\ plugged[devs[u].path] # devs[u].plug
  /\ devs' = InputRemove(devs, devs[u].path)
  /\ pc' = "select" /\ readable' = {}
  /\ disturbed' = (disturbed \/ devs[u].queue # <<>>)
  /\ UNCHANGED <<kbd, last>>

\* Wrong: a key is judged by the modifiers that are down when it is read.
ReadKeyAsHeld(u) ==
  /\ plugged[devs[u].path] = devs[u].plug
  /\ devs[u].queue # <<>> /\ Head(devs[u].queue) # Syn
  /\ LET event == Head(devs[u].queue)
     IN  /\ kbd' = held[devs[u].path]
         /\ last' = IF event.kind = "modifier" THEN [path |-> devs[u].path]
                    ELSE [path |-> devs[u].path, kbd |-> kbd', held |-> event.held]
  /\ devs' = [devs EXCEPT ![u].queue = Tail(@)]
  /\ pc' = "select" /\ readable' = {}
  /\ UNCHANGED disturbed

\* A key event ends the pass: a modifier is remembered (input_special_key).
ReadKey(u) ==
  /\ plugged[devs[u].path] = devs[u].plug
  /\ devs[u].queue # <<>>
  /\ LET event == Head(devs[u].queue)
     IN  /\ event.kind # "syn"
         /\ IF event.kind = "modifier"
            THEN /\ kbd' = IF event.down THEN kbd \cup {event.key} ELSE kbd \ {event.key}
                 /\ last' = [path |-> devs[u].path]
            ELSE /\ last' = [path |-> devs[u].path, kbd |-> kbd, held |-> event.held]
                 /\ UNCHANGED kbd
  /\ devs' = [devs EXCEPT ![u].queue = Tail(@)]
  /\ pc' = "select" /\ readable' = {}
  /\ UNCHANGED disturbed

\* Wrong: any event ends the pass.
ReadSynReturns(u) ==
  /\ plugged[devs[u].path] = devs[u].plug
  /\ devs[u].queue # <<>> /\ Head(devs[u].queue) = Syn
  /\ devs' = [devs EXCEPT ![u].queue = Tail(@)]
  /\ pc' = "select" /\ readable' = {}
  /\ last' = [path |-> devs[u].path]
  /\ UNCHANGED <<kbd, disturbed>>

\* An event that is no key is read and passed over; the next device has its turn.
ReadSyn(u) ==
  /\ plugged[devs[u].path] = devs[u].plug
  /\ devs[u].queue # <<>> /\ Head(devs[u].queue) = Syn
  /\ devs' = [devs EXCEPT ![u].queue = Tail(@)]
  /\ readable' = readable \ {devs[u].plug}
  /\ last' = [path |-> devs[u].path]
  /\ UNCHANGED <<kbd, pc, disturbed>>

\* input_dispatch_io, one device.
InputDispatch ==
  /\ pc = "input"
  /\ \/ \E u \in 1 .. Len(devs) : AtTurn(u) /\ (ReadGone(u) \/ ReadKey(u) \/ ReadSyn(u))
     \/ /\ \A u \in 1 .. Len(devs) : ~AtTurn(u)
        /\ pc' = "select" /\ readable' = {}
        /\ UNCHANGED <<devs, kbd, disturbed, last>>
  /\ UNCHANGED <<found, udevq, kernelVars, refused>>
-----------------------------------------------------------------------------
\* The kernel and the user.

\* Before the monitor was on nothing is queued.
PlugIn(p) ==
  /\ plugged[p] = 0 /\ plugs < MaxPlugs
  /\ plugs' = plugs + 1
  /\ plugged' = [plugged EXCEPT ![p] = plugs']
  /\ held' = [held EXCEPT ![p] = {}]
  /\ \/ udevq' = Append(udevq, [action |-> "add", path |-> p])
     \/ pc = "init" /\ udevq = <<>> /\ UNCHANGED udevq
  /\ disturbed' = (disturbed \/ plugs > 0)
  /\ UNCHANGED <<devs, kbd, pc, found, readable, refused, last>>

Unplug(p) ==
  /\ plugged[p] # 0
  /\ plugged' = [plugged EXCEPT ![p] = 0]
  /\ held' = [held EXCEPT ![p] = {}]
  /\ udevq' = Append(udevq, [action |-> "remove", path |-> p])
  /\ disturbed' = TRUE
  /\ UNCHANGED <<devs, kbd, pc, found, readable, plugs, refused, last>>

\* An event and its EV_SYN reach a reader of this keyboard; when the buffer is
\* full the kernel empties it (SYN_DROPPED).
Deliver(p, event) ==
  LET mine(d) == d.path = p /\ d.plug = plugged[p]
      full(d) == Len(d.queue) + 2 > MaxQueue
  IN  /\ devs' = [u \in 1 .. Len(devs) |->
                    IF ~mine(devs[u]) THEN devs[u]
                    ELSE [devs[u] EXCEPT !.queue = IF full(devs[u]) THEN <<Syn>>
                                                   ELSE @ \o <<event, Syn>>]]
      /\ disturbed' = (disturbed \/ \A d \in Device : mine(d) => full(d))

\* A modifier goes down or up, or another key is pressed.
Modify(p, m) ==
  /\ plugged[p] # 0
  /\ held' = [held EXCEPT ![p] = IF m \in @ THEN @ \ {m} ELSE @ \cup {m}]
  /\ Deliver(p, Change(m, m \notin held[p]))
  /\ UNCHANGED <<kbd, pc, found, readable, udevq, plugged, plugs, refused, last>>

PressKey(p) ==
  /\ plugged[p] # 0
  /\ Deliver(p, Press(held[p]))
  /\ UNCHANGED <<kbd, pc, found, readable, udevq, kernelVars, refused, last>>
-----------------------------------------------------------------------------
Start == Enumerate \/ \E grabbed \in BOOLEAN : AddExisting(grabbed)

Loop == Select \/ (\E grabbed \in BOOLEAN : DevDispatch(grabbed)) \/ InputDispatch

User == \E p \in Paths : PlugIn(p) \/ Unplug(p) \/ PressKey(p) \/ \E m \in Modifiers : Modify(p, m)

Next == Start \/ Loop \/ User

Spec == Init /\ [][Next]_vars

\* The event loop keeps going round while there is something to read.
LiveSpec == Spec /\ WF_vars(Start) /\ WF_vars(Loop)
-----------------------------------------------------------------------------
TypeOK ==
  /\ \A d \in Device : d.path \in Paths /\ d.plug \in 1 .. MaxPlugs /\ Len(d.queue) <= MaxQueue
  /\ Len(devs) <= Cardinality(Paths)
  /\ kbd \subseteq Modifiers
  /\ pc \in {"init", "enumerate", "select", "dev", "input"}
  /\ found \subseteq Paths
  /\ readable \subseteq 1 .. MaxPlugs
  /\ \A n \in 1 .. Len(udevq) : udevq[n].action \in {"add", "remove"} /\ udevq[n].path \in Paths
  /\ plugged \in [Paths -> 0 .. MaxPlugs] /\ plugs \in 0 .. MaxPlugs
  /\ held \in [Paths -> SUBSET Modifiers]
  /\ refused \subseteq Paths
  /\ disturbed \in BOOLEAN

\* However the start-up enumeration, the udev events and the ENODEV of a read
\* interleave, once the udev socket is drained the list holds each keyboard that
\* is there and was not refused, once, opened since it was plugged in.
KeyboardsFollowed ==
  pc \notin {"init", "enumerate"} /\ udevq = <<>> =>
    /\ \A p \in Paths :
         plugged[p] # 0 /\ p \notin refused =>
           \E d \in Device : d.path = p /\ d.plug = plugged[p]
    /\ \A n, u \in 1 .. Len(devs) : devs[n].path = devs[u].path => n = u

\* With a single keyboard, opened before a modifier went down, and read in time,
\* a key press is judged with the modifiers that were down when it happened.
ChordAsPressed ==
  ~disturbed /\ "kbd" \in DOMAIN last => last.kbd = last.held

\* No keyboard with events waits for ever behind one that is never still:
\* although a key ends the pass, the EV_SYN after it does not.
EveryKeyboardServed ==
  \A p \in Paths :
    []<>(last.path = p \/ ~\E d \in Device : d.path = p /\ d.queue # <<>>)

=============================================================================
