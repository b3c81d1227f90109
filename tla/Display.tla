------------------------------ MODULE Display -------------------------------
(***************************************************************************)
(* What frecon draws on, and what it draws there: monitors come and go on  *)
(* several devices, drm_rescan decides whether the display has changed,    *)
(* and the framebuffer made for it takes boxes, images and borders.        *)
(*                                                                         *)
(* The wait for master within a rescan is VtSwitch's subject, the buffers  *)
(* in the kernel DrmBuffers'.                                              *)
(***************************************************************************)
EXTENDS DrmScan, Stepper

CONSTANTS
  DeviceChoices,  \* the devices a machine can have
  Modes,          \* sizes of monitors
  Sizes,          \* sizes of boxes and images
  Places,         \* [use_location, location, use_offset, offset, scale]
  FontSizes       \* sizes of a character cell

\* What the ioctls report of a connector and of a device.
ConnectorType ==
  [id : Nat, internal : BOOLEAN, connected : BOOLEAN, crtc : Nat,
   encoders : Seq(SUBSET Nat), mode : MonitorSize \X MonitorSize, panel : Nat]
DeviceType == [driver : STRING, connectors : Seq(ConnectorType), planes : Seq(Nat)]

PlaceType ==
  [use_location : BOOLEAN, location : Int \X Int, use_offset : BOOLEAN,
   offset : Int \X Int, scale : Nat \ {0}]

ASSUME DevicesAssumption == DeviceChoices \subseteq Seq(DeviceType)
ASSUME ModesAssumption == Modes \subseteq MonitorSize \X MonitorSize
ASSUME SizesAssumption == Sizes \subseteq Nat /\ FontSizes \subseteq Nat \ {0}
ASSUME PlacesAssumption == Places \subseteq PlaceType

VARIABLES
  devices,  \* the kernel's view
  lid,      \* the lid is closed
  changed,  \* something was plugged or turned since the last rescan
  drm,      \* g_drm: [minor, id, fb], or NoDrm
  drawn,    \* the words of the framebuffer the last drawing wrote
  asked     \* that drawing

displayVars == <<devices, lid, changed, drm, drawn, asked>>

Nothing == [kind |-> "nothing"]

NoDrm == [minor |-> None, id |-> None, fb |-> [w |-> 0, h |-> 0, rotation |-> 0]]

\* What drm_scan returns for the minor it takes.
NewDrm(m) ==
  IF m = None THEN NoDrm
  ELSE LET k == MainConnector(devices[m], lid)
           c == devices[m].connectors[k]
       IN  [minor |-> m, id |-> c.id,
            fb |-> [w |-> c.mode[1], h |-> c.mode[2], rotation |-> RotationOf(c.panel)]]

\* Wrong: another connector of the same device is no other display.
DrmEqualDevice(l, r) ==
  IF l = NoDrm \/ r = NoDrm THEN l = r ELSE l.minor = r.minor

\* drm_equal looks at the connector id alone.
DrmEqual(l, r) == IF l = NoDrm \/ r = NoDrm THEN l = r ELSE l.id = r.id

DisplayInit ==
  /\ devices \in DeviceChoices /\ lid \in BOOLEAN
  /\ changed = FALSE
  /\ drm = NewDrm(Scan(devices, lid))
  /\ drawn = {} /\ asked = Nothing
-----------------------------------------------------------------------------
\* Nobody asks an empty connector for its mode: it has always the same.
EmptyMode == CHOOSE mode \in Modes : TRUE

\* A monitor is plugged in, unplugged or exchanged on connector k of minor m.
Plug(m, k, connected, mode) ==
  /\ ~connected => mode = EmptyMode
  /\ devices' = [devices EXCEPT ![m].connectors[k].connected = connected,
                                ![m].connectors[k].mode = mode]
  /\ devices' # devices
  /\ changed' = TRUE /\ drawn' = {} /\ asked' = Nothing
  /\ UNCHANGED <<lid, drm>>

\* input_get_event sees the lid switch turn.
Lid ==
  /\ lid' = ~lid
  /\ changed' = TRUE /\ drawn' = {} /\ asked' = Nothing
  /\ UNCHANGED <<devices, drm>>

\* drm_rescan, with the framebuffers term_monitor_hotplug makes if it says so.
Rescan ==
  /\ LET new == NewDrm(Scan(devices, lid))
     IN  drm' = IF DrmEqual(new, drm) THEN drm ELSE new
  /\ changed' = FALSE /\ drawn' = {} /\ asked' = Nothing
  /\ UNCHANGED <<devices, lid>>

\* Bound: drawings are looked at one by one, and between rescans.
Drawing(what, cells) ==
  /\ drm # NoDrm /\ asked = Nothing /\ ~changed
  /\ drawn' = cells /\ asked' = what
  /\ UNCHANGED <<devices, lid, changed, drm>>

\* term_esc_draw_box.
DrawBox(w, h, place) ==
  LET fb == drm.fb
      sw == Unsigned(w * place.scale)
      sh == Unsigned(h * place.scale)
  IN  Drawing([kind |-> "box", w |-> w, h |-> h, place |-> place],
              Fill(fb, BoxStart(place, 1, ScreenW(fb), sw),
                       BoxStart(place, 2, ScreenH(fb), sh), sw, sh))

\* term_esc_show_image and image_show, once the file is loaded.
ShowImage(w, h, place) ==
  /\ w > 0 /\ h > 0
  /\ LET fb == drm.fb
         sw == Unsigned(w * place.scale)
         sh == Unsigned(h * place.scale)
     IN  Drawing([kind |-> "image", w |-> w, h |-> h, place |-> place],
                 Fill(fb, ImageStart(place, 1, ScreenW(fb), sw),
                          ImageStart(place, 2, ScreenH(fb), sh), sw, sh))

\* term_clear_border.
ClearBorder(cw, ch) ==
  Drawing([kind |-> "border", w |-> cw, h |-> ch], Border(drm.fb, cw, ch))

DisplayNext ==
  \/ \E m \in DOMAIN devices : \E k \in DOMAIN devices[m].connectors :
       \E connected \in BOOLEAN, mode \in Modes : Plug(m, k, connected, mode)
  \/ Lid \/ Rescan
  \/ /\ drm # NoDrm
     /\ \/ \E w, h \in Sizes, place \in Places : DrawBox(w, h, place) \/ ShowImage(w, h, place)
        \/ \E cw, ch \in FontSizes : ClearBorder(cw, ch)

DisplaySpec == DisplayInit /\ [][DisplayNext]_displayVars
-----------------------------------------------------------------------------
DrmType ==
  [minor : Nat, id : Nat, fb : [w : MonitorSize, h : MonitorSize, rotation : 0 .. 3]]
AskedType ==
  {Nothing}
  \cup [kind : {"box", "image"}, w : Nat, h : Nat, place : PlaceType]
  \cup [kind : {"border"}, w : Nat \ {0}, h : Nat \ {0}]

\* No drawing writes outside the framebuffer (fb_stepper_step_x), whatever
\* overflows on the way.
DisplayTypeOK ==
  /\ devices \in Seq(DeviceType) /\ lid \in BOOLEAN /\ changed \in BOOLEAN
  /\ drm \in DrmType /\ (drm # NoDrm => drm.minor \in DOMAIN devices)
  /\ asked \in AskedType
  /\ drawn \subseteq Cells(drm.fb)

\* The console is on the connector of the best display: the internal panel
\* before others unless the lid is closed.
OnBest ==
  LET best == BestMinor(devices, lid)
  IN  drm.minor = best /\ drm.id = ConnectorOf(devices, lid, best)

\* No two devices have a connector with the same id.
IdsApart ==
  \A m, n \in DOMAIN devices :
    \A k \in DOMAIN devices[m].connectors, j \in DOMAIN devices[n].connectors :
      devices[m].connectors[k].id = devices[n].connectors[j].id => m = n

\* After a rescan the console is on the device and the connector of the best
\* display, whatever was plugged and closed in whatever order, on a machine whose
\* devices number their connectors apart: there the id that drm_equal compares
\* tells the device as well (drm_rescan, drm_equal, drm_scan).  Another monitor
\* in the same socket is not noticed.
FollowsWhereIdsApart == IdsApart /\ ~changed => OnBest

\* "Returns true if connector/crtc/driver have changed and framebuffer object
\* have to be re-created." (drm.c:582): after a rescan the console is on the
\* device and the connector of the best display, on any machine.  drm_equal
\* takes a connector of another device with the same id for the one it had.
FollowsMonitor == ~changed => OnBest

\* Where a drawing may start in direction d: the place it was asked for, or in
\* the middle plus the offset.
StartsAsked(place, d, screen, size) ==
  IF place.use_location THEN {Signed(place.location[d])}
  ELSE {start \in -Word .. Word :
          Centred(start - (IF place.use_offset THEN place.offset[d] * place.scale ELSE 0),
                  screen, size)}

PlacedAsAsked ==
  LET fb == drm.fb
      w == asked.w * asked.place.scale
      h == asked.h * asked.place.scale
  IN  \E x \in StartsAsked(asked.place, 1, ScreenW(fb), w),
         y \in StartsAsked(asked.place, 2, ScreenH(fb), h) :
        drawn = Shown(fb, x, y, w, h)

\* What was asked for, enlarged, is far from the ends of an int.
WithinInts ==
  LET place == asked.place
      far == Word \div 8
  IN  /\ asked.w * place.scale <= far /\ asked.h * place.scale <= far
      /\ ~place.use_location /\ place.use_offset =>
           \A d \in 1 .. 2 : place.offset[d] * place.scale \in -far .. far

\* A box that is to be in the middle and does not fit.
TooLarge ==
  /\ asked.kind = "box" /\ ~asked.place.use_location
  /\ \/ asked.w * asked.place.scale > ScreenW(drm.fb)
     \/ asked.h * asked.place.scale > ScreenH(drm.fb)

\* On a screen turned any way, a box or an image covers exactly the visible part
\* of the place it was asked to have, and the border is what the character cells
\* leave over.  A centred box larger than the screen does not appear at all, an
\* empty one may leave a line of one pixel, and one whose sizes overflow an int
\* may appear anywhere on the screen (fb_stepper_init, image_show,
\* term_esc_draw_box, term_clear_border).
DrawsAsAsked ==
  CASE asked.kind \in {"box", "image"} ->
         WithinInts =>
           IF TooLarge THEN drawn = {}
           ELSE asked.w > 0 /\ asked.h > 0 => PlacedAsAsked
    [] asked.kind = "border" ->
         LET fb == drm.fb
             cells == (0 .. (ScreenW(fb) \div asked.w) * asked.w - 1)
                      \X (0 .. (ScreenH(fb) \div asked.h) * asked.h - 1)
         IN  drawn = {Turned(fb, p) : p \in Screen(fb) \ cells}
    [] OTHER -> drawn = {}
=============================================================================
