----------------------------- MODULE MCDisplay ------------------------------
(* Display on a laptop with a panel in each orientation and a USB display, *)
(* whose connector has an id of its own on the upright one and the id of   *)
(* the laptop's own socket on the others; and on machines with that        *)
(* display and another device.                                             *)
EXTENDS Display

Connector(id, internal, connected, encoders, panel) ==
  [id |-> id, internal |-> internal, connected |-> connected, crtc |-> None,
   encoders |-> encoders, mode |-> <<3, 2>>, panel |-> panel]

\* The panel is driven already; the socket has one encoder without a crtc and one with two.
Laptop(panel) ==
  [driver |-> "i915", planes |-> <<1, 2>>,
   connectors |-> <<[Connector(1, TRUE, TRUE, <<{1}>>, panel) EXCEPT !.crtc = 1],
                    Connector(2, FALSE, FALSE, <<{}, {1, 2}>>, 0)>>]

Usb(id) ==
  [driver |-> "udl", planes |-> <<1>>,
   connectors |-> <<Connector(id, FALSE, FALSE, <<{1}>>, 0)>>]
UsbDisplay == Usb(2)

\* As good as the USB display, or with no crtc for its monitor.
Other(driver, encoders) ==
  [driver |-> driver, planes |-> <<1>>,
   connectors |-> <<Connector(3, FALSE, FALSE, encoders, 0)>>]

MCMachines == {<<Usb(3), Laptop(0)>>} \cup {<<UsbDisplay, Laptop(panel)>> : panel \in 1 .. 3}
             \cup {<<UsbDisplay, Other("evdi", <<{1}>>)>>, <<Other("virtio", <<{}>>), UsbDisplay>>,
                   <<Other("vgem", <<{1}>>), UsbDisplay>>}
MCModes == {<<3, 2>>, <<4, 3>>}

Place(use_location, location, use_offset, offset, scale) ==
  [use_location |-> use_location, location |-> location, use_offset |-> use_offset,
   offset |-> offset, scale |-> scale]

\* On the screen, at its edge, beyond it and before it; in the middle, moved or
\* not; the location goes before the offset; enlarged beyond an int.
MCPlaces ==
  {Place(TRUE, l, FALSE, <<0, 0>>, 1) : l \in {<<0, 1>>, <<1, 0>>, <<3, 1>>, <<Word - 1, 1>>, <<1, Word - 2>>}}
  \cup {Place(FALSE, <<0, 0>>, TRUE, o, 1) : o \in {<<1, -1>>, <<-2, 1>>}}
  \cup {Place(FALSE, <<0, 0>>, FALSE, <<0, 0>>, s) : s \in 1 .. 2}
  \cup {Place(FALSE, <<0, 0>>, TRUE, <<-1, 0>>, 2), Place(TRUE, <<1, 1>>, TRUE, <<1, 1>>, 2),
         Place(TRUE, <<1, 0>>, FALSE, <<0, 0>>, Word \div 2 + 1)}
=============================================================================
