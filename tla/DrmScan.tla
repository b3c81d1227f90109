------------------------------ MODULE DrmScan -------------------------------
(***************************************************************************)
(* How drm_scan chooses the display: for each minor the main monitor and a *)
(* crtc that can drive it, a score for each device that has both, and the  *)
(* best of them.  BestMinor is what the comment of drm_scan promises.      *)
(*                                                                         *)
(* A device is [driver, connectors, planes]: its connectors in the order   *)
(* of the kernel and the number of planes each crtc can use.  A connector  *)
(* is [id, internal, connected, crtc, encoders, mode, panel]: the crtc     *)
(* that drives it already (or none), for each encoder the crtcs it can     *)
(* use, its mode, and the orientation of its panel.                        *)
(***************************************************************************)
EXTENDS Integers, Sequences

None == 0

\* A loop over 1 .. n that starts with nothing and takes a candidate that scores
\* more than the one it has: what it has at the end.
KeepBest(candidates, score, n) ==
  LET best[m \in 0 .. n] ==
        IF m = 0 THEN None
        ELSE IF /\ m \in candidates
                /\ best[m - 1] # None => score[m] > score[best[m - 1]]
        THEN m ELSE best[m - 1]
  IN  best[n]

\* find_first_connected_connector, for one of the two kinds.
FirstConnected(device, internal) ==
  LET found == {k \in DOMAIN device.connectors :
                  /\ device.connectors[k].internal = internal
                  /\ device.connectors[k].connected}
  IN  IF found = {} THEN None ELSE CHOOSE k \in found : \A j \in found : k <= j

\* find_main_monitor's choice: with the lid closed only what is outside.
MainConnector(device, lidClosed) ==
  LET panel == FirstConnected(device, TRUE) IN
  IF ~lidClosed /\ panel # None THEN panel ELSE FirstConnected(device, FALSE)

\* find_crtc_for_connector: the loop over the crtcs counts the planes of those
\* an encoder can use, and the first encoder that leads to one ends the search.
CrtcFor(device, k) ==
  LET encoders == device.connectors[k].encoders
      best(e) == KeepBest(encoders[e], device.planes, Len(device.planes))
      able == {e \in DOMAIN encoders : best(e) # None}
  IN  IF able = {} THEN None ELSE best(CHOOSE e \in able : \A f \in able : e <= f)

\* The path there is, or else one that is possible.
Crtc(device, k) ==
  IF device.connectors[k].crtc # None THEN device.connectors[k].crtc ELSE CrtcFor(device, k)

\* drm_scan keeps a device with crtcs and connectors, a monitor and a way to it.
Usable(device, lidClosed) ==
  /\ device.planes # <<>> /\ device.connectors # <<>>
  /\ MainConnector(device, lidClosed) # None
  /\ Crtc(device, MainConnector(device, lidClosed)) # None

\* drm_score.
Score(device, lidClosed) ==
  (IF device.connectors[MainConnector(device, lidClosed)].internal THEN 1 ELSE 0)
  - (CASE device.driver \in {"udl", "evdi"} -> 1
       [] device.driver = "vgem" -> 1000000
       [] OTHER -> 0)

\* The minor drm_scan returns, None for NULL.
Scan(devices, lidClosed) ==
  LET usable == {m \in DOMAIN devices : Usable(devices[m], lidClosed)}
      score == [m \in usable |-> Score(devices[m], lidClosed)]
  IN  KeepBest(usable, score, Len(devices))

\* "Scan and find best DRM object to display frecon on": no usable device scores
\* higher, and none before it as high.
BestMinor(devices, lidClosed) ==
  LET usable == {m \in DOMAIN devices : Usable(devices[m], lidClosed)}
      score(m) == Score(devices[m], lidClosed)
  IN  IF usable = {} THEN None
      ELSE CHOOSE m \in usable :
             \A n \in usable : score(n) < score(m) \/ (score(n) = score(m) /\ m <= n)

\* The connector id a scan ends with.
ConnectorOf(devices, lidClosed, m) ==
  IF m = None THEN None
  ELSE devices[m].connectors[MainConnector(devices[m], lidClosed)].id
=============================================================================
