---------------------------- MODULE MapSceneProofs ----------------------------
(* What holds of the layers on a map for every set of components, whatever    *)
(* the server answers and in whatever order the style loads, the user zooms,  *)
(* toggles and clicks, and the timers of the popup effects run out; and that   *)
(* what is rendered before the map has loaded gets on it.                      *)
EXTENDS MapScene, TLAPS

\* The state of each component is kept by component.
PerComponent(f) == f = [c \in scene |-> f[c]]
Shape ==
  /\ mounted \subseteq scene
  /\ PerComponent(data) /\ PerComponent(onMap) /\ PerComponent(visible)
  /\ PerComponent(attached) /\ PerComponent(waiting) /\ PerComponent(popup)
  /\ attached \in [scene -> BOOLEAN]

\* Only a rendered component with clickable markers waits to attach handlers,
\* has them, or has a popup of its own.
HandlersAreClickable ==
  \A c \in scene :
    /\ waiting[c] # 0 => c \in mounted /\ Clickable(c)
    /\ attached[c] \/ "live" \in popup[c] => Clickable(c)

SceneInv ==
  /\ Shape
  /\ MapShowsProps
  /\ VisibilityFollowsZoom
  /\ HandlersHaveMarkers
  /\ HandlersAreClickable

(***************************************************************************)
(* Sources and layers.                                                     *)
(***************************************************************************)

\* `apply` leaves on the map what the components are rendered with, each shown
\* as the zoom wants it; what was on the map stays there while it has data.
LEMMA ApplyKeeps ==
  ASSUME SceneInv, scene' = scene, mode' = mode, NEW cs, cs \subseteq mounted',
         mounted' \subseteq scene, Apply(cs),
         \A d \in mounted' : data'[d] # {} /\ onMap[d] # {} => onMap[d] = data'[d]
  PROVE  /\ MapShowsProps' /\ VisibilityFollowsZoom'
         /\ PerComponent(onMap)' /\ PerComponent(visible)'
         /\ \A d \in mounted' : onMap[d] # {} /\ data'[d] # {} => onMap'[d] # {}
<1> DEFINE ready == {c \in cs : data'[c] # {} /\ style # "fetching"}
<1>1. /\ onMap' = [c \in scene |-> IF c \in ready THEN data'[c]
                                   ELSE IF c \in mounted' /\ data'[c] # {} THEN onMap[c] ELSE {}]
      /\ visible' = [c \in scene |-> IF c \in ready THEN VisibleLayers(c, mode)
                                     ELSE IF onMap'[c] = {} THEN {} ELSE visible[c]]
  BY DEF Apply
<1>2. \A c \in ready : c \in mounted' /\ data'[c] # {}
  OBVIOUS
<1> HIDE DEF ready
<1>3. MapShowsProps'
  BY <1>1, <1>2 DEF MapShowsProps
<1>4. ASSUME NEW c \in scene
      PROVE  visible'[c] = IF onMap'[c] = {} THEN {} ELSE VisibleLayers(c, mode)
  <2>1. CASE c \in ready
    BY <1>1, <1>2, <2>1
  <2>2. CASE c \notin ready /\ onMap'[c] # {}
    <3>1. onMap'[c] = onMap[c] /\ visible'[c] = visible[c]
      BY <1>1, <2>2
    <3>2. QED
      BY <2>2, <3>1 DEF SceneInv, VisibilityFollowsZoom
  <2>3. CASE c \notin ready /\ onMap'[c] = {}
    BY <1>1, <2>3
  <2>4. QED
    BY <2>1, <2>2, <2>3
<1>5. VisibilityFollowsZoom'
  BY <1>4 DEF VisibilityFollowsZoom, VisibleLayers
<1>6. PerComponent(onMap)' /\ PerComponent(visible)'
  BY <1>1 DEF PerComponent
<1>7. \A d \in mounted' : onMap[d] # {} /\ data'[d] # {} => onMap'[d] # {}
  BY <1>1, <1>2
<1>8. QED
  BY <1>3, <1>5, <1>6, <1>7

(***************************************************************************)
(* Popups.                                                                 *)
(***************************************************************************)

HandlersInv ==
  /\ PerComponent(attached) /\ PerComponent(waiting) /\ PerComponent(popup)
  /\ attached \in [scene -> BOOLEAN]
  /\ HandlersHaveMarkers
  /\ HandlersAreClickable

\* Effects that begin again attach to the layers there are or wait; the others
\* keep their handlers while their component is rendered and its markers stay.
LEMMA PopupEffectsKeep ==
  ASSUME SceneInv, scene' = scene, NEW cs, RunPopupEffects(cs),
         \A d \in scene \ cs : d \in mounted => d \in mounted',
         \A d \in scene \ cs : Popup(d).perData /\ onMap[d] # {} => onMap'[d] # {}
  PROVE  HandlersInv'
<1> DEFINE on(c) == c \in cs /\ Clickable(c)
           left(c) == Stopped(c, onMap[c] # {} /\ onMap'[c] # {})
<1>1. /\ attached' = [c \in scene |-> IF on(c) THEN Starts(c) /\ onMap'[c] # {} ELSE attached[c]]
      /\ waiting' = [c \in scene |-> IF ~on(c) THEN waiting[c]
                                     ELSE IF Starts(c) THEN Retry(c, 0, onMap'[c] # {}) ELSE 0]
      /\ popup' = [c \in scene |-> IF on(c) THEN left(c).popup ELSE popup[c]]
  BY DEF RunPopupEffects
<1>2. \A c \in scene : left(c).popup = popup[c] \ {"live"}
  BY DEF Stopped
<1>3. \A c \in scene : Starts(c) => c \in mounted'
  BY DEF Starts
<1>4. \A c \in scene : Retry(c, 0, TRUE) = 0
  BY DEF Retry
<1> HIDE DEF left
<1>5. ASSUME NEW c \in scene, on(c)
      PROVE  /\ waiting'[c] # 0 => c \in mounted' /\ Clickable(c)
             /\ "live" \notin popup'[c]
             /\ attached'[c] => c \in mounted' /\ waiting'[c] = 0 /\ onMap'[c] # {}
  <2>1. "live" \notin popup'[c]
    BY <1>1, <1>2, <1>5
  <2>2. waiting'[c] # 0 => c \in mounted'
    BY <1>1, <1>3, <1>5
  <2>3. attached'[c] => Starts(c) /\ onMap'[c] # {}
    BY <1>1, <1>5
  <2>4. attached'[c] => waiting'[c] = 0
    BY <1>1, <1>4, <1>5, <2>3
  <2>5. QED
    BY <1>3, <1>5, <2>1, <2>2, <2>3, <2>4
<1>6. ASSUME NEW c \in scene, ~on(c)
      PROVE  /\ waiting'[c] # 0 => c \in mounted' /\ Clickable(c)
             /\ attached'[c] \/ "live" \in popup'[c] =>
                  /\ c \in mounted' /\ waiting'[c] = 0 /\ Clickable(c)
                  /\ Popup(c).perData => onMap'[c] # {}
  <2>1. waiting'[c] = waiting[c] /\ attached'[c] = attached[c] /\ popup'[c] = popup[c]
    BY <1>1, <1>6
  <2>2. CASE c \in cs
    BY <1>6, <2>1, <2>2 DEF SceneInv, HandlersAreClickable
  <2>3. CASE c \notin cs
    BY <2>1, <2>3 DEF SceneInv, HandlersAreClickable, HandlersHaveMarkers
  <2>4. QED
    BY <2>2, <2>3
<1>7. HandlersHaveMarkers'
  BY <1>5, <1>6 DEF HandlersHaveMarkers, Popup
<1>8. HandlersAreClickable'
  BY <1>5, <1>6 DEF HandlersAreClickable, Clickable, Popup
<1>9. attached' \in [scene -> BOOLEAN]
  BY <1>1 DEF SceneInv, Shape
<1>10. QED
  BY <1>1, <1>7, <1>8, <1>9 DEF HandlersInv, PerComponent

(***************************************************************************)
(* The steps.                                                              *)
(***************************************************************************)

\* What a step leaves on the map and what it leaves of the handlers make up the
\* invariant.
LEMMA SceneInvOfParts ==
  ASSUME mounted' \subseteq scene', PerComponent(data)',
         PerComponent(onMap)', PerComponent(visible)',
         MapShowsProps', VisibilityFollowsZoom', HandlersInv'
  PROVE  SceneInv'
BY DEF SceneInv, Shape, HandlersInv

LEMMA MountStep ==
  ASSUME SceneInv, NEW c \in scene, NEW items, Mount(c, items)
  PROVE  SceneInv'
<1>1. /\ scene' = scene /\ mode' = mode /\ c \notin mounted /\ mounted' = mounted \cup {c}
      /\ data' = [data EXCEPT ![c] = Features(c, items)]
      /\ RunPopupEffects({c})
      /\ Apply(IF style = "idle" THEN {c} ELSE {})
  BY DEF Mount
<1>2. mounted' \subseteq scene /\ PerComponent(data)'
  BY <1>1 DEF SceneInv, Shape, PerComponent
<1>3. onMap[c] = {} /\ \A d \in scene \ {c} : data'[d] = data[d]
  BY <1>1 DEF SceneInv, Shape, PerComponent, MapShowsProps
<1>4. \A d \in mounted' : data'[d] # {} /\ onMap[d] # {} => onMap[d] = data'[d]
  BY <1>2, <1>3 DEF SceneInv, MapShowsProps
<1>5. /\ MapShowsProps' /\ VisibilityFollowsZoom'
      /\ PerComponent(onMap)' /\ PerComponent(visible)'
      /\ \A d \in mounted' : onMap[d] # {} /\ data'[d] # {} => onMap'[d] # {}
  <2> DEFINE cs == IF style = "idle" THEN {c} ELSE {}
  <2>1. cs \subseteq mounted'
    BY <1>1
  <2>2. Apply(cs)
    BY <1>1
  <2> HIDE DEF cs
  <2>3. QED
    BY <1>1, <1>2, <1>4, <2>1, <2>2, ApplyKeeps
<1>6. \A d \in scene \ {c} : onMap[d] # {} => onMap'[d] # {}
  BY <1>1, <1>3, <1>5 DEF SceneInv, MapShowsProps
<1>7. HandlersInv'
  BY <1>1, <1>6, PopupEffectsKeep
<1>8. QED
  BY <1>1, <1>2, <1>5, <1>7, SceneInvOfParts

LEMMA UnmountStep ==
  ASSUME SceneInv, NEW c \in scene, Unmount(c)
  PROVE  SceneInv'
<1>1. /\ scene' = scene /\ mode' = mode /\ mounted' = mounted \ {c}
      /\ data' = [data EXCEPT ![c] = {}]
      /\ RunPopupEffects({c})
      /\ Apply({})
  BY DEF Unmount
<1>2. mounted' \subseteq scene /\ PerComponent(data)'
  BY <1>1 DEF SceneInv, Shape, PerComponent
<1>3. \A d \in scene \ {c} : data'[d] = data[d]
  BY <1>1 DEF SceneInv, Shape, PerComponent
<1>4. \A d \in mounted' : data'[d] # {} /\ onMap[d] # {} => onMap[d] = data'[d]
  BY <1>1, <1>2, <1>3 DEF SceneInv, MapShowsProps
<1>5. /\ MapShowsProps' /\ VisibilityFollowsZoom'
      /\ PerComponent(onMap)' /\ PerComponent(visible)'
      /\ \A d \in mounted' : onMap[d] # {} /\ data'[d] # {} => onMap'[d] # {}
  BY <1>1, <1>2, <1>4, ApplyKeeps
<1>6. \A d \in scene \ {c} : onMap[d] # {} => onMap'[d] # {}
  BY <1>1, <1>3, <1>5 DEF SceneInv, MapShowsProps
<1>7. HandlersInv'
  BY <1>1, <1>6, PopupEffectsKeep
<1>8. QED
  BY <1>1, <1>2, <1>5, <1>7, SceneInvOfParts

\* New data replaces what is on the map at once, and takes it off when there is
\* none; only effects that follow the data begin again.
LEMMA RenderStep ==
  ASSUME SceneInv, NEW c \in scene, NEW items, Render(c, items)
  PROVE  SceneInv'
<1> DEFINE again == IF Popup(c).perData THEN {c} ELSE {}
<1>1. /\ scene' = scene /\ mode' = mode /\ c \in mounted /\ mounted' = mounted
      /\ data' = [data EXCEPT ![c] = Features(c, items)]
      /\ RunPopupEffects(again)
  BY DEF Render
<1>2. mounted' \subseteq scene /\ PerComponent(data)'
  BY <1>1 DEF SceneInv, Shape, PerComponent
<1>3. \A d \in scene \ {c} : data'[d] = data[d]
  BY <1>1 DEF SceneInv, Shape, PerComponent
<1>4. /\ MapShowsProps' /\ VisibilityFollowsZoom'
      /\ PerComponent(onMap)' /\ PerComponent(visible)'
      /\ \A d \in mounted' : onMap[d] # {} /\ data'[d] # {} => onMap'[d] # {}
  <2>1. CASE onMap[c] # {} /\ data'[c] # {}
    <3>1. onMap' = [onMap EXCEPT ![c] = data'[c]] /\ visible' = visible
      BY <2>1 DEF Render
    <3>2. PerComponent(onMap)' /\ PerComponent(visible)'
      BY <1>1, <3>1 DEF SceneInv, Shape, PerComponent
    <3>3. onMap'[c] = data'[c] /\ \A d \in scene \ {c} : onMap'[d] = onMap[d]
      BY <3>1 DEF SceneInv, Shape, PerComponent
    <3>4. MapShowsProps'
      BY <1>1, <1>3, <3>3 DEF SceneInv, MapShowsProps
    <3>5. VisibilityFollowsZoom'
      BY <1>1, <2>1, <3>1, <3>3 DEF SceneInv, VisibilityFollowsZoom, VisibleLayers
    <3>6. QED
      BY <1>2, <2>1, <3>2, <3>3, <3>4, <3>5
  <2>2. CASE ~(onMap[c] # {} /\ data'[c] # {})
    <3> DEFINE cs == IF data[c] = {} /\ style = "idle" THEN {c} ELSE {}
    <3>1. Apply(cs)
      BY <2>2 DEF Render
    <3>2. cs \subseteq mounted'
      BY <1>1
    <3>3. \A d \in mounted' : data'[d] # {} /\ onMap[d] # {} => onMap[d] = data'[d]
      BY <1>2, <1>3, <2>2 DEF SceneInv, MapShowsProps
    <3> HIDE DEF cs
    <3>4. QED
      BY <1>1, <1>2, <3>1, <3>2, <3>3, ApplyKeeps
  <2>3. QED
    BY <2>1, <2>2
<1>5. \A d \in scene \ {c} : onMap[d] # {} => onMap'[d] # {}
  BY <1>1, <1>3, <1>4 DEF SceneInv, MapShowsProps
<1>6. \A d \in scene \ again : Popup(d).perData /\ onMap[d] # {} => onMap'[d] # {}
  BY <1>5
<1> HIDE DEF again
<1>7. HandlersInv'
  BY <1>1, <1>6, PopupEffectsKeep
<1>8. QED
  BY <1>1, <1>2, <1>4, <1>7, SceneInvOfParts

\* Handlers are not touched by what leaves the markers on the map.
LEMMA HandlersStay ==
  ASSUME SceneInv, scene' = scene, mounted' = mounted,
         UNCHANGED <<attached, waiting, popup>>,
         \A c \in scene : onMap[c] # {} => onMap'[c] # {}
  PROVE  HandlersInv'
BY DEF SceneInv, Shape, HandlersInv, PerComponent, HandlersHaveMarkers, HandlersAreClickable,
       Popup, Clickable

LEMMA LoadEventStep == SceneInv /\ LoadEvent => SceneInv'
<1> SUFFICES ASSUME SceneInv, LoadEvent PROVE SceneInv'
  OBVIOUS
<1>1. /\ scene' = scene /\ mode' = mode /\ mounted' = mounted /\ data' = data
      /\ UNCHANGED <<attached, waiting, popup>>
      /\ Apply(mounted)
  BY DEF LoadEvent, handlers
<1>2. mounted' \subseteq scene /\ PerComponent(data)'
  BY <1>1 DEF SceneInv, Shape, PerComponent
<1>3. \A d \in mounted' : data'[d] # {} /\ onMap[d] # {} => onMap[d] = data'[d]
  BY <1>1, <1>2 DEF SceneInv, MapShowsProps
<1>4. /\ MapShowsProps' /\ VisibilityFollowsZoom'
      /\ PerComponent(onMap)' /\ PerComponent(visible)'
      /\ \A d \in mounted' : onMap[d] # {} /\ data'[d] # {} => onMap'[d] # {}
  BY <1>1, <1>2, <1>3, ApplyKeeps
<1>5. \A d \in scene : onMap[d] # {} => onMap'[d] # {}
  BY <1>1, <1>4 DEF SceneInv, MapShowsProps
<1>6. HandlersInv'
  BY <1>1, <1>5, HandlersStay
<1>7. QED
  BY <1>1, <1>2, <1>4, <1>6, SceneInvOfParts

LEMMA StyleDataEventStep == SceneInv /\ StyleDataEvent => SceneInv'
<1> SUFFICES ASSUME SceneInv, StyleDataEvent PROVE SceneInv'
  OBVIOUS
<1> DEFINE ready == {c \in mounted : data[c] # {}}
<1>1. /\ scene' = scene /\ mode' = mode /\ mounted' = mounted /\ data' = data
      /\ UNCHANGED <<attached, waiting, popup>>
      /\ onMap' = [c \in scene |-> IF c \in ready THEN data[c] ELSE onMap[c]]
      /\ visible' = [c \in scene |-> IF c \in ready THEN VisibleLayers(c, mode) ELSE visible[c]]
  BY DEF StyleDataEvent, handlers
<1>2. \A c \in ready : c \in mounted /\ data[c] # {}
  OBVIOUS
<1> HIDE DEF ready
<1>3. MapShowsProps'
  BY <1>1, <1>2 DEF SceneInv, MapShowsProps
<1>4. VisibilityFollowsZoom'
  BY <1>1, <1>2 DEF SceneInv, VisibilityFollowsZoom, VisibleLayers
<1>5. /\ mounted' \subseteq scene /\ PerComponent(data)'
      /\ PerComponent(onMap)' /\ PerComponent(visible)'
  BY <1>1 DEF SceneInv, Shape, PerComponent
<1>6. \A c \in scene : onMap[c] # {} => onMap'[c] # {}
  BY <1>1, <1>2
<1>7. HandlersInv'
  BY <1>1, <1>6, HandlersStay
<1>8. QED
  BY <1>1, <1>3, <1>4, <1>5, <1>7, SceneInvOfParts

LEMMA ZoomStep ==
  ASSUME SceneInv, NEW m, Zoom(m)
  PROVE  SceneInv'
<1>1. /\ scene' = scene /\ mode' = m /\ mounted' = mounted /\ data' = data /\ onMap' = onMap
      /\ UNCHANGED <<attached, waiting, popup>>
      /\ visible' = [c \in scene |-> IF onMap[c] # {} THEN VisibleLayers(c, m) ELSE {}]
  BY DEF Zoom, handlers
<1>2. MapShowsProps' /\ VisibilityFollowsZoom'
  BY <1>1 DEF SceneInv, MapShowsProps, VisibilityFollowsZoom, VisibleLayers
<1>3. /\ mounted' \subseteq scene /\ PerComponent(data)'
      /\ PerComponent(onMap)' /\ PerComponent(visible)'
  BY <1>1 DEF SceneInv, Shape, PerComponent
<1>4. HandlersInv'
  BY <1>1, HandlersStay
<1>5. QED
  BY <1>1, <1>2, <1>3, <1>4, SceneInvOfParts

\* The steps of the popup effects leave the map as it is.
LEMMA MapStays ==
  ASSUME SceneInv, scene' = scene, mode' = mode,
         UNCHANGED <<mounted, data, onMap, visible>>
  PROVE  /\ mounted' \subseteq scene' /\ PerComponent(data)'
         /\ PerComponent(onMap)' /\ PerComponent(visible)'
         /\ MapShowsProps' /\ VisibilityFollowsZoom'
BY DEF SceneInv, Shape, PerComponent, MapShowsProps, VisibilityFollowsZoom, VisibleLayers

LEMMA RetryAttachStep ==
  ASSUME SceneInv, NEW c \in scene, RetryAttach(c)
  PROVE  SceneInv'
<1>1. /\ scene' = scene /\ mode' = mode
      /\ UNCHANGED <<mounted, data, onMap, visible, popup>>
      /\ waiting[c] # 0
      /\ waiting' = [waiting EXCEPT ![c] = Retry(c, waiting[c], onMap[c] # {})]
      /\ attached' = [attached EXCEPT ![c] = onMap[c] # {}]
  BY DEF RetryAttach, map
<1>2. onMap[c] # {} => Retry(c, waiting[c], onMap[c] # {}) = 0
  BY DEF Retry
<1>3. c \in mounted /\ Clickable(c) /\ "live" \notin popup[c]
  BY <1>1 DEF SceneInv, HandlersAreClickable, HandlersHaveMarkers
<1>4. /\ PerComponent(attached)' /\ PerComponent(waiting)' /\ PerComponent(popup)'
      /\ attached' \in [scene -> BOOLEAN]
  BY <1>1 DEF SceneInv, Shape, PerComponent
<1>5. /\ attached'[c] <=> onMap[c] # {}
      /\ attached'[c] => waiting'[c] = 0
  BY <1>1, <1>2 DEF SceneInv, Shape, PerComponent
<1>6. \A d \in scene \ {c} : attached'[d] = attached[d] /\ waiting'[d] = waiting[d]
  BY <1>1 DEF SceneInv, Shape, PerComponent
<1>7. HandlersHaveMarkers'
  BY <1>1, <1>3, <1>5, <1>6 DEF SceneInv, HandlersHaveMarkers, Popup
<1>8. HandlersAreClickable'
  BY <1>1, <1>3, <1>6 DEF SceneInv, HandlersAreClickable, Clickable, Popup
<1>9. HandlersInv'
  BY <1>1, <1>4, <1>7, <1>8 DEF HandlersInv
<1>10. QED
  BY <1>1, <1>9, MapStays, SceneInvOfParts

\* A click opens the popup of the live effect only where its handlers are.
LEMMA ClickStep ==
  ASSUME SceneInv, scene' = scene, mode' = mode,
         UNCHANGED <<mounted, data, onMap, visible, attached, waiting>>,
         PerComponent(popup)',
         \A c \in scene : "live" \in popup'[c] => attached[c]
  PROVE  SceneInv'
<1>1. HandlersInv'
  BY DEF SceneInv, Shape, HandlersInv, PerComponent, HandlersHaveMarkers,
         HandlersAreClickable, Popup, Clickable
<1>2. QED
  BY <1>1, MapStays, SceneInvOfParts

\* What the style, the images and the timers of dead effects do is not looked at.
LEMMA OtherSteps ==
  ASSUME SceneInv, scene' = scene, mode' = mode,
         UNCHANGED <<mounted, data, onMap, visible, attached, waiting, popup>>
  PROVE  SceneInv'
<1>1. HandlersInv'
  BY HandlersStay
<1>2. QED
  BY <1>1, MapStays, SceneInvOfParts

LEMMA InitScene == Init => SceneInv
<1> SUFFICES ASSUME Init PROVE SceneInv
  OBVIOUS
<1>1. /\ mounted = {}
      /\ data = [c \in scene |-> {}] /\ onMap = [c \in scene |-> {}]
      /\ visible = [c \in scene |-> {}]
      /\ attached = [c \in scene |-> FALSE] /\ waiting = [c \in scene |-> 0]
      /\ popup = [c \in scene |-> {}]
  BY DEF Init
<1>2. Shape
  BY <1>1 DEF Shape, PerComponent
<1>3. MapShowsProps /\ VisibilityFollowsZoom
  BY <1>1 DEF MapShowsProps, VisibilityFollowsZoom
<1>4. HandlersHaveMarkers /\ HandlersAreClickable
  BY <1>1 DEF HandlersHaveMarkers, HandlersAreClickable
<1>5. QED
  BY <1>2, <1>3, <1>4 DEF SceneInv

\* Every step keeps it.
LEMMA SceneInvStep == SceneInv /\ [Next]_vars => SceneInv'
<1> SUFFICES ASSUME SceneInv, [Next]_vars PROVE SceneInv'
  OBVIOUS
<1>1. ASSUME NEW c \in scene, NEW items, Mount(c, items) \/ Render(c, items)
      PROVE SceneInv'
  BY <1>1, MountStep, RenderStep
<1>2. ASSUME NEW c \in scene, Unmount(c) \/ RetryAttach(c) PROVE SceneInv'
  BY <1>2, UnmountStep, RetryAttachStep
<1>3. ASSUME NEW c \in scene, Click(c) PROVE SceneInv'
  <2>1. /\ scene' = scene /\ mode' = mode
        /\ UNCHANGED <<mounted, data, onMap, visible, attached, waiting>>
    BY <1>3 DEF Click, map
  <2>2. popup' = [d \in scene |-> IF d # c THEN {}
                    ELSE {w \in {"live", "dead"} : IF w = "live" THEN attached[c] ELSE leaked[c] > 0}]
    BY <1>3 DEF Click
  <2>3. PerComponent(popup)' /\ \A d \in scene : "live" \in popup'[d] => attached[d]
    BY <2>1, <2>2 DEF PerComponent
  <2>4. QED
    BY <2>1, <2>3, ClickStep
<1>4. CASE ClickElsewhere
  <2>1. /\ scene' = scene /\ mode' = mode
        /\ UNCHANGED <<mounted, data, onMap, visible, attached, waiting>>
        /\ popup' = [c \in scene |-> {}]
    BY <1>4 DEF ClickElsewhere, map
  <2>2. PerComponent(popup)' /\ \A d \in scene : "live" \in popup'[d] => attached[d]
    BY <2>1 DEF PerComponent
  <2>3. QED
    BY <2>1, <2>2, ClickStep
<1>5. ASSUME NEW m \in Modes, Zoom(m) PROVE SceneInv'
  BY <1>5, ZoomStep
<1>6. CASE LoadEvent \/ StyleDataEvent
  BY <1>6, LoadEventStep, StyleDataEventStep
<1>7. ASSUME NEW c \in scene, ImageLoads(c) \/ ImageFails(c) PROVE SceneInv'
  BY <1>7, OtherSteps DEF ImageLoads, ImageFails, handlers, map
<1>8. ASSUME NEW c \in scene, NEW made, OrphanRetries(c, made) PROVE SceneInv'
  BY <1>8, OtherSteps DEF OrphanRetries, map
<1>9. CASE StyleArrives \/ TilesFinish \/ TilesStart \/ StyleChanges
  BY <1>9, OtherSteps DEF StyleArrives, TilesFinish, TilesStart, StyleChanges, handlers
<1>10. CASE UNCHANGED vars
  BY <1>10, OtherSteps DEF vars, map, handlers
<1>11. QED
  BY <1>1, <1>2, <1>3, <1>4, <1>5, <1>6, <1>7, <1>8, <1>9, <1>10 DEF Next

\* What the map holds is what was last rendered and is shown as the zoom wants
\* it, and handlers have markers: each needs the others of the step before.
THEOREM SceneInvariant == Spec => []SceneInv
BY SceneInvStep, InitScene, PTL DEF Spec

\* A component's source holds what the component was last rendered with, and
\* none is left of a component that is gone or has nothing to draw, whether the
\* style was loading, loaded or loading again when it was rendered.
THEOREM MapAlwaysShowsProps == Spec => []MapShowsProps
<1>1. SceneInv => MapShowsProps
  BY DEF SceneInv
<1>2. QED
  BY <1>1, SceneInvariant, PTL

\* The layers shown are those of the zoom, in every order of mounting, loading
\* the style and zooming.
THEOREM VisibilityAlwaysFollowsZoom == Spec => []VisibilityFollowsZoom
<1>1. SceneInv => VisibilityFollowsZoom
  BY DEF SceneInv
<1>2. QED
  BY <1>1, SceneInvariant, PTL

\* However often effects end and begin again and timers run out, the live
\* handlers of a component are on markers that are on the map.
THEOREM HandlersAlwaysHaveMarkers == Spec => []HandlersHaveMarkers
<1>1. SceneInv => HandlersHaveMarkers
  BY DEF SceneInv
<1>2. QED
  BY <1>1, SceneInvariant, PTL

(***************************************************************************)
(* What is rendered before the map has loaded gets on the map.             *)
(***************************************************************************)

\* A component whose effect tries to attach its handlers without limit.
Retries(c) == Clickable(c) /\ Popup(c).tries = Forever

\* It has its handlers or will try again.
RetriesGoOn ==
  \A c \in scene :
    Retries(c) /\ c \in mounted /\ (Popup(c).perData => data[c] # {})
      => attached[c] \/ waiting[c] # 0

\* An effect that begins again attaches or starts its timer.
LEMMA PopupEffectsRetry ==
  ASSUME RetriesGoOn, scene' = scene, NEW cs, RunPopupEffects(cs),
         \A d \in scene \ cs : d \in mounted' => d \in mounted,
         \A d \in scene \ cs : Popup(d).perData /\ data'[d] # {} => data[d] # {}
  PROVE  RetriesGoOn'
<1>1. SUFFICES ASSUME NEW c \in scene, Retries(c), c \in mounted',
                      Popup(c).perData => data'[c] # {}
               PROVE  attached'[c] \/ waiting'[c] # 0
  BY DEF RetriesGoOn, Retries, Clickable, Popup
<1> DEFINE on(d) == d \in cs /\ Clickable(d)
<1>2. /\ attached' = [d \in scene |-> IF on(d) THEN Starts(d) /\ onMap'[d] # {} ELSE attached[d]]
      /\ waiting' = [d \in scene |-> IF ~on(d) THEN waiting[d]
                                     ELSE IF Starts(d) THEN Retry(d, 0, onMap'[d] # {}) ELSE 0]
  BY DEF RunPopupEffects
<1>3. CASE on(c)
  <2>1. Starts(c)
    BY <1>1, <1>3 DEF Starts
  <2>3. CASE onMap'[c] # {}
    BY <1>2, <1>3, <2>1, <2>3
  <2>4. CASE onMap'[c] = {}
    <3>1. waiting'[c] = Retry(c, 0, onMap'[c] # {})
      BY <1>2, <1>3, <2>1
    <3>2. Retry(c, 0, onMap'[c] # {}) = 1
      BY <1>1, <2>4 DEF Retry, Retries
    <3>3. QED
      BY <3>1, <3>2
  <2>5. QED
    BY <2>3, <2>4
<1>4. CASE ~on(c)
  <2>1. c \notin cs
    BY <1>1, <1>4 DEF Retries
  <2>2. c \in mounted /\ (Popup(c).perData => data[c] # {})
    BY <1>1, <2>1
  <2>3. attached'[c] = attached[c] /\ waiting'[c] = waiting[c]
    BY <1>2, <1>4
  <2>4. QED
    BY <1>1, <2>2, <2>3 DEF RetriesGoOn
<1>5. QED
  BY <1>3, <1>4

LEMMA RetriesStay ==
  ASSUME RetriesGoOn, UNCHANGED <<scene, mounted, data, attached, waiting>>
  PROVE  RetriesGoOn'
BY DEF RetriesGoOn, Retries, Clickable, Popup

LEMMA RetriesGoOnStep == SceneInv /\ RetriesGoOn /\ [Next]_vars => RetriesGoOn'
<1> SUFFICES ASSUME SceneInv, RetriesGoOn, [Next]_vars PROVE RetriesGoOn'
  OBVIOUS
<1>1. PerComponent(data) /\ PerComponent(attached) /\ PerComponent(waiting)
  BY DEF SceneInv, Shape
<1>2. ASSUME NEW c \in scene, NEW items, Mount(c, items) PROVE RetriesGoOn'
  <2>1. /\ scene' = scene /\ mounted' = mounted \cup {c}
        /\ data' = [data EXCEPT ![c] = Features(c, items)] /\ RunPopupEffects({c})
    BY <1>2 DEF Mount
  <2>2. \A d \in scene \ {c} : data'[d] = data[d]
    BY <1>1, <2>1 DEF PerComponent
  <2>3. QED
    BY <2>1, <2>2, PopupEffectsRetry
<1>3. ASSUME NEW c \in scene, NEW items, Render(c, items) PROVE RetriesGoOn'
  <2> DEFINE again == IF Popup(c).perData THEN {c} ELSE {}
  <2>1. /\ scene' = scene /\ mounted' = mounted
        /\ data' = [data EXCEPT ![c] = Features(c, items)] /\ RunPopupEffects(again)
    BY <1>3 DEF Render
  <2>2. \A d \in scene \ {c} : data'[d] = data[d]
    BY <1>1, <2>1 DEF PerComponent
  <2>3. \A d \in scene \ again : Popup(d).perData => d # c
    OBVIOUS
  <2> HIDE DEF again
  <2>4. QED
    BY <2>1, <2>2, <2>3, PopupEffectsRetry
<1>4. ASSUME NEW c \in scene, Unmount(c) PROVE RetriesGoOn'
  <2>1. /\ scene' = scene /\ mounted' = mounted \ {c}
        /\ data' = [data EXCEPT ![c] = {}] /\ RunPopupEffects({c})
    BY <1>4 DEF Unmount
  <2>2. \A d \in scene \ {c} : data'[d] = data[d]
    BY <1>1, <2>1 DEF PerComponent
  <2>3. QED
    BY <2>1, <2>2, PopupEffectsRetry
<1>5. ASSUME NEW c \in scene, RetryAttach(c) PROVE RetriesGoOn'
  <2>1. /\ scene' = scene /\ mounted' = mounted /\ data' = data
        /\ waiting' = [waiting EXCEPT ![c] = Retry(c, waiting[c], onMap[c] # {})]
        /\ attached' = [attached EXCEPT ![c] = onMap[c] # {}]
    BY <1>5 DEF RetryAttach
  <2>2. \A d \in scene \ {c} : attached'[d] = attached[d] /\ waiting'[d] = waiting[d]
    BY <1>1, <2>1 DEF PerComponent
  <2>3. /\ attached'[c] <=> onMap[c] # {}
        /\ waiting'[c] = Retry(c, waiting[c], onMap[c] # {})
    BY <1>1, <2>1 DEF PerComponent
  <2>4. Retries(c) => attached'[c] \/ waiting'[c] # 0
    <3>1. CASE onMap[c] # {}
      BY <2>3, <3>1
    <3>2. CASE onMap[c] = {}
      <4>1. Retries(c) => Retry(c, waiting[c], onMap[c] # {}) = 1
        BY <3>2 DEF Retry, Retries
      <4>2. QED
        BY <2>3, <4>1
    <3>3. QED
      BY <3>1, <3>2
  <2>5. QED
    BY <2>1, <2>2, <2>4 DEF RetriesGoOn, Retries, Clickable, Popup
<1>6. CASE UNCHANGED <<scene, mounted, data, attached, waiting>>
  BY <1>6, RetriesStay
<1>7. QED
  BY <1>2, <1>3, <1>4, <1>5, <1>6
  DEF Next, vars, map, handlers, icons, Click, ClickElsewhere, Zoom, LoadEvent, StyleDataEvent,
      ImageLoads, ImageFails, OrphanRetries, StyleArrives, TilesFinish, TilesStart, StyleChanges

\* The components of a run stay the same.
LEMMA SceneStays ==
  ASSUME [Next]_vars
  PROVE  scene' = scene
BY DEF Next, vars, map, handlers, icons, Click, ClickElsewhere, Zoom, RetryAttach,
       ImageLoads, ImageFails, OrphanRetries, StyleArrives, TilesFinish, TilesStart, StyleChanges,
       Mount, Render, Unmount, LoadEvent, StyleDataEvent

\* The style arrives once.
Styled == style \in {"fetching", "busy", "idle"} /\ scene \in Scenes

LEMMA StyledStep ==
  Styled /\ [Next]_vars => Styled' /\ (style # "fetching" => style' # "fetching")
<1> SUFFICES ASSUME Styled, [Next]_vars
             PROVE  style' \in {style, "busy", "idle"} /\ scene' = scene
  BY DEF Styled
<1>1. ASSUME NEW cs, Apply(cs) PROVE style' \in {style, "busy", "idle"}
  BY <1>1 DEF Apply
<1>2. ASSUME NEW c \in scene, NEW items, Mount(c, items) \/ Render(c, items) \/ Unmount(c)
      PROVE  style' \in {style, "busy", "idle"} /\ scene' = scene
  BY <1>1, <1>2 DEF Mount, Render, Unmount
<1>3. CASE LoadEvent \/ StyleDataEvent
  BY <1>1, <1>3 DEF LoadEvent, StyleDataEvent
<1>4. CASE StyleArrives \/ TilesFinish \/ TilesStart
  BY <1>4 DEF StyleArrives, TilesFinish, TilesStart
<1>5. CASE UNCHANGED <<scene, style>>
  BY <1>5
<1>6. QED
  BY <1>2, <1>3, <1>4, <1>5
  DEF Next, vars, map, handlers, icons, Click, ClickElsewhere, Zoom, RetryAttach,
      ImageLoads, ImageFails, OrphanRetries, StyleChanges

\* "load" puts on the map whatever is rendered by then.
OnMap == \A c \in scene : Rendered(c) => onMap[c] = data[c]

LEMMA LoadEventDraws == LoadEvent => OnMap'
<1> SUFFICES ASSUME LoadEvent PROVE OnMap'
  OBVIOUS
<1>1. /\ style = "idle" /\ scene' = scene /\ mounted' = mounted /\ Apply(mounted)
  BY DEF LoadEvent
<1>2. \A c \in scene : c \in mounted /\ data'[c] # {} => onMap'[c] = data'[c]
  BY <1>1 DEF Apply
<1>3. QED
  BY <1>1, <1>2 DEF OnMap, Rendered

LEMMA LoadedByLoad == ~loaded /\ [Next]_vars => ~loaded' \/ OnMap'
BY LoadEventDraws
DEF Next, vars, map, handlers, icons, Click, ClickElsewhere, Zoom, RetryAttach, Mount, Render,
    Unmount, StyleDataEvent, ImageLoads, ImageFails, OrphanRetries, StyleArrives, TilesFinish,
    TilesStart, StyleChanges

\* What is on the map stays there as long as the component has data to draw.
LEMMA OnMapStays ==
  ASSUME SceneInv, [Next]_vars, NEW c \in scene, onMap[c] # {}, Rendered(c)'
  PROVE  onMap'[c] = data'[c]
<1>1. PerComponent(onMap)
  BY DEF SceneInv, Shape
<1>2. c \in mounted' /\ data'[c] # {}
  BY DEF Rendered
<1>3. ASSUME NEW cs, Apply(cs) PROVE onMap'[c] # {}
  BY <1>2, <1>3 DEF Apply
<1>4. onMap'[c] # {}
  <2>1. ASSUME NEW d \in scene, NEW items, Mount(d, items) \/ Unmount(d) PROVE onMap'[c] # {}
    BY <1>3, <2>1 DEF Mount, Unmount
  <2>2. ASSUME NEW d \in scene, NEW items, Render(d, items) PROVE onMap'[c] # {}
    <3>1. CASE onMap[d] # {} /\ data'[d] # {}
      <4>1. onMap' = [onMap EXCEPT ![d] = data'[d]]
        BY <2>2, <3>1 DEF Render
      <4>2. QED
        BY <1>1, <3>1, <4>1 DEF PerComponent
    <3>2. CASE ~(onMap[d] # {} /\ data'[d] # {})
      BY <1>3, <2>2, <3>2 DEF Render
    <3>3. QED
      BY <3>1, <3>2
  <2>3. CASE LoadEvent
    BY <1>3, <2>3 DEF LoadEvent
  <2>4. CASE StyleDataEvent
    <3>1. onMap'[c] \in {onMap[c], data[c]} /\ data' = data
      BY <2>4 DEF StyleDataEvent
    <3>2. QED
      BY <1>2, <3>1
  <2>5. CASE UNCHANGED onMap
    BY <2>5
  <2>6. QED
    BY <2>1, <2>2, <2>3, <2>4, <2>5
    DEF Next, vars, map, handlers, icons, Click, ClickElsewhere, Zoom, RetryAttach,
        ImageLoads, ImageFails, OrphanRetries, StyleArrives, TilesFinish, TilesStart, StyleChanges
<1>5. SceneInv'
  BY SceneInvStep
<1>6. scene' = scene
  BY SceneStays
<1>7. QED
  BY <1>4, <1>5, <1>6 DEF SceneInv, MapShowsProps

\* A component that retries is the only one of its scene, is on the map and has
\* its handlers still to attach.
ToAttach ==
  \E c \in scene : /\ scene = {c} /\ Retries(c) /\ Rendered(c)
                   /\ onMap[c] = data[c] /\ ~attached[c]
AllDrawn == \A c \in scene : Rendered(c) => Drawn(c)
RetryAttaches == \E c \in scene : RetryAttach(c)

LEMMA ToAttachStep ==
  ASSUME SceneInv, Styled, ToAttach, [Next]_vars
  PROVE  /\ ToAttach' \/ AllDrawn'
         /\ RetryAttaches => AllDrawn'
<1> PICK c \in scene : /\ scene = {c} /\ Retries(c) /\ Rendered(c)
                       /\ onMap[c] = data[c] /\ ~attached[c]
  BY DEF ToAttach
<1>1. scene' = scene
  BY SceneStays
<1>2. Rendered(c)' => onMap'[c] = data'[c]
  BY OnMapStays DEF Rendered
<1>3. Retries(c)' = Retries(c)
  BY DEF Retries, Clickable, Popup
<1>4. ToAttach' \/ AllDrawn'
  BY <1>1, <1>2, <1>3 DEF ToAttach, AllDrawn, Drawn, Rendered
<1>5. ASSUME RetryAttaches PROVE AllDrawn'
  <2>1. RetryAttach(c)
    BY <1>5 DEF RetryAttaches
  <2>2. attached' = [attached EXCEPT ![c] = onMap[c] # {}] /\ PerComponent(attached)
    BY <2>1 DEF RetryAttach, SceneInv, Shape
  <2>3. attached'[c]
    BY <2>2 DEF PerComponent, Rendered
  <2>4. QED
    BY <1>1, <1>2, <2>3 DEF AllDrawn, Drawn, Rendered
<1>6. QED
  BY <1>4, <1>5

\* A component that retries without limit has its scene to itself, as TripStops
\* has in the runs; the map page has no such component.
Alone == \A s \in Scenes : \A c \in s : Retries(c) => s = {c}

LEMMA OnMapThenDrawn ==
  ASSUME Alone, Styled, OnMap
  PROVE  AllDrawn \/ ToAttach
<1>1. CASE \E c \in scene : Retries(c)
  <2>1. PICK c \in scene : Retries(c)
    BY <1>1
  <2>2. scene = {c}
    BY <2>1 DEF Alone, Styled
  <2>3. QED
    BY <2>1, <2>2 DEF OnMap, AllDrawn, Drawn, ToAttach, Retries
<1>2. CASE \A c \in scene : ~Retries(c)
  BY <1>2 DEF OnMap, AllDrawn, Drawn, Retries
<1>3. QED
  BY <1>1, <1>2

\* The browser's steps are possible where their guards say so: hypotheses, for
\* the prover does not reason about ENABLED.
StepsArePossible ==
  /\ style = "fetching" => ENABLED <<StyleArrives>>_vars
  /\ style = "busy" => ENABLED <<TilesFinish>>_vars
  /\ ~loaded /\ style = "idle" => ENABLED <<LoadEvent>>_vars
  /\ (\E c \in scene : waiting[c] # 0 /\ ~attached[c] /\ onMap[c] # {})
       => ENABLED <<RetryAttaches>>_vars

\* The map loads, whatever is mounted, rendered and toggled meanwhile.
LEMMA MapLoads == FairSpec /\ []StepsArePossible => (~loaded ~> loaded)
<1> DEFINE Fetching == style = "fetching"
           Busy == style = "busy"
           Idle == style = "idle"
<1>1. Init => Styled
  BY DEF Init, Styled
<1>2. <<LoadEvent>>_vars => loaded'
  BY DEF LoadEvent
<1>3. Styled => Fetching \/ Busy \/ Idle
  BY DEF Styled
<1>4. Styled /\ [Next]_vars => Styled' /\ (~Fetching => ~Fetching')
  BY StyledStep
<1>5. <<StyleArrives>>_vars => Busy' /\ ~Fetching'
  BY DEF StyleArrives
<1>6. <<TilesFinish>>_vars => Idle'
  BY DEF TilesFinish
<1>7. /\ StepsArePossible /\ Fetching => ENABLED <<StyleArrives>>_vars
      /\ StepsArePossible /\ Busy => ENABLED <<TilesFinish>>_vars
      /\ StepsArePossible /\ ~loaded /\ Idle => ENABLED <<LoadEvent>>_vars
  BY DEF StepsArePossible
<1> HIDE DEF Fetching, Busy, Idle
<1>8. QED
  BY <1>1, <1>2, <1>3, <1>4, <1>5, <1>6, <1>7, PTL DEF FairSpec, Spec

\* A component rendered with data before the map has loaded gets on the map, and
\* the handlers of one that retries without limit are attached, for any scenes
\* in which such a component is alone: neither the order in which the style, the
\* tiles and the load event come nor what is toggled and zoomed loses it.
THEOREM InitialLayersAlwaysAppear ==
  ASSUME Alone
  PROVE  FairSpec /\ []StepsArePossible => InitialLayersAppear
<1>1. Init => Styled /\ RetriesGoOn
  BY DEF Init, Styled, RetriesGoOn
<1>2. Styled /\ [Next]_vars => Styled'
  BY StyledStep
<1>3. SceneInv /\ RetriesGoOn /\ [Next]_vars => RetriesGoOn'
  BY RetriesGoOnStep
<1>4. ~loaded /\ [Next]_vars => ~loaded' \/ OnMap'
  BY LoadedByLoad
<1>5. Styled /\ OnMap => AllDrawn \/ ToAttach
  BY OnMapThenDrawn
<1>6. SceneInv /\ Styled /\ ToAttach /\ [Next]_vars => ToAttach' \/ AllDrawn'
  BY ToAttachStep
<1>7. SceneInv /\ Styled /\ ToAttach /\ [Next]_vars /\ <<RetryAttaches>>_vars => AllDrawn'
  BY ToAttachStep
<1>8. RetriesGoOn /\ ToAttach /\ StepsArePossible => ENABLED <<RetryAttaches>>_vars
  <2> SUFFICES ASSUME RetriesGoOn, ToAttach, StepsArePossible
               PROVE  \E c \in scene : waiting[c] # 0 /\ ~attached[c] /\ onMap[c] # {}
    BY DEF StepsArePossible
  <2>1. QED
    BY DEF ToAttach, RetriesGoOn, Rendered
<1>9. FairSpec => WF_vars(RetryAttaches)
  BY PTL DEF FairSpec, RetryAttaches
<1>10. (~loaded /\ \E c \in scene : Rendered(c)) => ~loaded
  OBVIOUS
<1>11. FairSpec /\ []StepsArePossible => (~loaded ~> AllDrawn)
  BY <1>1, <1>2, <1>3, <1>4, <1>5, <1>6, <1>7, <1>8, <1>9, MapLoads, SceneInvariant, PTL
  DEF FairSpec, Spec
<1>12. FairSpec /\ []StepsArePossible
         => ((~loaded /\ \E c \in scene : Rendered(c)) ~> AllDrawn)
  BY <1>10, <1>11, PTL
<1>13. QED
  BY <1>12 DEF InitialLayersAppear, AllDrawn
=============================================================================
