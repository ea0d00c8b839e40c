------------------------------ MODULE MapScene ------------------------------
(* The life of the layer components on one MapLibre map: useGeoJsonLayer and      *)
(* syncMapImages, the popup effects of the layers with clickable markers, the     *)
(* toggles that mount and unmount them, and the map's style (external), which     *)
(* loads its tiles and raises "load" once and "styledata" after style changes.    *)
EXTENDS MapLayers, FiniteSets

CONSTANTS Scenes,        \* the sets of components that a run puts on the map
          Payloads(_),   \* what the server may answer for a component
          MaxLeaks, MaxOrphans,   \* bounds on leaked handlers, on timers left of dead effects
          MaxFailures             \* and on images that fail to load

VARIABLES
  scene,      \* the components of this run
  style,      \* "fetching": no style yet; "busy": sources or tiles load; "idle": isStyleLoaded()
  loaded,     \* whether the map has raised "load"
  dirty,      \* a "styledata" event is due
  mode,       \* the visibility mode of the zoom
  mounted,    \* the components rendered
  data,       \* the features each component was last rendered with, {} for null
  onMap,      \* the features in each component's source on the map, {} for no source
  visible,    \* the layers of each component that the map shows
  images,     \* the images on the map
  pending,    \* the images each mounted component is loading
  failures,   \* images that failed to load so far
  attached,   \* whether the handlers of the component's live effect are attached
  waiting,    \* the attempts the live effect has made while its timer runs, 0 without a timer
  orphans,    \* the attempts of dead effects whose timers still run
  leaked,     \* handlers of dead effects left on the map
  popup       \* the popups open: of the live effect, of dead ones

map == <<style, loaded, dirty, mode>>
handlers == <<attached, waiting, orphans, leaked, popup>>
icons == <<images, pending, failures>>
vars == <<scene, map, mounted, data, onMap, visible, icons, handlers>>

Images(c) == Layer[c].images
VisibleLayers(c, m) == {id \in DOMAIN Layer[c].shown : m \in Layer[c].shown[id]}
Popup(c) == Layer[c].popup
Clickable(c) == Popup(c).on # {}

TypeOK ==
  /\ scene \in Scenes
  /\ style \in {"fetching", "busy", "idle"} /\ loaded \in BOOLEAN /\ dirty \in BOOLEAN
  /\ mode \in Modes /\ mounted \subseteq scene
  /\ \A c \in scene : /\ data[c] \subseteq DOMAIN Layer[c].icon
                      /\ onMap[c] \subseteq DOMAIN Layer[c].icon
                      /\ visible[c] \subseteq DOMAIN Layer[c].shown
                      /\ pending[c] \subseteq Images(c)
                      /\ attached[c] \in BOOLEAN /\ waiting[c] \in 0..MaxRetries
                      /\ orphans[c] \subseteq 1..MaxRetries /\ leaked[c] \in 0..MaxLeaks
                      /\ popup[c] \subseteq {"live", "dead"}
  /\ images \subseteq UNION {Images(c) : c \in scene} /\ failures \in 0..MaxFailures

Init ==
  /\ scene \in Scenes
  /\ style = "fetching" /\ loaded = FALSE /\ dirty = FALSE /\ mode = "route-only"
  /\ mounted = {} /\ images = {} /\ failures = 0
  /\ data = [c \in scene |-> {}] /\ onMap = [c \in scene |-> {}]
  /\ visible = [c \in scene |-> {}] /\ pending = [c \in scene |-> {}]
  /\ attached = [c \in scene |-> FALSE] /\ waiting = [c \in scene |-> 0]
  /\ orphans = [c \in scene |-> {}] /\ leaked = [c \in scene |-> 0]
  /\ popup = [c \in scene |-> {}]

-----------------------------------------------------------------------------
(* useGeoJsonLayer: `apply` puts the source and the layers of the components in   *)
(* cs on the map, or refreshes their data and visibility; before the style exists *)
(* it throws and is caught.                                                       *)
Apply(cs) ==
  LET ready == {c \in cs : data'[c] # {} /\ style # "fetching"}
      new == {c \in ready : onMap[c] = {}}
  IN /\ onMap' = [c \in scene |-> IF c \in ready THEN data'[c]
                                  ELSE IF c \in mounted' /\ data'[c] # {} THEN onMap[c] ELSE {}]
     /\ visible' = [c \in scene |-> IF c \in ready THEN VisibleLayers(c, mode)
                                    ELSE IF onMap'[c] = {} THEN {} ELSE visible[c]]
     /\ style' = IF new = {} THEN style ELSE "busy"
     /\ dirty' = (dirty \/ new # {} \/ visible' # visible)

StoppedWithPopup(c, layerThere) ==
  [attached |-> FALSE,
   orphans |-> IF waiting[c] # 0 /\ ~Popup(c).cancels
               THEN orphans[c] \cup {waiting[c]} ELSE orphans[c],
   leaked |-> IF attached[c] /\ ~layerThere THEN leaked[c] + 1 ELSE leaked[c],
   popup |-> popup[c]]

(* The popup effect: its cleanup drops the popup and takes the handlers off the   *)
(* layers that are still there; a timer of an effect without clearTimeout goes on. *)
Stopped(c, layerThere) ==
  [attached |-> FALSE,
   orphans |-> IF waiting[c] # 0 /\ ~Popup(c).cancels
               THEN orphans[c] \cup {waiting[c]} ELSE orphans[c],
   leaked |-> IF attached[c] /\ ~layerThere THEN leaked[c] + 1 ELSE leaked[c],
   popup |-> popup[c] \ {"live"}]

(* One attempt to attach, after `made` failed ones: the attempts to count when a  *)
(* timer is to run, 0 when the handlers are attached or the effect gives up.      *)
Retry(c, made, layerThere) ==
  LET tries == Popup(c).tries IN
  IF layerThere THEN 0
  ELSE IF tries = Forever THEN 1
  ELSE IF made + 1 < tries THEN made + 1 ELSE 0

Starts(c) == Clickable(c) /\ c \in mounted' /\ (Popup(c).perData => data'[c] # {})

(* The popup effects of the components in cs end and, where they should, begin again. *)
RunPopupEffects(cs) ==
  LET left(c) == Stopped(c, onMap[c] # {} /\ onMap'[c] # {})
      on(c) == c \in cs /\ Clickable(c)
  IN /\ \A c \in cs : /\ left(c).leaked <= MaxLeaks
                       /\ Cardinality(left(c).orphans) <= MaxOrphans
     /\ attached' = [c \in scene |-> IF on(c) THEN Starts(c) /\ onMap'[c] # {} ELSE attached[c]]
     /\ waiting' = [c \in scene |-> IF ~on(c) THEN waiting[c]
                                    ELSE IF Starts(c) THEN Retry(c, 0, onMap'[c] # {}) ELSE 0]
     /\ orphans' = [c \in scene |-> IF on(c) THEN left(c).orphans ELSE orphans[c]]
     /\ leaked' = [c \in scene |-> IF on(c) THEN left(c).leaked ELSE leaked[c]]
     /\ popup' = [c \in scene |-> IF on(c) THEN left(c).popup ELSE popup[c]]

(* syncMapImages: `ensureImages` of the components in cs starts loading what is   *)
(* missing, when the style counts as loaded at that moment.                       *)
EnsureImages(cs) ==
  pending' = [c \in scene |-> IF c \in cs THEN Images(c) \ images
                              ELSE IF c \in mounted' THEN pending[c] ELSE {}]
\* A callback that ran before may have made the style busy when a component's turn comes.
FindIdle(cs) == IF style = "idle" THEN SUBSET cs ELSE {{}}

-----------------------------------------------------------------------------
(* A component is rendered: its layer is toggled on, or what it depends on exists. *)
Mount(c, items) ==
  /\ c \notin mounted
  /\ mounted' = mounted \cup {c}
  /\ data' = [data EXCEPT ![c] = Features(c, items)]
  /\ Apply(IF style = "idle" THEN {c} ELSE {})
  /\ \E cs \in FindIdle({c}) : EnsureImages(cs)
  /\ RunPopupEffects({c})
  /\ UNCHANGED <<scene, loaded, mode, images, failures>>

(* Toggled off: the hook's cleanup removes layers and source, then the popup's runs. *)
Unmount(c) ==
  /\ c \in mounted
  /\ mounted' = mounted \ {c}
  /\ data' = [data EXCEPT ![c] = {}]
  /\ Apply({})
  /\ EnsureImages({})
  /\ RunPopupEffects({c})
  /\ UNCHANGED <<scene, loaded, mode, images, failures>>

RenderWithoutCleanup(c, items) ==
  /\ c \in mounted
  /\ Features(c, items) # data[c]
  /\ data' = [data EXCEPT ![c] = Features(c, items)]
  /\ UNCHANGED <<mounted, onMap, style, visible, dirty>>
  /\ RunPopupEffects(IF Popup(c).perData THEN {c} ELSE {})
  /\ UNCHANGED <<scene, loaded, mode, icons>>

(* New features, or none any more, for a mounted component: the source is made    *)
(* or removed when there were none or are none, else its data is replaced at once. *)
Render(c, items) ==
  /\ c \in mounted
  /\ Features(c, items) # data[c]
  /\ data' = [data EXCEPT ![c] = Features(c, items)]
  /\ UNCHANGED mounted
  /\ IF onMap[c] # {} /\ data'[c] # {}
     THEN /\ onMap' = [onMap EXCEPT ![c] = data'[c]]
          /\ style' = "busy"
          /\ UNCHANGED <<visible, dirty>>
     ELSE Apply(IF data[c] = {} /\ style = "idle" THEN {c} ELSE {})
  /\ RunPopupEffects(IF Popup(c).perData THEN {c} ELSE {})
  /\ UNCHANGED <<scene, loaded, mode, icons>>

-----------------------------------------------------------------------------
(* The map (external): the style arrives, tiles finish and start loading. *)
StyleArrives ==
  /\ style = "fetching"
  /\ style' = "busy" /\ dirty' = TRUE
  /\ UNCHANGED <<scene, loaded, mode, mounted, data, onMap, visible, icons, handlers>>

TilesFinish ==
  /\ style = "busy"
  /\ style' = "idle"
  /\ UNCHANGED <<scene, loaded, dirty, mode, mounted, data, onMap, visible, icons, handlers>>

TilesStart ==
  /\ loaded /\ style = "idle"
  /\ style' = "busy"
  /\ UNCHANGED <<scene, loaded, dirty, mode, mounted, data, onMap, visible, icons, handlers>>

(* The style is changed by something else than these components. *)
StyleChanges ==
  /\ loaded /\ ~dirty
  /\ dirty' = TRUE
  /\ UNCHANGED <<scene, style, loaded, mode, mounted, data, onMap, visible, icons, handlers>>

LoadEventForImages ==
  /\ ~loaded /\ style = "idle"
  /\ loaded' = TRUE
  /\ UNCHANGED <<scene, mode, mounted, data, images, failures, handlers>>
  /\ Apply({})
  /\ \E cs \in FindIdle(mounted) : EnsureImages(cs)

(* "load", once, with the style idle: the callbacks that waited for it run. *)
LoadEvent ==
  /\ ~loaded /\ style = "idle"
  /\ loaded' = TRUE
  /\ UNCHANGED <<scene, mode, mounted, data, images, failures, handlers>>
  /\ Apply(mounted)
  /\ \E cs \in FindIdle(mounted) : EnsureImages(cs)

(* "styledata": every component with data applies itself again. *)
StyleDataEvent ==
  /\ dirty /\ style # "fetching"
  /\ UNCHANGED <<scene, loaded, mode, mounted, data, images, failures, handlers>>
  /\ LET ready == {c \in mounted : data[c] # {}} IN
     /\ onMap' = [c \in scene |-> IF c \in ready THEN data[c] ELSE onMap[c]]
     /\ visible' = [c \in scene |-> IF c \in ready THEN VisibleLayers(c, mode) ELSE visible[c]]
     /\ style' = IF ready = {} THEN style ELSE "busy"
     /\ dirty' = \E c \in ready : onMap[c] = {} \/ visible'[c] # visible[c]
  /\ \E cs \in FindIdle(mounted) : EnsureImages(cs)

ZoomWhenIdle(m) ==
  /\ m # mode
  /\ mode' = m
  /\ visible' = [c \in scene |-> IF onMap[c] # {} /\ style = "idle" THEN VisibleLayers(c, m)
                                  ELSE visible[c]]
  /\ dirty' = (dirty \/ visible' # visible)
  /\ UNCHANGED <<scene, style, loaded, mounted, data, onMap, icons, handlers>>

(* "zoom": each component on the map shows and hides its layers. *)
Zoom(m) ==
  /\ m # mode
  /\ mode' = m
  /\ visible' = [c \in scene |-> IF onMap[c] # {} THEN VisibleLayers(c, m) ELSE {}]
  /\ dirty' = (dirty \/ visible' # visible)
  /\ UNCHANGED <<scene, style, loaded, mounted, data, onMap, icons, handlers>>

(* A marker image finishes loading; one the map has by now is not added again.    *)
(* The images of a component are taken in a fixed order, on which nothing depends. *)
NextImage(c) == CHOOSE i \in pending[c] : TRUE
ImageLoads(c) ==
  LET i == NextImage(c) IN
  /\ pending[c] # {}
  /\ pending' = [pending EXCEPT ![c] = @ \ {i}]
  /\ images' = images \cup {i}
  /\ dirty' = (dirty \/ i \notin images)
  /\ UNCHANGED <<scene, style, loaded, mode, mounted, data, onMap, visible, failures, handlers>>

ImageFails(c) ==
  /\ pending[c] # {} /\ failures < MaxFailures
  /\ pending' = [pending EXCEPT ![c] = @ \ {NextImage(c)}]
  /\ failures' = failures + 1
  /\ UNCHANGED <<scene, map, mounted, data, onMap, visible, images, handlers>>

-----------------------------------------------------------------------------
(* The 100 ms timer of a live popup effect, and one of an effect already cleaned up. *)
RetryAttach(c) ==
  /\ waiting[c] # 0
  /\ waiting' = [waiting EXCEPT ![c] = Retry(c, @, onMap[c] # {})]
  /\ attached' = [attached EXCEPT ![c] = onMap[c] # {}]
  /\ UNCHANGED <<scene, map, mounted, data, onMap, visible, icons, orphans, leaked, popup>>

OrphanRetries(c, made) ==
  /\ made \in orphans[c]
  /\ onMap[c] # {} => leaked[c] < MaxLeaks
  /\ leaked' = [leaked EXCEPT ![c] = IF onMap[c] # {} THEN @ + 1 ELSE @]
  /\ orphans' = [orphans EXCEPT ![c] = (@ \ {made}) \cup ({Retry(c, made, onMap[c] # {})} \ {0})]
  /\ UNCHANGED <<scene, map, mounted, data, onMap, visible, icons, attached, waiting, popup>>

(* A click on a marker: every handler on its layer opens its popup.  Any click    *)
(* closes the popups that were open.                                              *)
Click(c) ==
  /\ visible[c] \cap Popup(c).on # {}
  /\ attached[c] \/ leaked[c] > 0
  /\ popup' = [d \in scene |-> IF d # c THEN {}
                 ELSE {w \in {"live", "dead"} : IF w = "live" THEN attached[c] ELSE leaked[c] > 0}]
  /\ UNCHANGED <<scene, map, mounted, data, onMap, visible, icons, attached, waiting, orphans, leaked>>

ClickElsewhere ==
  /\ \E c \in scene : popup[c] # {}
  /\ popup' = [c \in scene |-> {}]
  /\ UNCHANGED <<scene, map, mounted, data, onMap, visible, icons, attached, waiting, orphans, leaked>>

-----------------------------------------------------------------------------
Next ==
  \/ \E c \in scene : \/ \E items \in Payloads(c) : Mount(c, items) \/ Render(c, items)
                      \/ Unmount(c)
                      \/ RetryAttach(c)
                      \/ \E made \in orphans[c] : OrphanRetries(c, made)
                      \/ Click(c)
                      \/ ImageLoads(c) \/ ImageFails(c)
  \/ \E m \in Modes : Zoom(m)
  \/ StyleArrives \/ TilesFinish \/ TilesStart \/ StyleChanges
  \/ LoadEvent \/ StyleDataEvent \/ ClickElsewhere

Spec == Init /\ [][Next]_vars

(* The browser fetches and loads, frames are drawn and timers run out; nothing    *)
(* obliges the user, the server or a later change of style to act.  "load" comes  *)
(* with the first frame that finds the style idle, so it cannot be missed forever. *)
FairSpec ==
  /\ Spec
  /\ WF_vars(StyleArrives) /\ WF_vars(TilesFinish) /\ SF_vars(LoadEvent)
  /\ SF_vars(StyleDataEvent)
  /\ WF_vars(\E c \in scene : RetryAttach(c))
-----------------------------------------------------------------------------
(* What the map holds of a component is what the component was last rendered with, *)
(* and nothing of a component that is gone or has nothing to draw.                 *)
MapShowsProps ==
  \A c \in scene : onMap[c] # {} => c \in mounted /\ onMap[c] = data[c]

(* The layers shown are those of the current zoom, whichever of mounting, loading  *)
(* the style and zooming came last.                                                *)
VisibilityFollowsZoom ==
  \A c \in scene : visible[c] = IF onMap[c] = {} THEN {} ELSE VisibleLayers(c, mode)

(* Live click handlers, and the popups they open, belong to a rendered component,  *)
(* and where they follow the data, to markers that are on the map.                 *)
HandlersHaveMarkers ==
  \A c \in scene :
    attached[c] \/ "live" \in popup[c] =>
      c \in mounted /\ waiting[c] = 0 /\ (Popup(c).perData => onMap[c] # {})

(* A component rendered with data before the map has loaded gets on the map, and   *)
(* the handlers of one that retries without limit are attached.                    *)
Rendered(c) == c \in scene /\ c \in mounted /\ data[c] # {}
Drawn(c) == onMap[c] = data[c] /\ (Clickable(c) /\ Popup(c).tries = Forever => attached[c])
InitialLayersAppear ==
  (~loaded /\ \E c \in scene : Rendered(c)) ~> (\A c \in scene : Rendered(c) => Drawn(c))

(* whenStyleReady: "Run a callback once the map style is ready", so a component    *)
(* that stays rendered gets on the map whenever it was rendered.                   *)
LayersAppear == (\E c \in scene : Rendered(c)) ~> (\A c \in scene : Rendered(c) => Drawn(c))
=============================================================================
