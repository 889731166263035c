--------------------------- MODULE RenderContext ---------------------------
(***************************************************************************)
(* CqRenderer between RiBegin and RiEnd: the blocks, their options, the    *)
(* surfaces of the world, the lights with automatic shadows, and what      *)
(* RiWorldEnd does with them - a pass for every such light, each to a      *)
(* display manager of its own, then the image.  A first display whose      *)
(* library is missing throws out of the middle of a pass; the parser       *)
(* reports it and goes on with the next request.  Calls the validator      *)
(* (RiCxxValidate) refuses change nothing and are no actions.              *)
(***************************************************************************)
EXTENDS DisplayManager

CONSTANTS XRes, YRes, ShadowRes, BucketSize,
          Crops, CropUnit,     \* crop windows, in parts 1/CropUnit of the image
          AutoLights,          \* lights with a shadowmapname, by their order in m_lights
          FileDriver, ShadowDriver,
          Faults,              \* what there may be behind the drivers' names
          MaxRefused, MaxSettings, MaxSurfaces, MaxWorldEnds     \* bounds of a session

ASSUME SessionConstants ==
  /\ {FileDriver, ShadowDriver} \subseteq Drivers
  /\ AutoLights \subseteq Nat \ {0}
  /\ Faults \subseteq [Drivers -> Libraries]

VARIABLES
  scopes,     \* RiCxxValidate::m_scopeStack
  attributes, \* the size of RiCxxValidate::m_attrStack
  blocks,     \* the types of the mode blocks, m_pconCurrent last
  options,    \* for each block that has options: m_optionsStack, m_poptCurrent last
  world,      \* m_aWorld
  lights,     \* m_lights
  queued,     \* surfaces in the buckets of the image buffer
  window,     \* the crop window and the resolution of the image buffer
  main,       \* realDDManager while a shadow pass has replaced it
  task,       \* the call that is being executed
  created,    \* surfaces so far
  ends,       \* calls of RiWorldEnd so far
  before,     \* both of these at the last RiWorldBegin
  settings,   \* calls so far that set displays, options and lights
  renders     \* what RenderImage was called for, until RiWorldEnd returns

vars == <<libraries, requests, images, scopes, attributes, blocks, options, world, lights, queued,
          window, main, task, created, before, ends, settings, renders>>

\* The call that is being executed: the shadow passes to do, the light of the
\* pass (0 for the image), the multipass option RenderWorld puts back, the next
\* display to open, the next bucket, and the options and displays at the call.
Idle == [stage |-> "idle", todo |-> {}, light |-> 0, saved |-> FALSE, display |-> 0,
         cell |-> Blank, options |-> <<>>, drivers |-> <<>>]
idle == task.stage = "idle"

scope == Last(scopes)
Outside == {"BeginEnd", "Frame"}     \* the scopes where options may be set
Setting == idle /\ ends < MaxWorldEnds /\ settings < MaxSettings /\ settings' = settings + 1

\* poptCurrent: a World block has its parent's.
current == Last(Last(options))
SetCurrent(o) == [options EXCEPT ![Len(options)][Len(options[Len(options)])] = o]

Ceil(a, b) == (a + b - 1) \div b

\* initialiseCropWindow and SetImage.
Window(o) == [res  |-> o.res,
              crop |-> [xMin |-> Ceil(o.res.x * o.crop.xMin, CropUnit),
                        yMin |-> Ceil(o.res.y * o.crop.yMin, CropUnit),
                        xMax |-> Ceil(o.res.x * o.crop.xMax, CropUnit),
                        yMax |-> Ceil(o.res.y * o.crop.yMax, CropUnit)]]

BucketRegion(w) == [xMin |-> w.crop.xMin \div BucketSize, yMin |-> w.crop.yMin \div BucketSize,
                    xMax |-> (w.crop.xMax - 1) \div BucketSize + 1,
                    yMax |-> (w.crop.yMax - 1) \div BucketSize + 1]

Least(a, b) == IF a < b THEN a ELSE b
DisplayRegion(w, c) == [xMin |-> c.x * BucketSize, yMin |-> c.y * BucketSize,
                        xMax |-> Least((c.x + 1) * BucketSize, w.res.x),
                        yMax |-> Least((c.y + 1) * BucketSize, w.res.y)]

FullCrop == [xMin |-> 0, yMin |-> 0, xMax |-> CropUnit, yMax |-> CropUnit]

\* A crop window that has no pixels is left out.
ASSUME ImageConstants ==
  /\ BucketSize \in Nat \ {0} /\ {XRes, YRes, ShadowRes} \subseteq Nat
  /\ \A res \in {[x |-> XRes, y |-> YRes], [x |-> ShadowRes, y |-> ShadowRes]},
        part \in Crops \cup {FullCrop} :
       LET crop == Window([res |-> res, crop |-> part]).crop
       IN  crop \in Regions /\ NonEmpty(crop) /\ crop.xMax <= res.x /\ crop.yMax <= res.y

Init ==
  /\ libraries \in Faults
  /\ requests = <<NewRequest(FileDriver)>>     \* SetDefaultRiOptions
  /\ images = <<>>
  /\ scopes = <<"BeginEnd">> /\ attributes = 1 /\ blocks = <<"BeginEnd">>
  /\ options = <<<<[multipass |-> FALSE, res |-> [x |-> XRes, y |-> YRes],
                   crop |-> FullCrop]>>>>
  /\ world = <<>> /\ lights = {} /\ queued = <<>>
  /\ window = Window(current)
  /\ main = <<>>
  /\ task = Idle
  /\ created = 0 /\ before = [created |-> 0, ends |-> 0] /\ ends = 0 /\ settings = 0
  /\ renders = <<>>

(************************** the interface calls ****************************)

\* popAttributes: the last one stays.
FewerAttributes == IF attributes > 1 THEN attributes - 1 ELSE attributes

\* BeginFrameModeBlock is an error in every block but the outermost.
FrameBegin ==
  /\ idle /\ scope = "BeginEnd" /\ ends < MaxWorldEnds
  /\ scopes' = Append(scopes, "Frame") /\ attributes' = attributes + 1
  /\ IF Last(blocks) = "BeginEnd"
     THEN /\ blocks' = Append(blocks, "Frame")
          /\ options' = Append(options, <<current>>)
     ELSE UNCHANGED <<blocks, options>>
  /\ UNCHANGED <<libraries, requests, images, world, lights, queued, window, main, task,
                 created, before, ends, settings, renders>>

FrameEnd ==
  /\ idle /\ scope = "Frame"
  /\ IF Last(blocks) = "Frame"
     THEN blocks' = Front(blocks) /\ options' = Front(options)
     ELSE UNCHANGED <<blocks, options>>
  /\ requests' = NoDisplays
  /\ scopes' = Front(scopes) /\ attributes' = FewerAttributes
  /\ UNCHANGED <<libraries, images, world, lights, queued, window, main, task, created,
                 before, ends, settings, renders>>

WorldBegin ==
  /\ idle /\ scope \in Outside /\ ends < MaxWorldEnds
  /\ scopes' = Append(scopes, "World") /\ attributes' = attributes + 1
  /\ blocks' = IF Last(blocks) = "World" THEN blocks ELSE Append(blocks, "World")
  /\ window' = Window(current)
  /\ before' = [created |-> created, ends |-> ends]
  /\ UNCHANGED <<libraries, requests, images, options, world, lights, queued, main, task,
                 created, ends, settings, renders>>

\* RiDisplay; a name that begins with "+" adds a display.
Display(d, add) ==
  /\ Setting /\ scope \in Outside
  /\ requests' = IF add THEN AddDisplay(d) ELSE <<NewRequest(d)>>
  /\ UNCHANGED <<libraries, images, scopes, attributes, blocks, options, world, lights, queued, window,
                 main, task, created, before, ends, renders>>

\* RiOption "Render" "multipass".
Multipass(b) ==
  /\ Setting /\ scope \in Outside
  /\ options' = SetCurrent([current EXCEPT !.multipass = b])
  /\ UNCHANGED <<libraries, requests, images, scopes, attributes, blocks, world, lights, queued, window,
                 main, task, created, before, ends, renders>>

\* RiCropWindow.
CropWindow(c) ==
  /\ Setting /\ scope \in Outside
  /\ options' = SetCurrent([current EXCEPT !.crop = c])
  /\ UNCHANGED <<libraries, requests, images, scopes, attributes, blocks, world, lights, queued, window,
                 main, task, created, before, ends, renders>>

\* RiLightSource: registerLight, in a map nothing ever leaves.
LightSource(l) ==
  /\ Setting
  /\ lights' = lights \cup {l}
  /\ UNCHANGED <<libraries, requests, images, scopes, attributes, blocks, options, world, queued, window,
                 main, task, created, before, ends, renders>>

\* Any primitive: CreateGPrim and StorePrimitive.
Primitive ==
  /\ idle /\ scope = "World" /\ created < MaxSurfaces
  /\ created' = created + 1
  /\ IF current.multipass
     THEN world' = Append(world, created') /\ UNCHANGED queued
     ELSE queued' = Append(queued, created') /\ UNCHANGED world
  /\ UNCHANGED <<libraries, requests, images, scopes, attributes, blocks, options, lights, window, main,
                 task, before, ends, settings, renders>>

(******************************* RiWorldEnd *********************************)

Named(reqs) == [i \in DOMAIN reqs |-> reqs[i].driver]

\* The validator pops the attributes before the call, the scope after it.
\* RenderAutoShadows begins.
WorldEnd ==
  /\ idle /\ scope = "World" /\ ends < MaxWorldEnds
  /\ ends' = ends + 1
  /\ attributes' = FewerAttributes
  /\ task' = [Idle EXCEPT !.stage = "shadows", !.todo = IF current.multipass THEN lights ELSE {},
                          !.options = options, !.drivers = Named(requests)]
  /\ UNCHANGED <<libraries, requests, images, scopes, blocks, options, world, lights, queued,
                 window, main, created, before, settings, renders>>

\* Mutant: the iterator is advanced in the loop as well.
StartShadow_EveryOther ==
  /\ task.stage = "shadows" /\ task.todo # {}
  /\ \E l \in task.todo :
       /\ \A k \in task.todo : l <= k
       /\ task' = [task EXCEPT !.stage = "prepare", !.todo = @ \ {l, l + 1}, !.light = l]
  /\ options' = [options EXCEPT ![Len(options)] =
                   Append(@, [current EXCEPT !.res = [x |-> ShadowRes, y |-> ShadowRes]])]
  /\ main' = requests
  /\ requests' = <<NewRequest(ShadowDriver)>>
  /\ UNCHANGED <<libraries, images, scopes, attributes, blocks, world, lights, queued, window, created,
                 before, ends, settings, renders>>

\* The options and the display manager of a shadow pass.
StartShadow ==
  /\ task.stage = "shadows" /\ task.todo # {}
  /\ \E l \in task.todo :
       /\ \A k \in task.todo : l <= k
       /\ task' = [task EXCEPT !.stage = "prepare", !.todo = @ \ {l}, !.light = l]
  /\ options' = [options EXCEPT ![Len(options)] =
                   Append(@, [current EXCEPT !.res = [x |-> ShadowRes, y |-> ShadowRes]])]
  /\ main' = requests
  /\ requests' = <<NewRequest(ShadowDriver)>>
  /\ UNCHANGED <<libraries, images, scopes, attributes, blocks, world, lights, queued, window, created,
                 before, ends, settings, renders>>

\* RenderAutoShadows is done and RenderWorld is called for the image.
StartImage ==
  /\ task.stage = "shadows" /\ task.todo = {}
  /\ task' = [task EXCEPT !.stage = "prepare", !.light = 0]
  /\ UNCHANGED <<libraries, requests, images, scopes, attributes, blocks, options, world, lights, queued,
                 window, main, created, before, ends, settings, renders>>

\* Mutant: the shadow pass takes the surfaces themselves.
PostedBy_All(light) == [queue |-> queued \o world, kept |-> <<>>]

\* PostWorld empties the world; PostCloneOfWorld posts copies.
PostedBy(light) == [queue |-> queued \o world, kept |-> IF light = 0 THEN <<>> ELSE world]

\* RenderWorld up to OpenDisplays.
Prepare ==
  /\ task.stage = "prepare"
  /\ task' = [task EXCEPT !.stage = "open", !.saved = current.multipass, !.display = 1]
  /\ options' = SetCurrent([current EXCEPT !.multipass = FALSE])
  /\ window' = Window(current)
  /\ queued' = PostedBy(task.light).queue
  /\ world' = PostedBy(task.light).kept
  /\ UNCHANGED <<libraries, requests, images, scopes, attributes, blocks, lights, main, created, before,
                 ends, settings, renders>>

\* OpenDisplays, one display at a time.
Loading ==
  /\ task.stage = "open" /\ task.display \in DOMAIN requests
  /\ UNCHANGED <<libraries, attributes, blocks, options, world, lights, queued, window, created,
                 before, ends, settings, renders>>

OpenDisplay ==
  /\ Loading
  /\ \/ DriverOpens(task.display, window.crop, window.res)
     \/ /\ Cardinality({i \in DOMAIN images : images[i].state = "abandoned"}) < MaxRefused
        /\ DriverRefuses(task.display, window.crop, window.res)
     \/ DriverHollow(task.display, window.crop)
     \/ DriverSkipped(task.display, window.crop)
  /\ task' = [task EXCEPT !.display = @ + 1]
  /\ UNCHANGED <<scopes, main>>

\* The program does not survive the call.
Crash ==
  /\ Loading
  /\ DriverWild(task.display)
  /\ task' = [task EXCEPT !.stage = "crashed"]
  /\ UNCHANGED <<requests, images, scopes, main>>

\* Mutant: the validator leaves the scope on the way out.
OpenFails_Popped ==
  /\ Loading
  /\ DriverThrows(task.display, window.crop)
  /\ task' = Idle
  /\ main' = <<>>
  /\ scopes' = Front(scopes)

\* The exception leaves RenderWorld, RenderAutoShadows, WorldEnd and the
\* validator; what they would have put back stays as it is.
OpenFails ==
  /\ Loading
  /\ DriverThrows(task.display, window.crop)
  /\ task' = Idle
  /\ main' = <<>>
  /\ UNCHANGED scopes

\* RenderImage begins.
RenderImage ==
  /\ task.stage = "open" /\ task.display \notin DOMAIN requests
  /\ task' = [task EXCEPT !.stage = "render", !.cell = FirstCell(BucketRegion(window))]
  /\ renders' = Append(renders, [call |-> ends, light |-> task.light, surfaces |-> queued,
                                 before |-> before.created, created |-> created,
                                 multipass |-> task.saved, lights |-> lights])
  /\ queued' = <<>>
  /\ UNCHANGED <<libraries, requests, images, scopes, attributes, blocks, options, world, lights, window,
                 main, created, before, ends, settings>>

\* A bucket is done and goes to the displays.
SendBucket ==
  /\ task.stage = "render"
  /\ DisplayBucket(DisplayRegion(window, task.cell), window.crop)
  /\ task' = IF HasNext(BucketRegion(window), task.cell)
             THEN [task EXCEPT !.cell = NextCell(BucketRegion(window), @)]
             ELSE [task EXCEPT !.stage = "close", !.cell = Blank]
  /\ UNCHANGED <<libraries, scopes, attributes, blocks, options, world, lights, queued, window, main,
                 created, before, ends, settings, renders>>

\* Mutant: the option stays off.
Restored_Off == current

Restored == [current EXCEPT !.multipass = task.saved]

\* RenderWorld ends.
Close ==
  /\ task.stage = "close"
  /\ CloseDisplays
  /\ options' = SetCurrent(Restored)
  /\ task' = [task EXCEPT !.stage = "finish"]
  /\ UNCHANGED <<libraries, scopes, attributes, blocks, world, lights, queued, window, main, created,
                 before, ends, settings, renders>>

\* A shadow pass ends.
ShadowDone ==
  /\ task.stage = "finish" /\ task.light # 0
  /\ options' = [options EXCEPT ![Len(options)] = Front(@)]
  /\ requests' = main /\ main' = <<>>
  /\ task' = [task EXCEPT !.stage = "shadows"]
  /\ UNCHANGED <<libraries, images, scopes, attributes, blocks, world, lights, queued, window, created,
                 before, ends, settings, renders>>

\* EndWorldModeBlock, and the validator pops its scope.
WorldEndReturns ==
  /\ task.stage = "finish" /\ task.light = 0
  /\ blocks' = IF Last(blocks) = "World" THEN Front(blocks) ELSE blocks
  /\ scopes' = Front(scopes)
  /\ task' = Idle
  /\ images' = <<>> /\ renders' = <<>>
  /\ UNCHANGED <<libraries, requests, attributes, options, world, lights, queued, window, main,
                 created, before, ends, settings>>

\* A setting that changes nothing is no step; a shadow map RiDisplay asks for
\* is an image like another.
Next ==
  \/ FrameBegin \/ FrameEnd \/ WorldBegin \/ WorldEnd \/ Primitive
  \/ \E d \in Drivers \ {ShadowDriver}, add \in BOOLEAN : Display(d, add)
  \/ \E b \in BOOLEAN \ {current.multipass} : Multipass(b)
  \/ \E c \in Crops \ {current.crop} : CropWindow(c)
  \/ \E l \in AutoLights \ lights : LightSource(l)
  \/ StartShadow \/ StartImage \/ Prepare
  \/ OpenDisplay \/ Crash \/ OpenFails
  \/ RenderImage \/ SendBucket \/ Close \/ ShadowDone \/ WorldEndReturns

Spec == Init /\ [][Next]_vars

(***************************** properties ***********************************)

\* The types of the variables.
TypeOK ==
  /\ libraries \in [Drivers -> Libraries] /\ attributes \in 1 .. Len(scopes)
  /\ \A i \in DOMAIN requests : requests[i].handle \in 0 .. Len(images)
  /\ \A i \in DOMAIN images : images[i].state \in {"open", "refused", "abandoned", "closed", "misused"}
  /\ options # <<>> /\ \A i \in DOMAIN options : options[i] # <<>>
  /\ lights \subseteq AutoLights /\ task.todo \subseteq lights /\ task.light \in {0} \cup lights
  /\ task.cell = Blank \/ task.cell \in BucketsIn(BucketRegion(window))
  /\ before.created \in 0 .. created /\ before.ends \in 0 .. ends /\ ends \in 0 .. MaxWorldEnds
  /\ task.stage \in {"idle", "shadows", "prepare", "open", "render", "close", "finish", "crashed"}

\* The validator's scopes and the renderer's blocks never drift apart, whichever
\* call an exception leaves from: no FrameEnd or WorldEnd the validator lets
\* through is of a block that is not there (ricxx_validate.cpp:635,
\* renderer.cpp:165).  Its attributes may: a WorldEnd that fails pops them each
\* time it is called (ricxx_validate.cpp:638), but never leaves none, and they are
\* never more than the scopes.
ScopesAgree == idle => scopes = blocks /\ attributes \in 1 .. Len(scopes)

NoneFailed == before.ends = ends

\* Every pass over a world draws each of its surfaces once and none of another
\* world, and until WorldEnd each is in one place, the world or the buckets:
\* whichever way the multipass option and the shadow passes send it
\* (renderer.cpp:1259).
Whole(surfaces, from, upto) == Len(surfaces) = upto - from /\ ToSet(surfaces) = from + 1 .. upto
EverySurfaceOnce ==
  /\ \A r \in ToSet(renders) : Whole(r.surfaces, r.before, r.created)
  /\ idle /\ scope = "World" /\ NoneFailed => Whole(world \o queued, before.created, created)

\* When an image is drawn with multipass on, each light with an automatic shadow
\* has had one pass in the same call before it; with multipass off there is
\* none (renderer.cpp:708).
ShadowsFirst ==
  \A i \in DOMAIN renders : renders[i].light = 0 =>
    LET passes == {k \in 1 .. i - 1 : renders[k].call = renders[i].call}
    IN  /\ {renders[k].light : k \in passes} = IF renders[i].multipass THEN renders[i].lights ELSE {}
        /\ Cardinality(passes) = Cardinality({renders[k].light : k \in passes})

\* The images whose data the code means to place: the request was not opened
\* before with another crop window or resolution, and scanline order goes with
\* the whole image.
Ordinary(image) == ~image.stale /\ (image.driver \in Scanline => image.whole)

\* A driver that was asked to open an image gets data only while it is open, and
\* is told to close it once, also if it has refused: the displays of the image
\* that wait during the shadow passes included, no image is left unclosed when the
\* passes are over or an exception has ended them (ddmanager.cpp:574, 591, 639,
\* 980).  One call is out of turn, and the program need not survive it: a display
\* whose library is missing is closed before it was ever opened, through pointers
\* nothing has set (ddmanager.cpp:346).  It happens to no display of a shadow pass
\* and to none that was opened before, and of the others only those ahead of it
\* in the list are left open then.
NeverCalled(r) == r.methods = "wild" /\ r.params = <<>> /\ ~r.valid
DriversCalledInOrder ==
  /\ \A i \in DOMAIN images : Ordinary(images[i]) => images[i].state # "misused"
  /\ idle \/ task.stage = "finish" =>
       \A i \in DOMAIN images : images[i].state \notin {"open", "refused"}
  /\ task.stage = "crashed" =>
       /\ task.light = 0 /\ NeverCalled(requests[task.display])
       /\ \A i \in DOMAIN images : images[i].state = "open" =>
            \E k \in 1 .. task.display - 1 : requests[k].handle = i /\ Live(requests[k])

\* A closed image holds every pixel of the crop window at its place, however
\* the buckets cut the window and whether they come alone or as scanlines
\* (ddmanager.cpp:1129, display.cpp:572).
EveryPixelInPlace ==
  \A i \in DOMAIN images :
    images[i].state = "closed" /\ Ordinary(images[i]) =>
      \A p \in DOMAIN images[i].data :
        images[i].data[p] = [x |-> p.x + images[i].crop.xMin, y |-> p.y + images[i].crop.yMin]

\* Every bucket fits in the buffer that the request has made for the first one,
\* the narrow ones at the edge of the image and of a crop window included
\* (ddmanager.cpp:1025).
FitsBuffer ==
  [][task.stage = "render" =>
       \A i \in DOMAIN requests' :
         requests'[i].room = 0 \/ Area(DisplayRegion(window, task.cell)) <= requests'[i].room]_vars

\* A WorldEnd that returns has put back the options and the displays there were
\* when it was called, through every shadow pass, and leaves no surface for the
\* next world (ri.cpp:668, renderer.cpp:669).
WorldEndReleases ==
  [][task.stage = "finish" /\ task'.stage = "idle" =>
       /\ options' = task.options
       /\ Named(requests') = task.drivers
       /\ world' = <<>> /\ queued' = <<>>]_vars
=============================================================================
