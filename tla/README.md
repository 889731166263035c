# Aqsis: a formal model of the renderer's core

This directory holds TLA+ models of Aqsis, a RenderMan compatible micropolygon
renderer, with the TLC configurations that check them and TLAPS proofs of the
results that matter most. Paths below are relative to the repository
(`src/` of the checkout); line numbers refer to the same commit.

Run from this directory:

    tlc -workers 2 -config MCSurfaceFlow.cfg MCSurfaceFlow.tla
    tlapm SurfaceFlow_proofs.tla

`PROJECT.json` lists the components, every run with its properties, the
source lines each definition stands for, the hazards that motivated the
properties, the mutated definitions that show each property can fail, and the
theorems.

## 1. Inventory of the system

Aqsis reads RIB files or C API calls, builds surfaces, and renders an image
bucket by bucket (a bucket is a rectangle of pixels, 16 by 16 by default) in
the REYES way: split surfaces until they can be diced into a grid of
micropolygons, shade the grid, sample the micropolygons, filter the samples.

| component | state it keeps | operations | works with |
|---|---|---|---|
| Image buffer (`libs/core/imagebuffer.cpp`) | array of buckets, the bucket region of the crop window, current column and row, `m_fQuit` | SetImage, PostSurface, CullSurface, RepostSurface, AddMPG, RenderImage, NextBucket, Quit | posts surfaces into buckets, drives the bucket processors, hands results to the display manager |
| Bucket (`bucket.h`) | processed flag, heap of surfaces, list of waiting micropolygons, eight cache segments | AddGPrim, popSurface, AddMP, setCacheSegment, SetProcessed | filled by the image buffer and by neighbouring buckets |
| Bucket processor (`bucketprocessor.cpp`) | current bucket, pixel array, regions, occlusion tree, pixel pool, channel buffer | preProcess, process (RenderSurface, RenderMPG, StoreSample), postProcess (combine, filter, expose, cache strips) | one per concurrent bucket; the build has one |
| Thread scheduler (`threadscheduler.cpp`) | active thread count, condition, thread group | addWorkUnit, notifyWorkUnitFinished, joinAll | runs the processors' `process` |
| Occlusion tree (`occlusion.cpp`) | depth of every sample and of every node above | setupTree, setSampleDepth, updateTree, canCull | asked before a surface or a micropolygon is rendered |
| Pixels and samples (`imagepixel.cpp`) | per sample: nearest opaque hit, list of other hits, occluding depth | allocate, clear, setSamples, StoreSample, Combine | owned by the processor, shared with cache segments by reference count |
| CSG tree (`csgtree.cpp`) | tree of solids, parent and weak child pointers | CreateNode, ProcessTree | filled by the solid blocks, filters the hit list of a sample |
| Renderer (`renderer.cpp`), RI calls (`api/ri.cpp`) | context stack, options, attributes, world of deferred surfaces, lights, shaders | WorldBegin/End, RenderWorld, StorePrimitive, RenderAutoShadows, Quit | calls the image buffer and the display manager |
| Display manager (`ddmanager/`) | list of display requests, each with driver handle, formats, row buffers | AddDisplay, OpenDisplays, DisplayBucket, CloseDisplays | driver libraries; piqsl over a socket |
| Shader VM (`libs/shadervm`) | program counter, value stack, running state, current state, stack of masks, light and ray counters | one per opcode | shades a grid of points; calls textures and lights |
| Shader compiler (`libs/slparse`, `libs/slcomp`) | parse tree, nesting depths of the loops | one visitor per node | writes the VM's assembler text |
| RI validation, object cache, RIB reader and writer (`libs/riutil`) | block nesting stack, recorded calls, lexer buffers | one per RI call | in front of the renderer as filters |
| Textures, point rendering | tile caches, point octree | texture and occlusion lookups | called while a grid is shaded |
| Tools (`src/tools`) | | command line, frame buffer GUI, display drivers | |

The full list, with what is not modelled and why, is in `PROJECT.json` under
`components`. Left aside altogether: `thirdparty`, `examples`, `shaders`,
`distribution`, `doc`, the experimental `prototypes`, `tools/neqsus` and
`tools/integration` (editor plug-ins).

### Where it is hard

* **Order of buckets and surfaces.** A surface is queued in one bucket only.
  It moves on when it is culled, split, or when a bucket is finished before
  it comes; its micropolygons are queued in many buckets, some of them done.
* **State shared by neighbouring buckets.** Pixels on the border of two
  buckets are sampled once and handed over in strips, the four corners to two
  or three neighbours at once, by reference.
* **State that survives.** Buckets, segments and `m_fQuit` survive a frame;
  display requests, options and lights survive a pass, a world or an exception.
* **Several passes over one world.** With multipass on, every light with an
  automatic shadow draws the world once into a display manager of its own,
  with other options, before the image is drawn.
* **One instruction stream, many points.** A shader runs once for a whole
  grid. `break`, `continue`, `else` and light cones turn points off and on by
  masks on a stack, which jumps must find at the height the compiler counted.
* **Lists shared by solids.** Every node of a solid promotes and erases hits in
  one list that other solids and ordinary surfaces use too, of which culling
  has left out a part.
* **Threads.** The scheduler combines two mutexes and a condition variable;
  threading is an experimental build option (`CMakeLists.txt:41`), and the
  build constant `MULTIPROCESSING_NBUCKETS` is 1 (`imagebuffer.cpp:50`).
* **Failure.** A display driver that does not load or open; an exception out
  of the middle of WorldEnd; a quit at any time.
* **Numeric edges.** Regions with exclusive and bounds with inclusive maxima,
  crop windows that cut buckets, filter widths, unsigned ray counts.

What is correct, per component:

| component | correct when |
|---|---|
| image buffer | every visible micropolygon is sampled or culled in each bucket it touches; rendering ends; buckets are delivered once, in row-major order |
| pixel cache | the filter of a bucket reads exactly the pixels sampled for their place, each by one bucket, none of another frame |
| scheduler | no more threads than the limit; each unit runs once, before joinAll returns |
| samples, solids | culling is invisible; the depth filters find the depth they name; what is seen of a solid is the boundary of the set its operations name |
| occlusion tree | culls nothing that would show, and finds for every sample the leaf it looks at |
| render context | every pass draws each surface of its world once; what WorldEnd changed it puts back |
| display manager | a driver gets its calls in order; a closed image has every pixel in its place |
| shader VM, compiler | each point does what it would do alone; the shader ends if every point's run does |

## 2. Modules

| module | models | kind |
|---|---|---|
| `BucketGrid` | the grid, `m_bucketRegion`, NextBucket, clamping | operators |
| `SurfaceFlow` | surfaces and micropolygons on their way through the buckets | state machine |
| `BucketDelivery` | what the displays see: buckets in row-major order, each once | abstract specification |
| `SurfaceFlow_proofs` | theorems about `SurfaceFlow` | proofs |
| `PixelCache` | pixel arrays, the strips between neighbours, several frames | state machine |
| `PixelCache_proofs` | theorems about `PixelCache` | proofs |
| `ThreadScheduler` | the scheduler, one action per step outside a mutex | state machine |
| `WorkPool` | what the scheduler promises: at most N at a time, join means all done | abstract specification |
| `ThreadScheduler_proofs` | theorems about `ThreadScheduler` | proofs |
| `SampleHits` | StoreSample and the depths of Combine at one sample point | operators |
| `SamplePoint` | one sample point, offered any hits in any order | abstract specification |
| `SolidTree` | the nodes solid blocks create, ProcessTree | operators |
| `PixelSample` | a scene of solid blocks and surfaces, its hits at one sample, Combine; extends `SamplePoint` and `SolidTree` | state machine |
| `PixelSample_proofs` | theorems about `SamplePoint`, `SolidTree` and `PixelSample` | proofs |
| `OcclusionTree` | rendering surfaces of a bucket with occlusion culling, for all its sample points; implements `SamplePoint` | state machine |
| `OcclusionTree_proofs` | theorems about `OcclusionTree` | proofs |
| `DisplayManager` | display requests, the file driver, the way of a bucket's pixels | operators over its variables |
| `RenderContext` | blocks, options, worlds, WorldEnd with its passes; extends `DisplayManager`, uses `BucketGrid` | state machine |
| `RenderContext_proofs` | theorems about `RenderContext` and, in its second half, the displays | proofs |
| `RecursiveFunctions` | induction over sets, that definitions by recursion have solutions, sequences put together; for the proofs | lemmas |
| `ShaderProgram` | control flow of a shader's source, and what one point does next in it | operators |
| `ScalarShader` | every point runs the program as if alone | abstract specification |
| `ShaderCode` | the code generator of the compiler | operators |
| `ShaderVM` | the control state of the shader machine, and which code keeps it in order | state machine |
| `Shading` | a compiled shader on the machine next to its source; implements `ScalarShader` | state machine |
| `MaskNotes` | what the points at an address of compiled code have left to do in the source; for the proofs | operators |
| `Shading_proofs` | theorems about `ShaderVM`, `ShaderCode` and `Shading` | proofs |
| `MC*` | instances for TLC | |

### SurfaceFlow

A surface is represented by the micropolygons ("frags") that it will turn into
when it is diced, its bound in bucket units (possibly larger than its frags), and the
flags the code consults: at the eye plane or not (`ForceUndiceable`), split
count, cullable by the occlusion tree or not. Actions:

| action | code |
|---|---|
| `StorePrimitive` | CqRenderer::StorePrimitive / PostWorld and PostSurface |
| `Assign` | setBucket, preProcess, addWorkUnit, NextBucket (imagebuffer.cpp:708-737) |
| `BeginProcess` | RenderWaitingMPs at the start of CqBucketProcessor::process |
| `RenderSurface...` | popSurface and the four ways out of RenderSurface: culled and reposted, diced, split, discarded; each followed by RenderWaitingMPs |
| `EndProcess`, `PostProcess`, `SkipPostProcess` | end of process, joinAll, the loop after it |
| `Quit` | CqRenderer::Quit from a progress handler or signal |

`rendered`, `hidden` and `abandoned` record what happened to each
micropolygon in each bucket and exist only for the properties. What geometry
decides is nondeterministic: how a surface splits, whether it is diceable,
whether the tree hides it. A culled surface stays in the flow as in the code.

### PixelCache

One bucket processor, with its array of pixels as references into a heap of
pixels (`CqPixelPool` with intrusive reference counts), and the cache segments of all
buckets. A pixel's content is where it was sampled (its raster position) and
how often it was combined. The order inside `preProcess` and `postProcess` is
that of the code; several frames with different crop windows or
resolutions follow each other. `preProcess` applies the segments one after
the other; the regions of the sides do not overlap, so that `WithSegments`
replaces all their places at once.

### ThreadScheduler

The caller's and the workers' program counters, the wait set of the condition,
`m_activeThreads`. The mutexes are represented by making one action of what is done under
them; `addWorkUnit` keeps `m_mutexCondition` from its comparison until the wait
releases it, but `notifyWorkUnitFinished` never takes that mutex, so `Check` and
`Wait` are separate actions.

### SampleHits, SamplePoint, SolidTree, PixelSample

`SampleHits` is StoreSample as a function of the depth filter, the data of a
sample point and a hit, and what Combine makes of the stored hits. A hit is a
name, a depth, a kind (does it occlude, does Combine count it) and whether it
belongs to a solid. `SamplePoint` offers hits one by one; `offered` is what the
scene has at the point and exists only for the properties.

`PixelSample` puts a scene before it and the solids behind it:

| action | code |
|---|---|
| `SolidBegin`, `SolidEnd` | the constructor and the end of CqSolidModeBlock |
| `CreateSurface` | the constructor of CqSurface, which takes the node of the block |
| `WorldEnd` | rendering begins |
| `StoreSample` | `Offer` of `SamplePoint`, with the surface's node |
| `Combine` | CqImagePixel::Combine: sort, ProcessTree until no hit has a node, depths |
| `Reuse` | the pixel is cleared for another place |

A tree is a sequence of nodes, a parent before its children. What the code does by
recursion over it (`ProcessSampleList`, `Roots`) and by loops over the list
(`PassNode`, `Below`, `Processed`) are recursive functions. `Processed` gives the
do-while loop of Combine as many turns as there are hits; that these are enough is
a theorem. Attribute and transform blocks pass the question for the solid on to their
parents and need no action. A surface created directly in an operation belongs
to no solid; a solid begun in a primitive is a tree of its own. A type that
is none of the four gives no node at all and is left out.

The code and its comment disagree about a camera in a solid. ProcessSampleList
means to look for solids with an odd number of walls, in which the camera then
is (`csgtree.cpp:192`); but the search asks for a node that is a primitive and a
union at once (`csgtree.cpp:200`) and finds none. Every state begins outside, in the
model as in the code, and a solid the camera is in is taken for its complement.
`SeenIsSetOperation` and `DepthIsRight` say which side of a wall is inside
only where comment and code agree: `CameraOutside` asks for an even number
of walls of each primitive that is part of another solid. That what is seen
is in the order of depth, each hit once, is said of every camera.

### OcclusionTree

A bucket between `preProcess` and `postProcess`: the sample region with its
sample points (`sample`), the array of depths (`tree`), the flag
`needsUpdate`, and the waiting micropolygons.

| action | code |
|---|---|
| `PreProcess` | the samples are cleared and setupTree is called |
| `CullSurface` | the culling test at the start of RenderSurface |
| `DiceSurface` | dicing and busting, which leave micropolygons in the bucket |
| `RenderMicroPoly` | RenderMPG_Static and StoreSample for one micropolygon at all samples it covers, with setSampleDepth |
| `UpdateTree` | updateTree at the end of RenderWaitingMPs |

A sample stands for the subpixel it is jittered in, raster positions are in
half subpixels. Micropolygons are flat and as large as their bounds, so a hit is
as deep as the bound; those of one grid do not overlap. The tree's shape, the bit
interlacing of `treeIndexForPoint` and the halving of areas in `canCull` are
translated separately, because that they agree is a property. Two things are assumed
(`RegionsAssumption`, `BoundsAssumption`): a region has a pixel and a pixel a
sample, as the option PixelSamples has it; and no bound has depth 0, as
`CqImageBuffer::CullSurface` caches no bound that reaches the eye and
RenderSurface asks only for surfaces with a cached bound. Leaves without a sample
hold 0, and a bound of that depth would never be culled.

### RenderContext, DisplayManager

`RenderContext` is the renderer between RiBegin and RiEnd as its caller sees
it. Two stacks are kept apart because two parts of the code keep them: the
validator's `scopes` and the renderer's `blocks`; of the validator's attributes only
their number is kept (`attributes`). A surface is its number.

| action | code |
|---|---|
| `FrameBegin`, `FrameEnd`, `WorldBegin` | the RI calls with BeginFrameModeBlock, EndFrameModeBlock, BeginWorldModeBlock |
| `Display`, `Multipass`, `CropWindow`, `LightSource` | RiDisplay, RiOption, RiCropWindow, RiLightSource with registerLight |
| `Primitive` | CreateGPrim and StorePrimitive: into the world with multipass, else into the buckets |
| `WorldEnd` | RiWorldEnd up to RenderAutoShadows |
| `StartShadow`, `ShadowDone` | the body of the loop over the lights, before and after RenderWorld: options, a display manager for the shadow map |
| `StartImage` | RenderWorld is called for the image |
| `Prepare` | RenderWorld: multipass off, SetImage, PostWorld or PostCloneOfWorld |
| `OpenDisplay`, `Crash`, `OpenFails` | LoadDisplayLibrary for one request: the driver opens the image, refuses, has no methods or is skipped; what uninitialised pointers point to is called; an exception |
| `RenderImage`, `SendBucket` | RenderImage and DisplayBucket for every bucket in turn |
| `Close` | CloseDisplays and the end of RenderWorld |
| `WorldEndReturns` | EndWorldModeBlock, and the validator pops its scope |

`libraries` says what is behind the name of each display type: nothing that can be
loaded (`missing`), a library without the methods of a driver (`hollow`), or a `driver`, which may
still refuse to open an image. `images` are all those a driver was asked to open: `open`,
then `closed`; or `refused`, then `abandoned`, because CloseDisplayLibrary calls the
close of a driver that has refused too; or `misused`, when a call was out of turn.

`task` is the call that is being executed; its stages are where an exception
can leave it. The operators of `DisplayManager` are the methods of
CqDDManager and CqDisplayRequest, and the open, data and close entries of the
file driver. A pixel is its raster position, so what an image holds at a place
says whether it got the right one.

What the code does and the model therefore does too:

* The exception of a first display whose library is missing is an
  XqInvalidFile, which is no CqString: the handler at `ri.cpp:693` does not see
  it, the parser reports it and reads the next request (`ribparser.cpp:231`).
  The scope and the block of the world both stay open, and multipass off. The validator has
  popped its attributes before the call (`ricxx_validate.cpp:638`) and does so again when
  WorldEnd is called again; popAttributes keeps the last of them.
* The driver's close is called after an open it has refused (`ddmanager.cpp:591` and `643`), and then
  no more: the methods are set to null. The documentation of the display interface has
  DspyImageClose "called when the entire image has been rendered"
  (`doc/manual/user/program_guide/displays_api/index.rst:27`), so a driver has to expect both.
* A secondary display whose library is missing is reported as skipped (`ddmanager.cpp:344`),
  but first closed, through pointers that no one has set when it was never loaded before: `Crash`. Where they
  were bound or nulled by an earlier opening it is only skipped. Loading fails before any method is
  looked up, and a lookup reports nothing (`plugins.cpp`): there is no case between
  a library without methods and one that is missing.
* Lights are never unregistered; display requests survive until FrameEnd or the
  next RiDisplay; parameters and formats are appended at each opening and the driver reads
  the first parameters of a name (`params` stands for both, and `channels` of an image counts how often its
  pixels have each channel). `Ordinary` excludes the images this makes wrong (a request reopened with
  another crop window or resolution) and scanline order of a cropped image, and
  the hazards in `PROJECT.json` name them.

### ShaderProgram, ShaderCode, ShaderVM, Shading

The shader compiler is `Compile`, one operator per visitor of the code
generator; a jump holds a distance where the text has a label. The machine
has one action per instruction:

| action | opcode |
|---|---|
| `ClearCurrentState`, `SetCurrentState` | S_CLEAR, S_GET |
| `PushState`, `PopState` | RS_PUSH, RS_POP |
| `GetCurrentState`, `InvertRunningState` | RS_GET, RS_INVERSE |
| `RunningStatesBreak` | RS_BREAK |
| `JumpIfIdle`, `JumpIfNone`, `JumpAlways` | RS_JZ, S_JZ, jmp |
| `InitIlluminance`, `Illuminance`, `AdvanceIlluminance` | the loop over the lights, with the jz or jnz behind the first and the last |
| `Illuminate`, `Solar` | the statements of a light shader |
| `InitGather`, `Gather`, `AdvanceGather` | the loop over the rays, with its jnz |
| `Do` | every statement on varying variables |
| `Choice`, `Diffuse` | a conditional expression, and a call of diffuse() and its like, inside a condition: what they leave in the current state and the light counter |

The values on the machine's stack are not modelled: what a condition, a cone
or a ray says of the running points is any subset of them. gather is what
the code has: no ray is traced, every point misses.

`ScalarShader` is what a shader promises. In it every point has its own
`todo`, the statements it has left, and `ShaderProgram` says what each statement
means for one point. `Shading` runs the compiled code and moves `todo` on for the
points that are running whenever the machine carries out a statement; a point
that was not about to do this is lost.

`IsShader` says which programs these are. Statements are trees (`Height`), break
and continue name a loop that is there, the numbers of statements are their own.
The rest of `Legal` is what the code needs to be right, and each restriction is
the other side of a hazard in `PROJECT.json`: `m_li` and `m_gatherSample` are one for the machine, so
a loop over the lights has no other and no diffuse() inside, a loop over the rays no other;
`m_Illuminate` is never reset, so a program has one light statement, in no loop;
and the arguments of illuminance, illuminate and solar are plain.

`Disciplined` is a data-flow analysis of compiled code in the manner of a byte
code verifier: the height of the mask stack at every address, and where the
current state lies within the running one. It is an assumption of `ShaderVM`, which TLC
evaluates on every compiled program of a run; the proofs show what follows from it, and
that what `Compile` gives for a legal program satisfies it.

## 3. Runs

Bounds are named in the `.cfg` files and MC modules.

| run | instance | shows |
|---|---|---|
| `surface_flow` | 3x2 buckets inside a larger grid, two micropolygons over several buckets, one of them degenerate; two eye splits | `NothingMissed`, `NothingLeftBehind`, `OneOwner`, `HiddenStaysHidden`; `Terminates`; `DeliversInOrder` (refinement of `BucketDelivery`) |
| `pixel_cache` | 7x5 pixels, buckets of 3x2 pixels, filter shift 1: every crop window with a pixel in it, and any two whole images of nine sizes in a row | `FilterInputsReady`, `WholeImageSampled`, `SampledByOneBucket`: the filter reads pixels sampled for their place and combined once; `ImageIsPrivate`, `SlotIsFree`: nothing of one frame reaches the next |
| `pixel_cache_stale` | two crop windows in a row | *violation* of `SlotIsFree`: a segment slot is still taken (finding) |
| `scheduler` | one unit more than threads (4 and 3), no spurious wakeups | `AtMostMaxThreads`, `CountIsExact`, `RunsEachUnitOnce`, `IsWorkPool` (refinement); `HangsOnlyAsleep` (liveness: a lost notification is the only way to hang) |
| `scheduler_lost_wakeup` | 3 units, 2 threads | *violation* of `AllUnitsJoined`: a notification is lost and the caller sleeps for ever (finding) |
| `scheduler_overrun` | 4 units, 2 threads | *violation* of `AtMostMaxThreads` (finding) |
| `sample_point` | without solids three micropolygons of every kind at three depths in every order; with solids opaque ones, two at each depth: four in up to three blocks, from any camera; six in a solid of five nodes, from outside | `NoVisibleHitLost`, `OccludingHitIsNearest`, `DepthIsRight`, `SeenIsSetOperation` |
| `sample_point_midpoint` | without solids | *violation* of `NearestTwoStored`: a transparent hit behind the second opaque one moves the midpoint (finding) |
| `occlusion_tree` | two regions (3x1 pixels; 1x3 pixels with two samples each), two depths, three micropolygons; 90 shapes of region for the geometry | `HiddenIsCulled`: culling is exact between surfaces; `IsSamplePoint`: it changes no sample point (refinement of `SamplePoint`); `LeafInItsPlace`: leaves are where canCull looks; `NoSubpixelSkipped` for every pair of bounds |
| `shading` | three points, two lights, ray counts modulo 4, 97 programs from any initial current state | `Lockstep`, `MasksNest`, `WithinStack`; `EachPointAlone` (refinement of `ScalarShader` with its fairness: the shader goes on while a point has something to do) |
| `shading_hang` | two points, two programs | *violation* of `FallsOut`: break out of a loop over the lights, or rays after a break, and the machine jumps back for ever (finding) |
| `display_path` | 3x3 pixels, buckets of 2x2, two crop windows; two lights; three drivers that are all there, or of which one or two are missing or have no methods (`MCFaults`), and one opening may be refused; two worlds | `ScopesAgree`, `EverySurfaceOnce`, `ShadowsFirst`, `DriversCalledInOrder`, `EveryPixelInPlace`, `FitsBuffer`, `WorldEndReleases` |

Why the bounds are enough:

* A surface's way is decided by comparing buckets in row-major order, in two
  dimensions, with a row end and a last row: 3x2 has all of first, last, right,
  below, below-left and none. Two micropolygons allow two surfaces or one that
  is split.
* For pixels, 7x5 with 3x2 buckets has full buckets, cut buckets, inner and border
  neighbours, and all corners; a crop window leaves neighbours that are never processed.
* For threads, the count crosses the limit from both sides with up to four units.
* At a sample point three hits give one before, between and behind two others, and
  ties. For solids the hits come front to back, as their order makes no
  difference to what is kept of solids; three blocks with four hits stand in every relation, and
  with an even and an odd number of walls. For the filter "min" one solid with two operations and up to
  three primitives, each with an even number of the six walls, gives an operation in an operation.
* The two regions of `occlusion_tree` are no powers of two, are split in different
  directions first and leave leaves without samples; the bounds reach over the
  edge and end inside a pixel. Micropolygons are symmetric there.
* Three points are enough for one that leaves a loop by break, one that goes
  the other way at an if and one that goes on; two lights and two rays go
  through the loop body twice. The programs have every way out of either branch in one
  loop and in two, with and without an increment (97 sources: `MCSources`). Points
  are not declared symmetric, as a refinement is checked.
* An image of 3x3 pixels in buckets of 2x2 has full and cut buckets in both
  directions, and the second crop window starts inside a bucket. Two worlds are
  needed for what one leaves to the next, two lights for the order of the
  passes, two surfaces for a world of which one is posted before a multipass option could come;
  a session makes at most three settings (`MaxSettings`). A missing library matters for the display
  of the image that comes first, for one that comes later and for a shadow map; one without
  methods for a display of the image, first or later. One refusal at a time (`MaxRefused`) meets every
  display, opened before or not, in either world. The run has 0.8 million states.

Deadlock is checked in the runs of `PixelSample` and `OcclusionTree`, where the
next hit or bucket may always come. Elsewhere rendering, a shader or a session
ends, and its end is a state without successors; that it does not stop earlier is what `Terminates`,
`HangsOnlyAsleep` and `EachPointAlone` say.

### Fairness

* `SurfaceFlow`: `WF_vars(Render)`. The loop of RenderImage is sequential code
  that only stops when it is done; posting primitives and quitting are not fair.
* `ThreadScheduler`: weak fairness of the caller and of each worker, i.e. the
  operating system schedules every runnable thread. Nothing is assumed about spurious
  wakeups.
* `ShaderVM`, `Shading`: weak fairness of the next instruction. Execute is a loop in
  one thread that waits for nothing. Nothing is assumed of the conditions, so
  points may loop for ever.
* `PixelCache`, `SamplePoint`, `PixelSample`, `OcclusionTree`, `RenderContext`: no
  liveness is checked.

## 4. Proofs

`SurfaceFlow_proofs` proves for every region, scene, set of bounds and eye split limit:

* `TypeCorrect`, `QueuesStayEmpty`, `NoneMissed`: `TypeOK`, `NothingLeftBehind`
  and `NothingMissed` are invariants. None is inductive alone. The inductive
  invariant `IInv` adds: `InOrder` (the finished buckets are exactly those
  before the current cell in row-major order, up to a bucket under way or dropped by a quit), `Emptied`
  (the current bucket's list is empty between surfaces), `WellPlaced` (a queued
  surface has a proper bound and waits in a bucket its bound touches), `PastHandled`
  (a micropolygon of a queued surface is dealt with in all finished buckets it touches),
  `Covered` (every micropolygon is unposted, given up, in a queued surface, or
  for each bucket it touches either queued there or dealt with). `Covered` is what makes
  `NothingMissed` follow; `WellPlaced` is what makes RepostSurface safe although it does
  not look at the processed flag.
* `EachHasOneOwner`, `HiddenIsNeverSampled`: `OneOwner` and `HiddenStaysHidden`,
  over `OwnInv`, which adds to `IInv` that a micropolygon not yet posted is
  nowhere (`Fresh`) and that one hidden in a bucket waits for later buckets only
  (`HiddenBehind`).
* `ImplementsDelivery`: the loop implements `BucketDelivery`.

`PixelCache_proofs` proves for every bucket size and filter and any frames:

* `NoSeamTwice`: no position is sampled by two buckets. The invariant `SeamInv`
  says that the processed buckets are those before the current one (`Ordered`), that a
  bucket to come has the strip of each processed left or upper neighbour
  (`StripsKept`), and that what is sampled is in reach of a bucket that was
  (`SampledByDone`). The rest is arithmetic on one axis (`AxisSeam`): a bucket reads no
  further than the strip its neighbour leaves to the next.
* `SlotsAreFree` and `NothingIsSkipped` assume `OneOrWhole`: each session is
  one frame of any crop window, or whole images. `WholeInv` adds that a
  segment is there only if the neighbour it came from is done (`NothingStale`), which is
  what a cropped frame followed by another breaks (`pixel_cache_stale`).

It goes on with the pixels themselves:

* `TypeCorrect` and `ImageStaysPrivate`, without assumption on the frames. The twelve
  gifts of `postProcess` are first summed up (`HandedPixels`): a place of the image
  keeps its pixel, or has one allocated since, and a segment is what it was or a
  strip of the image whose places all have new pixels. `PixelsInv` then says that a
  pixel of the image is nowhere else, but for those lent by the segments of the
  bucket at work.
* `InputsAreReady`, under `OneOrWhole`: `ReadyInv` says that each pixel waiting in
  a segment for a place its bucket will read is sampled for that place and
  combined (`SegmentsReady`), whether it came directly or through a third bucket,
  and that corners come with their strips (`CornersKept`). Then a bucket
  samples exactly the places that no segment has for it (`SampledOrLent`), and
  a neighbour reads no place of a strip that the giver does not read itself
  (`GiftReach`).

`ThreadScheduler_proofs` proves `TypeCorrect`, `CounterCorrect` and
`EachUnitRunsOnce` for any number of units and any limit, with spurious
wakeups; `LimitKept` and `ImplementsWorkPool` assume that at most one unit must
wait and that wakeups are not spurious, which is what the counterexample of
`scheduler_overrun` shows to be needed.

The models of solids and of the occlusion tree have recursive functions (lists and nodes;
areas, depths and bits). They come as a CHOOSE to the prover, and the library's
induction theorems cannot be used. `RecursiveFunctions` derives induction over a *set*
from the well-foundedness of finite sets (`LeastNumber`, `Steps`), or along a rank
(`Descent`), and shows that a function exists for every recursion that descends a
rank (`Recursion`) and for every loop (`Iteration`). One lemma per definition then gives
its equation (`Pow2Def`, `InterlacedDef`, `AreaDef`, `PropagatedDef`; `RootsDef`,
`WithinDef`, `PassNodeDef`, `BelowDef`, `ProcessDef`, `ProcessedDef`).

`PixelSample_proofs` begins with `TypeCorrect`, `NothingVisibleIsLost` and
`NearestOccludes` for any depths and micropolygons, over one inductive invariant: that
occlZ is the depth of an opaque hit (`OccludingHitIsNearest`) names the witness
for a hit that is dropped, and that stored hits are of their kind
(`StoredByKind`) makes the replaced occluding hit one that may go. The five ways
out of StoreSample are named predicates with a lemma that there is no sixth.

It goes on with solids, for trees of any size and shape and any number of hits:

* `SolidsShowTheirWalls`: `SeenIsSetOperation` is an invariant, for a camera outside of the solids as far as
  it speaks of inside and outside. The state before
  Combine says little (`PixelInv`: the shape of the trees, hits of different
  micropolygons, csg as their surfaces have it); the work is in the one step in which all
  lists are processed, and goes from the inside out. Along the list of one node,
  what remains are the hits at which the state of the node changes
  (`PassedTo`, `PassLeaves`); its children leave only their own changes before
  (`BelowTo`); so from the leaves to the root a tree leaves where the ray enters or
  leaves the set that its operations describe (`ProcessLeaves`, by `Descent` over the nodes), and
  one tree leaves the hits of the others alone (`AfterTrees`). Last, what StoreSample
  never stored is of no solid, and the walls of solids do not change when hits of
  ordinary surfaces are taken away (`WallsAgree`): what can be seen
  of the stored hits are the walls of the scene among them.
* `DepthIsTheFilters`: `DepthIsRight` is an invariant, with the same camera, for each filter from what
  `NothingVisibleIsLost` and `NearestOccludes` say of the hits that are missing
  (`LostIsHidden`).
* `TreesAreDoneOnce`: each turn of the loop in Combine does a tree that was
  not done (`TurnDoesTree`, `TurnCounts`), so the loop ends.
* `TreesAreRight`: `WithNode` keeps the shape of the trees (`WithNodeShape`), and
  `PixelIsSamplePoint`: every step with a scene and solids is a step of `SamplePoint`
  or none.

`OcclusionTree_proofs` proves for regions of any size, any number of samples in a
pixel, any bounds and any depths but 0:

* `CullingIsInvisible`: the refinement `IsSamplePoint`. A surface that is culled had at
  most one micropolygon for a sample, and StoreSample would have dropped its hit;
  a micropolygon that is rendered reaches every sample it contains.
* `CullingIsExact`: `HiddenIsCulled` is an invariant; `LeavesAreInPlace` and
  `SubpixelsAreVisited`: `LeafInItsPlace` and `NoSubpixelSkipped` are.
* `LeavesAreNotShared` and `DepthsFall`: the assertions in setupTree,
  treeIndexForPoint and setSampleDepth hold. The one on x in `treeIndexForPoint` has a bracket
  out of place and asserts less than its neighbour on y; the theorem has what it should say.
* `TypeCorrect`, which no run checks.

The geometry goes level by level: if the blocks of a level are the
areas of its nodes, so are their halves (`LevelStep`), and down at the leaves
a block is a subpixel and its node the interlaced index (`LeafPlace`), of which halving drops the lowest bit
(`InterlacedSwap`). canCull skips the nodes under one that it does not reach; as a parent holds
the greatest depth below it and its area covers those below, that skips no leaf
that counts (`MetFromAbove`, `CanCullMeans`).

The inductive invariant is `TreeInv`: every leaf has the depth of its sample and 0
without one (`InLeaves`), the inner nodes are up to date unless an update is
due (`Consistent`), which is so only while micropolygons are rendered, as
micropolygons wait only then; the waiting ones have names of their own, new to every sample, without
which a hit offered twice would be no step of `SamplePoint`; and in the midpoint mode the
nearest depth is not behind the second nearest (`InOrder`), without which a leaf might
get further away.

`Shading_proofs` proves for any number of points and lights and any set of legal
programs:

* `TypeCorrect`, `NestingHolds` and `StackHolds`, for which it is enough that the code is
  `Disciplined`. `IInv` is `TypeOK`, `MasksNest` and `Tracked`: what the analysis
  says of an address holds of the machine whenever it gets there. RS_GET copies
  the current state without looking at the masks, so that it does not wake a
  point rests on `inside`, which S_CLEAR establishes and RS_INVERSE and RS_BREAK lose.
* `CompiledRight`: `Lockstep` is an invariant, that is, the compiler is right about
  control flow. However loops, branches, lights and rays nest and are left, an
  instruction finds running exactly the points whose own run has come to its statement.
* `RunsAlone`: the safety part of the refinement `EachPointAlone`.
* `CodeIsDisciplined`: the code of every legal program is `Disciplined`, so
  `ProgramsDisciplined` leaves out no shader, provided only that the counts of its gather
  statements fit into a TqUint (`FewRays`): SO_init_gather casts the count, a float, to TqUint
  (shadeops_illum.cpp:111), and what that makes of a larger one is undefined.

`Lockstep` alone is not inductive: it says nothing of the points that are aside. The
strengthening (`MaskNotes`, which also has what points owe around a piece of code) is
a *note* for every address of the code: what the running points have left there in the source, those of them in the current
state and the others; what the points have left that each level of the stack keeps; and
whether the current state is empty. What is left may depend on the counters of
the machine, so a note gives it for each of their values. `Fine` says when notes
fit an instruction, `Passage` when they fit a piece of code, and `Noted` that there
are notes that fit the program and that the machine keeps to the one at `pc`.

1. *Functions.* `Leave`, `Settle`, `Visit`, `Inside` and `Legal` are recursive functions
   on lists that get shorter or on statements that nest less deep; each has a
   lemma with its equation (`LeaveDef`, `SettleDef`, `VisitDef`, `InsideDef`, `LegalDef`).
2. *Code.* Passages can be put behind one another (`PassageThen`), jumped over
   and repeated (`PassageLoop` and its like); each instruction has its passage (`ThroughPush`, ...).
3. *Compiler.* `Compiles(s)`: wherever s may stand (`Around`), its code is a passage from
   s in front of the rest to the rest. `Around` has what the compiler relies on: the sum of
   its depths for n loops is the level to which a break or continue out of n loops leads (`Ways`),
   and nobody aside comes to a statement of s (`Fit`). One lemma
   for each kind of statement (`IfCompiles`, `WhileCompiles`, `ExitCompiles`, ...) shows it from its parts, and
   `StatementsCompile` follows by induction on the height.
4. *Machine.* Each instruction takes what its note says to what the note behind it or at its
   target says (`DoSays`, ..., `BreakSays`, `StepSays`), so `Noted` is kept (`NotedKeeps`).
5. `SInv` is `IInv`, `Noted` and `Kept`. At a statement the note says that the running
   points have come to it, and, since nobody aside does, that no others have.

For `CodeIsDisciplined` the notes already give the height of the stack on every path, the same
on each edge into an address (`NotedDepth`). What is left is `inside`: `Tidy(c, x, y)` says that
the addresses of c can be marked where the current state is sure to lie within the running
state, from x in front of c to y behind it, that a jump back leads to S_CLEAR, which needs no
mark, and that what is behind an unconditional jump is reached from further up. `Tidy` is put
together as `Passage` is, again with a lemma for each kind of statement (`TidyIf`, `TidyWhile`, ...), and
`FactsFound` shows that the analysis, whose equation is `FactsDef`, finds what notes and marks say.

`RenderContext_proofs` proves `ScopesHold` and `WorldEndPutsBack` for any
image, lights, drivers, faults and bounds of a session. `ScopeInv` relates the two
stacks, and the number of attributes, at every stage of a call. `KeepInv` adds the shape of the frames and options
(`FrameShape`), their types (`WellTyped`), that the options and the displays now are
those at the call but for what the stage has changed (`OptionsKept`,
`DisplaysKept`: a shadow pass pushes one set of options and keeps the displays in
`main`), and that a world that was posted is spent (`WorldSpent`).

It goes on with `EachSurfaceOnce` and `ShadowsComeFirst`, on top of `KeepInv`. `OnceInv`
adds that a surface waits in the world or
in the buckets, never in both, and that each pass so far drew whole worlds. The hard
case is a WorldEnd that failed on its first display: its surfaces stay in the
buckets. `FailedStays` says that every later WorldEnd of that world finds multipass
off, no shadow pass and the same missing display (`Doomed`), so no pass draws
them twice. `PassesSoFar` says which passes the current call has made: one per
light done, and the image only after them.

Of the displays it proves, for the same constants and any bucket size,
resolution and crop window that has a pixel:

* `DriversInOrder`: an image that was asked for gets data only while it is open and is closed once, the
  refused ones too; the one call out of turn, through pointers that were never set, can only hit a display of
  the image that was never loaded before. `DisplayInv` relates requests and images. Only during a pass has
  a request an image, each its own, opened for the window of this pass (`Serving`,
  `OneEach`), and every open image belongs to a request (`OpenServed`), also while
  the displays of the image wait in `main` for the shadow passes; none is left `refused` (`NoneRefused`),
  as the close follows in the same step. `WildInv` says that pointers are
  unset only in requests that nothing was ever done with, that those of the
  image keep them while they wait in `main`, and that the display of a shadow map is alone in its
  list, so that it throws and is never skipped. What a bucket cannot do to
  an image, a copy of negative length, is arithmetic on one axis (`ColumnFacts`,
  `NeverNegative`).
* `BucketsFit`: no bucket is larger than the first (`CellFacts`), for which the
  buffer is made (`Rooms`).
* `PixelsInPlace`: `PlacedSoFar` says that an image holds the pixels of the buckets
  before the current one, and for a driver in scanline order the rows before the
  current and `m_DataRow` the buckets of this row (`Filling`). Each step of it
  rests on where a pixel goes: it is in one bucket (`PixelCell`), has a place
  of its own in the row (`OnePlaceEach`), and the row is handed over with its last
  bucket (`LastOfRow`).

Assumptions are the named ASSUMEs of the modules; TLC evaluates them in the
runs: a non-empty region and rectangles for bounds (`RegionAssumption`,
`FragAssumption`, `BoundsAssumption`, `EyeSplitsAssumption`), depths below
FLT_MAX (`DepthAssumption`), micropolygons named by numbers, which only say how
the sort orders hits of one depth (`NamesAssumption`), regions and bounds of the occlusion tree
(`RegionsAssumption` and its own `BoundsAssumption`, see above), numbers of units and threads (`UnitsAssumption`,
`ThreadsAssumption`, `WakeupAssumption`), buckets at least twice the filter shift
(`SizeAssumption`), non-empty crop windows inside the image (`SessionsAssumption`), finitely many points and well-formed, disciplined programs
(`PointsFinite`, `LightsNat`, `UintLimitNat`, `ProgramsType`, `ProgramsDisciplined`) whose sources
are legal programs (`StatementsAreTrees`, `SourcesAreShaders`),
which drivers there are (`ScanlineDrivers`, `SessionConstants`), and crop windows
that have a pixel and lie in the image (`ImageConstants`; an empty one, for which
SetImage computes an empty bucket region, is left out).

Only model-checked:

* liveness (`Terminates`, `HangsOnlyAsleep`, the fairness in `EachPointAlone`), which with ENABLED is
  out of the prover's reach;
* `TypeOK` of `RenderContext` and `OcclusionTree` documents the state; the runs
  check properties that fail if it does.

## 5. Plan

Done: the bucket pipeline, the pixel cache, the scheduler, samples with solids,
the occlusion tree, the display path with the life cycle of worlds, the shader
machine with its compiler. In the order in which they matter, what is left:

| step | modules | properties and proofs |
|---|---|---|
| 1 | piqsl driver and frame buffer: messages over a socket, cut and joined by the transport | every message processed once, both sides reach the end |
| 2 | block nesting and its validation, conditionals, object instances, frame dropping | the filters pass on only well nested calls |
| 3 | RIB lexer (pushback, encoded strings), texture tile cache | |

## 6. Not modelled

* Geometry, sampling patterns, filters, texture filtering, point based
  rendering: floating point arithmetic. The models take their decisions as
  nondeterministic choices, so what is shown holds whatever they decide.
* The values shaders compute, the other shadeops, parsing and types of the shading language:
  they decide which points say yes, which is left open.
* Options, attributes, parameters, most RI calls, RIB output: storing and
  formatting of values, with no control of their own beyond the block nesting.
* piqsl, the RIB lexer, the object cache and the texture tile cache are
  sequential and in the plan.
* Statistics, tools, user interfaces, utilities: nothing depends on them, or
  they are modelled where a module uses them (reference counts, condition variables).
