------------------------- MODULE PixelCache_proofs -------------------------
(***************************************************************************)
(* Theorems about the pixels that buckets leave to their neighbours, for   *)
(* every size of bucket and filter and every crop window: no raster        *)
(* position is sampled by two buckets; and if no frame leaves strips for   *)
(* the next one, none is left out and a strip finds its slot free.  The    *)
(* image of the processor shares no pixel with the strips that wait for a  *)
(* neighbour, and every pixel that a filter reads has been sampled for its *)
(* place and combined once, whichever bucket did it.                       *)
(***************************************************************************)
EXTENDS PixelCache, TLAPS

Buckets == BucketsIn(Region(window))

\* The buckets whose pixels have been sampled.
Done == IF bucket = NoBucket THEN processed ELSE processed \cup {bucket}

Ordered ==
  /\ pc \in {"idle", "loop", "combine", "filter"}
  /\ session \in Sessions /\ frame \in 0 .. Len(session)
  /\ pc # "idle" => frame > 0
  /\ frame = 0 => processed = {}
  /\ pc \in {"idle", "loop"} => bucket = NoBucket /\ samples = {}
  /\ pc = "idle" /\ frame > 0 => processed = Buckets
  /\ pc = "loop" => IF pending THEN cell \in Buckets /\ processed = {a \in Buckets : Before(a, cell)}
                               ELSE processed = Buckets
  /\ pc \in {"combine", "filter"} =>
       /\ bucket \in Buckets /\ processed = {a \in Buckets : Before(a, bucket)}
       /\ cell = NextCell(Region(window), bucket) /\ pending = HasNext(Region(window), bucket)

\* A bucket to come has the strip of its left and of its upper neighbour, if
\* that is done.
StripsKept ==
  /\ DOMAIN cache = AllBuckets
  /\ \A b \in Grid(window) \ processed :
       /\ Neighbour(b, "left") \in processed => Has(b, "left")
       /\ Neighbour(b, "above") \in processed => Has(b, "top")

\* What is sampled is in reach of a bucket that was.
SampledByDone == \A p \in sampled : \E b \in Done : p \in Support(window, b)

SeamInv == Ordered /\ StripsKept /\ SampledByDone

-----------------------------------------------------------------------------
(* Columns or rows of buckets on one axis: what the filter reads for the   *)
(* bucket i of some size, in an image of res pixels of which lo .. hi - 1  *)
(* are wanted.                                                             *)
From(i, size, lo, shift) == Larger(i * size, lo) - shift
Upto(i, size, res, hi, shift) == Smaller(Smaller((i + 1) * size, res), hi) + shift

Axis(size, shift, res, lo, hi) ==
  /\ size \in Nat \ {0} /\ shift \in Nat /\ res \in Nat /\ lo \in Nat /\ hi \in Nat
  /\ lo < hi /\ hi <= res

OnAxis(i, size, lo, hi) == i \in Int /\ lo \div size <= i /\ i < (hi - 1) \div size + 1

LEMMA Stride ==
  ASSUME NEW s \in Nat \ {0}, NEW a \in Int, NEW b \in Int, a < b
  PROVE  (a + 1) * s <= b * s /\ a * s \in Int /\ (a + 1) * s = a * s + s
OBVIOUS

LEMMA Floor ==
  ASSUME NEW s \in Nat \ {0}, NEW v \in Nat
  PROVE  v \div s \in Nat /\ (v \div s) * s <= v /\ v < (v \div s + 1) * s
OBVIOUS

LEMMA FloorMonotone ==
  ASSUME NEW s \in Nat \ {0}, NEW v \in Nat, NEW w \in Nat, v <= w
  PROVE  v \div s <= w \div s
OBVIOUS

(* A bucket on the axis has a place that is wanted.                        *)
LEMMA AxisWanted ==
  ASSUME NEW size, NEW shift, NEW res, NEW lo, NEW hi, Axis(size, shift, res, lo, hi),
         NEW i, OnAxis(i, size, lo, hi)
  PROVE  /\ i \in Int /\ i * size \in Int /\ (i + 1) * size = i * size + size
         /\ lo < (i + 1) * size /\ i * size <= hi - 1
<1>1. /\ i \in Int /\ size \in Nat \ {0} /\ lo \in Nat /\ hi - 1 \in Nat
      /\ i * size \in Int /\ (i + 1) * size = i * size + size
  BY Stride DEF Axis, OnAxis
<1>2. lo < (i + 1) * size
  <2>1. lo < (lo \div size + 1) * size /\ lo \div size \in Nat
    BY <1>1, Floor
  <2>2. CASE lo \div size = i
    BY <2>1, <2>2
  <2>3. CASE lo \div size < i
    <3>1. (lo \div size + 1) * size <= i * size
      BY <1>1, <2>1, <2>3, Stride
    <3>. QED  BY <1>1, <2>1, <3>1
  <2>. QED  BY <1>1, <2>1, <2>2, <2>3 DEF OnAxis
<1>3. i * size <= hi - 1
  <2>1. ((hi - 1) \div size) * size <= hi - 1 /\ (hi - 1) \div size \in Nat
    BY <1>1, Floor
  <2>2. CASE i = (hi - 1) \div size
    BY <2>1, <2>2
  <2>3. CASE i < (hi - 1) \div size
    <3>1. (i + 1) * size <= ((hi - 1) \div size) * size
      BY <1>1, <2>1, <2>3, Stride
    <3>. QED  BY <1>1, <2>1, <3>1
  <2>. QED  BY <1>1, <2>1, <2>2, <2>3 DEF OnAxis
<1>. QED  BY <1>1, <1>2, <1>3

(* A bucket on the axis reads something more than its own strips, and      *)
(* nothing out of the filter's reach.                                      *)
LEMMA AxisReach ==
  ASSUME NEW size, NEW shift, NEW res, NEW lo, NEW hi, Axis(size, shift, res, lo, hi),
         NEW i, OnAxis(i, size, lo, hi)
  PROVE  /\ From(i, size, lo, shift) \in Int /\ Upto(i, size, res, hi, shift) \in Int
         /\ lo - shift <= From(i, size, lo, shift) /\ i * size - shift <= From(i, size, lo, shift)
         /\ Upto(i, size, res, hi, shift) <= hi + shift
         /\ Upto(i, size, res, hi, shift) <= (i + 1) * size + shift
         /\ From(i, size, lo, shift) + 2 * shift < Upto(i, size, res, hi, shift)
<1>. DEFINE a == i * size  c == (i + 1) * size
<1>1. /\ a \in Int /\ c = a + size /\ lo < c /\ a <= hi - 1
      /\ From(i, size, lo, shift) = Larger(a, lo) - shift
      /\ Upto(i, size, res, hi, shift) = Smaller(Smaller(c, res), hi) + shift
  BY AxisWanted DEF From, Upto
<1>. HIDE DEF a, c
<1>2. /\ Larger(a, lo) \in Int /\ a <= Larger(a, lo) /\ lo <= Larger(a, lo)
      /\ Larger(a, lo) < c /\ Larger(a, lo) < hi
  BY <1>1 DEF Axis, Larger
<1>3. LET m == Smaller(Smaller(c, res), hi)
      IN  m \in Int /\ m <= hi /\ m <= c /\ Larger(a, lo) < m
  BY <1>1, <1>2 DEF Axis, Smaller
<1>4. From(i, size, lo, shift) \in Int /\ Upto(i, size, res, hi, shift) \in Int
  BY <1>1, <1>2, <1>3 DEF Axis
<1>5. /\ lo - shift <= From(i, size, lo, shift) /\ a - shift <= From(i, size, lo, shift)
      /\ Upto(i, size, res, hi, shift) <= hi + shift
      /\ Upto(i, size, res, hi, shift) <= c + shift
      /\ From(i, size, lo, shift) + 2 * shift < Upto(i, size, res, hi, shift)
  BY <1>1, <1>2, <1>3 DEF Axis
<1>. QED  BY <1>4, <1>5 DEF a, c

(* Two buckets overlap by the filter's reach at most; neighbours by just   *)
(* that.                                                                   *)
LEMMA AxisSeam ==
  ASSUME NEW size, NEW shift, NEW res, NEW lo, NEW hi, Axis(size, shift, res, lo, hi),
         NEW i, OnAxis(i, size, lo, hi), NEW j, OnAxis(j, size, lo, hi), i < j
  PROVE  /\ From(i, size, lo, shift) <= From(j, size, lo, shift)
         /\ Upto(i, size, res, hi, shift) <= From(j, size, lo, shift) + 2 * shift
         /\ From(j, size, lo, shift) = j * size - shift
         /\ j = i + 1 => Upto(i, size, res, hi, shift) = j * size + shift
<1>1. /\ i \in Int /\ j \in Int /\ i * size \in Int /\ (i + 1) * size = i * size + size
      /\ j * size \in Int /\ lo < (i + 1) * size /\ j * size <= hi - 1
  BY AxisWanted
<1>2. (i + 1) * size <= j * size
  BY <1>1, Stride DEF Axis
<1>. QED  BY <1>1, <1>2 DEF Axis, From, Upto, Larger, Smaller

(* Every place in the filter's reach is read by some bucket.               *)
LEMMA AxisCover ==
  ASSUME NEW size, NEW shift, NEW res, NEW lo, NEW hi, Axis(size, shift, res, lo, hi),
         NEW p \in Int, lo - shift <= p, p < hi + shift
  PROVE  \E i \in Nat : /\ OnAxis(i, size, lo, hi)
                        /\ From(i, size, lo, shift) <= p /\ p < Upto(i, size, res, hi, shift)
<1>. DEFINE v == Clamp(p, lo, hi - 1)
            i == v \div size
<1>1. v \in Nat /\ lo <= v /\ v <= hi - 1
  BY DEF Clamp, Axis
<1>2. i \in Nat /\ i * size <= v /\ v < (i + 1) * size
  BY <1>1, Floor DEF Axis
<1>3. lo \div size <= i /\ i <= (hi - 1) \div size
  <2>1. size \in Nat \ {0} /\ lo \in Nat /\ hi - 1 \in Nat
    BY DEF Axis
  <2>2. lo \div size <= v \div size
    BY <1>1, <2>1, FloorMonotone
  <2>3. v \div size <= (hi - 1) \div size
    BY <1>1, <2>1, FloorMonotone
  <2>. QED  BY <2>2, <2>3
<1>4. OnAxis(i, size, lo, hi)
  <2>1. lo \div size \in Nat /\ (hi - 1) \div size \in Nat
    BY Floor DEF Axis
  <2>. QED  BY <1>2, <1>3, <2>1 DEF OnAxis
<1>5. i * size \in Nat /\ (i + 1) * size \in Nat
  BY <1>2 DEF Axis
<1>6. From(i, size, lo, shift) <= p
  <2>. HIDE DEF i
  <2>. QED  BY <1>1, <1>2, <1>5 DEF From, Larger, Clamp, Axis
<1>7. p < Upto(i, size, res, hi, shift)
  <2>. HIDE DEF i
  <2>. QED  BY <1>1, <1>2, <1>5 DEF Upto, Smaller, Clamp, Axis
<1>. QED  BY <1>2, <1>4, <1>6, <1>7

-----------------------------------------------------------------------------
(* The two axes of a window. *)
XAxis(w) == Axis(XBucketSize, ShiftX, w.xRes, w.crop.xMin, w.crop.xMax)
YAxis(w) == Axis(YBucketSize, ShiftY, w.yRes, w.crop.yMin, w.crop.yMax)
OnX(w, i) == OnAxis(i, XBucketSize, w.crop.xMin, w.crop.xMax)
OnY(w, i) == OnAxis(i, YBucketSize, w.crop.yMin, w.crop.yMax)
Left(w, b) == From(b.x, XBucketSize, w.crop.xMin, ShiftX)
Right(w, b) == Upto(b.x, XBucketSize, w.xRes, w.crop.xMax, ShiftX)
Top(w, b) == From(b.y, YBucketSize, w.crop.yMin, ShiftY)
Bottom(w, b) == Upto(b.y, YBucketSize, w.yRes, w.crop.yMax, ShiftY)

LEMMA WindowAxes ==
  ASSUME NEW w \in Windows
  PROVE  XAxis(w) /\ YAxis(w) /\ w.xRes \in Nat \ {0} /\ w.yRes \in Nat \ {0}
BY SizeAssumption DEF Windows, Regions, NonEmpty, XAxis, YAxis, Axis

LEMMA InBox ==
  ASSUME NEW x0 \in Int, NEW y0 \in Int, NEW x1 \in Int, NEW y1 \in Int, NEW p
  PROVE  p \in Positions(Box(x0, y0, x1, y1)) <=>
           /\ p = [x |-> p.x, y |-> p.y] /\ p.x \in Int /\ p.y \in Int
           /\ x0 <= p.x /\ p.x < x1 /\ y0 <= p.y /\ p.y < y1
BY DEF Positions, BucketsIn, Box

(* The region is a rectangle of buckets within the image.                  *)
LEMMA WindowRegion ==
  ASSUME NEW w \in Windows
  PROVE  /\ Region(w) \in Regions /\ NonEmpty(Region(w))
         /\ \A b : b \in BucketsIn(Region(w)) <=> b = [x |-> b.x, y |-> b.y] /\ OnX(w, b.x) /\ OnY(w, b.y)
         /\ \A b : b \in Grid(w) <=>
              /\ b = [x |-> b.x, y |-> b.y] /\ b.x \in Int /\ b.y \in Int
              /\ 0 <= b.x /\ b.x < XBuckets(w) /\ 0 <= b.y /\ b.y < YBuckets(w)
         /\ BucketsIn(Region(w)) \subseteq Grid(w)
<1>. DEFINE xlo == w.crop.xMin \div XBucketSize
            xhi == (w.crop.xMax - 1) \div XBucketSize
            ylo == w.crop.yMin \div YBucketSize
            yhi == (w.crop.yMax - 1) \div YBucketSize
<1>1. /\ w.crop.xMin \in Nat /\ w.crop.xMax - 1 \in Nat /\ w.crop.xMin <= w.crop.xMax - 1
      /\ w.crop.yMin \in Nat /\ w.crop.yMax - 1 \in Nat /\ w.crop.yMin <= w.crop.yMax - 1
      /\ w.xRes - 1 \in Nat /\ w.crop.xMax - 1 <= w.xRes - 1
      /\ w.yRes - 1 \in Nat /\ w.crop.yMax - 1 <= w.yRes - 1
  BY DEF Windows, Regions, NonEmpty
<1>2. xlo \in Nat /\ xhi \in Nat /\ ylo \in Nat /\ yhi \in Nat
  BY <1>1, Floor, SizeAssumption
<1>3. xlo <= xhi /\ ylo <= yhi
  BY <1>1, FloorMonotone, SizeAssumption
<1>4. /\ XBuckets(w) \in Nat /\ xhi < XBuckets(w)
      /\ YBuckets(w) \in Nat /\ yhi < YBuckets(w)
  <2>1. /\ (w.xRes - 1) \div XBucketSize \in Nat /\ xhi <= (w.xRes - 1) \div XBucketSize
        /\ (w.yRes - 1) \div YBucketSize \in Nat /\ yhi <= (w.yRes - 1) \div YBucketSize
    BY <1>1, Floor, FloorMonotone, SizeAssumption
  <2>. QED  BY <2>1, <1>2 DEF XBuckets, YBuckets
<1>5. Region(w) = [xMin |-> xlo, yMin |-> ylo, xMax |-> xhi + 1, yMax |-> yhi + 1]
  BY DEF Region, Box
<1>. HIDE DEF xlo, xhi, ylo, yhi
<1>6. Region(w) \in Regions /\ NonEmpty(Region(w))
  BY <1>2, <1>3, <1>5 DEF Regions, NonEmpty
<1>7. ASSUME NEW b
      PROVE  b \in BucketsIn(Region(w)) <=> b = [x |-> b.x, y |-> b.y] /\ OnX(w, b.x) /\ OnY(w, b.y)
  <2>1. OnX(w, b.x) <=> b.x \in Int /\ xlo <= b.x /\ b.x < xhi + 1
    BY DEF OnX, OnAxis, xlo, xhi
  <2>2. OnY(w, b.y) <=> b.y \in Int /\ ylo <= b.y /\ b.y < yhi + 1
    BY DEF OnY, OnAxis, ylo, yhi
  <2>. QED  BY <2>1, <2>2, <1>2, <1>5, InBox DEF Positions, Box
<1>8. ASSUME NEW b
      PROVE  b \in Grid(w) <=>
               /\ b = [x |-> b.x, y |-> b.y] /\ b.x \in Int /\ b.y \in Int
               /\ 0 <= b.x /\ b.x < XBuckets(w) /\ 0 <= b.y /\ b.y < YBuckets(w)
  BY <1>4, InBox DEF Grid, Positions
<1>9. BucketsIn(Region(w)) \subseteq Grid(w)
  <2>. SUFFICES ASSUME NEW b \in BucketsIn(Region(w))  PROVE b \in Grid(w)
    OBVIOUS
  <2>1. b = [x |-> b.x, y |-> b.y] /\ b.x \in xlo .. xhi /\ b.y \in ylo .. yhi
    BY <1>2, <1>5 DEF BucketsIn
  <2>. QED  BY <2>1, <1>2, <1>4, <1>8
<1>. QED  BY <1>6, <1>7, <1>8, <1>9

LEMMA SupportPlaces ==
  ASSUME NEW w \in Windows, NEW b \in BucketsIn(Region(w)), NEW p
  PROVE  /\ p \in Support(w, b) <=>
              /\ p = [x |-> p.x, y |-> p.y] /\ p.x \in Int /\ p.y \in Int
              /\ Left(w, b) <= p.x /\ p.x < Right(w, b) /\ Top(w, b) <= p.y /\ p.y < Bottom(w, b)
         /\ Left(w, b) \in Int /\ Right(w, b) \in Int /\ Top(w, b) \in Int /\ Bottom(w, b) \in Int
<1>1. OnX(w, b.x) /\ OnY(w, b.y) /\ XAxis(w) /\ YAxis(w)
  BY WindowRegion, WindowAxes
<1>2. Left(w, b) \in Int /\ Right(w, b) \in Int /\ Top(w, b) \in Int /\ Bottom(w, b) \in Int
  BY <1>1, AxisReach DEF OnX, OnY, XAxis, YAxis, Left, Right, Top, Bottom
<1>3. Support(w, b) = Positions(Box(Left(w, b), Top(w, b), Right(w, b), Bottom(w, b)))
  BY DEF Support, Display, Box, Left, Right, Top, Bottom, From, Upto
<1>. QED  BY <1>2, <1>3, InBox

(* What a bucket samples itself.                                           *)
LEMMA SamplePlaces ==
  ASSUME NEW w \in Windows, NEW b \in BucketsIn(Region(w)), NEW p
  PROVE  p \in Positions(SampleRegion(w, b)) <=>
           /\ p \in Support(w, b)
           /\ Has(b, "left") => Left(w, b) + 2 * ShiftX <= p.x
           /\ Has(b, "top") => Top(w, b) + 2 * ShiftY <= p.y
           /\ Has(b, "right") => p.x < Right(w, b) - 2 * ShiftX
           /\ Has(b, "bottom") => p.y < Bottom(w, b) - 2 * ShiftY
<1>1. Left(w, b) \in Int /\ Right(w, b) \in Int /\ Top(w, b) \in Int /\ Bottom(w, b) \in Int
  BY SupportPlaces
<1>2. ShiftX \in Nat /\ ShiftY \in Nat
  BY SizeAssumption
<1>. DEFINE sl == Shrunk(b, "left", ShiftX)
            st == Shrunk(b, "top", ShiftY)
            sr == Shrunk(b, "right", ShiftX)
            sb == Shrunk(b, "bottom", ShiftY)
<1>3. /\ sl = IF Has(b, "left") THEN 2 * ShiftX ELSE 0
      /\ st = IF Has(b, "top") THEN 2 * ShiftY ELSE 0
      /\ sr = IF Has(b, "right") THEN 2 * ShiftX ELSE 0
      /\ sb = IF Has(b, "bottom") THEN 2 * ShiftY ELSE 0
  BY DEF Shrunk
<1>. DEFINE x1 == Smaller(Smaller((b.x + 1) * XBucketSize, w.xRes), w.crop.xMax)
            y1 == Smaller(Smaller((b.y + 1) * YBucketSize, w.yRes), w.crop.yMax)
<1>4. SampleRegion(w, b) = Box(Left(w, b) + sl, Top(w, b) + st,
                               x1 + (ShiftX - sr), y1 + (ShiftY - sb))
  BY DEF SampleRegion, Display, Box, Left, Top, From
<1>8. x1 \in Int /\ y1 \in Int
  <2>1. b.x \in Int /\ b.y \in Int /\ (b.x + 1) * XBucketSize \in Int /\ (b.y + 1) * YBucketSize \in Int
    BY WindowRegion, SizeAssumption DEF OnX, OnY, OnAxis
  <2>. QED  BY <2>1, WindowAxes DEF Smaller, XAxis, YAxis, Axis
<1>9. Right(w, b) = x1 + ShiftX /\ Bottom(w, b) = y1 + ShiftY
  BY DEF Right, Bottom, Upto
<1>. HIDE DEF x1, y1
<1>. HIDE DEF sl, st, sr, sb
<1>5. sl \in Nat /\ st \in Nat /\ sr \in Nat /\ sb \in Nat
  BY <1>2, <1>3
<1>6. p \in Positions(SampleRegion(w, b)) <=>
        /\ p = [x |-> p.x, y |-> p.y] /\ p.x \in Int /\ p.y \in Int
        /\ Left(w, b) + sl <= p.x /\ p.x < Right(w, b) - sr
        /\ Top(w, b) + st <= p.y /\ p.y < Bottom(w, b) - sb
  <2>1. /\ Left(w, b) + sl \in Int /\ Top(w, b) + st \in Int
        /\ x1 + (ShiftX - sr) \in Int /\ x1 + (ShiftX - sr) = Right(w, b) - sr
        /\ y1 + (ShiftY - sb) \in Int /\ y1 + (ShiftY - sb) = Bottom(w, b) - sb
    BY <1>1, <1>2, <1>5, <1>8, <1>9
  <2>. QED  BY <1>4, <2>1, InBox
<1>7. p \in Support(w, b) <=>
        /\ p = [x |-> p.x, y |-> p.y] /\ p.x \in Int /\ p.y \in Int
        /\ Left(w, b) <= p.x /\ p.x < Right(w, b) /\ Top(w, b) <= p.y /\ p.y < Bottom(w, b)
  BY SupportPlaces
<1>. QED  BY <1>1, <1>2, <1>3, <1>5, <1>6, <1>7

-----------------------------------------------------------------------------
(* The window of a frame is one of the session's, and its buckets are among*)
(* those of the image buffer.                                              *)
LEMMA FrameWindow ==
  ASSUME NEW s \in Sessions, NEW f \in 0 .. Len(s)
  PROVE  /\ s[IF f = 0 THEN 1 ELSE f] \in Windows
         /\ Grid(s[IF f = 0 THEN 1 ELSE f]) \subseteq AllBuckets
<1>1. s \in Seq(Windows) /\ s # <<>>
  BY SessionsAssumption
<1>2. (IF f = 0 THEN 1 ELSE f) \in DOMAIN s
  BY <1>1
<1>3. s[IF f = 0 THEN 1 ELSE f] \in UNION {Range(t) : t \in Sessions}
  BY <1>2 DEF Range
<1>. QED  BY <1>1, <1>2, <1>3 DEF AllBuckets

LEMMA WindowNow ==
  ASSUME Ordered
  PROVE  window \in Windows /\ Grid(window) \subseteq AllBuckets /\ Buckets \subseteq Grid(window)
<1>1. window \in Windows /\ Grid(window) \subseteq AllBuckets
  BY FrameWindow DEF Ordered, window
<1>. QED  BY <1>1, WindowRegion DEF Buckets

LEMMA BucketFacts ==
  ASSUME NEW r \in Regions, NEW b
  PROVE  b \in BucketsIn(r) <=>
           /\ b = [x |-> b.x, y |-> b.y] /\ b.x \in Int /\ b.y \in Int
           /\ r.xMin <= b.x /\ b.x < r.xMax /\ r.yMin <= b.y /\ b.y < r.yMax
BY DEF Regions, BucketsIn

(* The first bucket of a region has none before it.                        *)
LEMMA FirstBucket ==
  ASSUME NEW r \in Regions, NonEmpty(r)
  PROVE  /\ FirstCell(r) \in BucketsIn(r)
         /\ \A a \in BucketsIn(r) : ~Before(a, FirstCell(r))
         /\ NoBucket \notin BucketsIn(r)
<1>. USE DEF Regions
<1>1. FirstCell(r) \in BucketsIn(r)
  BY DEF FirstCell, BucketsIn, NonEmpty
<1>2. \A a \in BucketsIn(r) : ~Before(a, FirstCell(r))
  BY BucketFacts DEF FirstCell, Before
<1>3. NoBucket \notin BucketsIn(r)
  BY BucketFacts DEF NoBucket
<1>. QED  BY <1>1, <1>2, <1>3

(* NextBucket goes on with the bucket that follows in row-major order, and *)
(* stops when there is none.                                               *)
LEMMA NextBucket ==
  ASSUME NEW r \in Regions, NonEmpty(r), NEW b \in BucketsIn(r)
  PROVE  /\ \A a \in BucketsIn(r) : Before(a, NextCell(r, b)) <=> a = b \/ Before(a, b)
         /\ HasNext(r, b) => NextCell(r, b) \in BucketsIn(r)
         /\ ~HasNext(r, b) => \A a \in BucketsIn(r) : a = b \/ Before(a, b)
         /\ ~Before(b, b)
<1>. USE DEF Regions
<1>1. ASSUME NEW a \in BucketsIn(r)
      PROVE  /\ Before(a, NextCell(r, b)) <=> a = b \/ Before(a, b)
             /\ ~HasNext(r, b) => a = b \/ Before(a, b)
             /\ ~Before(b, b)
  <2>1. a = b <=> a.x = b.x /\ a.y = b.y
    BY BucketFacts
  <2>. QED  BY <2>1, BucketFacts DEF NextCell, HasNext, Before
<1>2. HasNext(r, b) => NextCell(r, b) \in BucketsIn(r)
  BY BucketFacts DEF HasNext, NextCell, BucketsIn, NonEmpty
<1>. QED  BY <1>1, <1>2

-----------------------------------------------------------------------------
(* What postProcess hands over. *)

Book(st) ==
  /\ DOMAIN st = {"aie", "cache", "sweep", "made"}
  /\ DOMAIN st.cache = AllBuckets

\* Bucket b gives x the segment for the side.
Gives(b, g, x, side) == Receives(b, g) /\ x = Neighbour(b, g.nb) /\ side = g.to

LEMMA GiftSides ==
  ASSUME NEW st, Book(st), NEW b, NEW g, Grid(window) \subseteq AllBuckets
  PROVE  /\ Book(Give(st, b, g))
         /\ \A x \in AllBuckets : \A side :
              side \in DOMAIN Give(st, b, g).cache[x] <=>
                side \in DOMAIN st.cache[x] \/ Gives(b, g, x, side)
<1>. DEFINE nb == Neighbour(b, g.nb)
            have == IF g.from \in DOMAIN st.made THEN st ELSE Built(st, g.from)
            give == Set(have, nb, g.to, have.made[g.from])
<1>1. Book(have) /\ have.cache = st.cache
  <2>1. Book(Built(st, g.from)) /\ Built(st, g.from).cache = st.cache
    BY DEF Built, Book
  <2>. QED  BY <2>1
<1>2. CASE ~Receives(b, g)
  BY <1>2 DEF Give, Gives
<1>3. CASE Receives(b, g) /\ g.from \in Corners /\ g.to \in DOMAIN st.cache[nb]
  BY <1>3 DEF Give, Gives
<1>4. CASE Receives(b, g) /\ ~(g.from \in Corners /\ g.to \in DOMAIN st.cache[nb])
  <2>1. Give(st, b, g) = give
    BY <1>4 DEF Give
  <2>. HIDE DEF have
  <2>2. nb \in AllBuckets
    BY <1>4 DEF Receives
  <2>3. Book(give) /\ \A x \in AllBuckets : x # nb => give.cache[x] = have.cache[x]
    BY <1>1 DEF Set, Book
  <2>4. DOMAIN give.cache[nb] = DOMAIN have.cache[nb] \cup {g.to}
    BY <1>1, <2>2 DEF Set, Book
  <2>. QED  BY <1>1, <1>4, <2>1, <2>2, <2>3, <2>4 DEF Gives
<1>. QED  BY <1>2, <1>3, <1>4

\* The first of the three entries for a neighbour is the side that faces it.
LEMMA GiftList ==
  /\ Gifts[1] = Gift("left", "left", "right")
  /\ Gifts[2] = Gift("left", "top_left", "top_right")
  /\ Gifts[3] = Gift("left", "bottom_left", "bottom_right")
  /\ Gifts[4] = Gift("right", "right", "left")
  /\ Gifts[5] = Gift("right", "top_right", "top_left")
  /\ Gifts[6] = Gift("right", "bottom_right", "bottom_left")
  /\ Gifts[7] = Gift("above", "top", "bottom")
  /\ Gifts[8] = Gift("above", "top_left", "bottom_left")
  /\ Gifts[9] = Gift("above", "top_right", "bottom_right")
  /\ Gifts[10] = Gift("below", "bottom", "top")
  /\ Gifts[11] = Gift("below", "bottom_left", "top_left")
  /\ Gifts[12] = Gift("below", "bottom_right", "top_right")
BY DEF Gifts

LEMMA GiftAcross ==
  ASSUME NEW i \in 1 .. 12
  PROVE  /\ Gifts[i].from \notin Corners => i \in {1, 4, 7, 10}
         /\ Gifts[i].to = "left" => Gifts[i].nb = "right"
         /\ Gifts[i].to = "right" => Gifts[i].nb = "left"
         /\ Gifts[i].to = "top" => Gifts[i].nb = "below"
         /\ Gifts[i].to = "bottom" => Gifts[i].nb = "above"
<1>1. i \in {1, 2, 3} \/ i \in {4, 5, 6} \/ i \in {7, 8, 9} \/ i \in {10, 11, 12}
  OBVIOUS
<1>2. CASE i \in {1, 2, 3}
  BY <1>2, GiftList DEF Gift, Corners
<1>3. CASE i \in {4, 5, 6}
  BY <1>3, GiftList DEF Gift, Corners
<1>4. CASE i \in {7, 8, 9}
  BY <1>4, GiftList DEF Gift, Corners
<1>5. CASE i \in {10, 11, 12}
  BY <1>5, GiftList DEF Gift, Corners
<1>. QED  BY <1>1, <1>2, <1>3, <1>4, <1>5

LEMMA ThreeSides ==
  ASSUME NEW st, Book(st), NEW b, NEW i, Grid(window) \subseteq AllBuckets,
         NEW t, t = GiveThree(st, b, i)
  PROVE  /\ Book(t)
         /\ \A x \in AllBuckets : \A side :
              side \in DOMAIN t.cache[x] <=>
                \/ side \in DOMAIN st.cache[x]
                \/ \E k \in {i, i + 1, i + 2} : Gives(b, Gifts[k], x, side)
<1>1. PICK s1 : s1 = Give(st, b, Gifts[i])
  OBVIOUS
<1>2. PICK s2 : s2 = Give(s1, b, Gifts[i + 1])
  OBVIOUS
<1>3. t = Give(s2, b, Gifts[i + 2])
  BY <1>1, <1>2 DEF GiveThree
<1>4. /\ Book(s1)
      /\ \A x \in AllBuckets : \A side : side \in DOMAIN s1.cache[x] <=>
           side \in DOMAIN st.cache[x] \/ Gives(b, Gifts[i], x, side)
  BY <1>1, GiftSides
<1>5. /\ Book(s2)
      /\ \A x \in AllBuckets : \A side : side \in DOMAIN s2.cache[x] <=>
           side \in DOMAIN s1.cache[x] \/ Gives(b, Gifts[i + 1], x, side)
  BY <1>2, <1>4, GiftSides
<1>6. /\ Book(t)
      /\ \A x \in AllBuckets : \A side : side \in DOMAIN t.cache[x] <=>
           side \in DOMAIN s2.cache[x] \/ Gives(b, Gifts[i + 2], x, side)
  BY <1>3, <1>5, GiftSides
<1>. QED  BY <1>4, <1>5, <1>6

LEMMA HandedSides ==
  ASSUME NEW b, DOMAIN cache = AllBuckets, Grid(window) \subseteq AllBuckets
  PROVE  /\ DOMAIN HandedOver(b).cache = AllBuckets
         /\ \A x \in AllBuckets : \A side :
              side \in DOMAIN HandedOver(b).cache[x] <=>
                side \in DOMAIN cache[x] \/ \E i \in 1 .. 12 : Gives(b, Gifts[i], x, side)
<1>. PICK s0 : s0 = [aie |-> aie, cache |-> cache, sweep |-> sweep, made |-> NoSegments]
  OBVIOUS
<1>. PICK s3 : s3 = GiveThree(s0, b, 1)
  OBVIOUS
<1>. PICK s6 : s6 = GiveThree(s3, b, 4)
  OBVIOUS
<1>. PICK s9 : s9 = GiveThree(s6, b, 7)
  OBVIOUS
<1>. PICK s12 : s12 = GiveThree(s9, b, 10)
  OBVIOUS
<1>1. Book(s0) /\ s0.cache = cache
  BY DEF Book
<1>2. HandedOver(b) = Dropped(s12, b)
  BY Zenon DEF HandedOver
<1>3. /\ Book(s3)
      /\ \A x \in AllBuckets : \A side : side \in DOMAIN s3.cache[x] <=>
           side \in DOMAIN cache[x] \/ \E k \in {1, 1 + 1, 1 + 2} : Gives(b, Gifts[k], x, side)
  BY <1>1, ThreeSides
<1>4. /\ Book(s6)
      /\ \A x \in AllBuckets : \A side : side \in DOMAIN s6.cache[x] <=>
           side \in DOMAIN s3.cache[x] \/ \E k \in {4, 4 + 1, 4 + 2} : Gives(b, Gifts[k], x, side)
  BY <1>3, ThreeSides
<1>5. /\ Book(s9)
      /\ \A x \in AllBuckets : \A side : side \in DOMAIN s9.cache[x] <=>
           side \in DOMAIN s6.cache[x] \/ \E k \in {7, 7 + 1, 7 + 2} : Gives(b, Gifts[k], x, side)
  BY <1>4, ThreeSides
<1>6. /\ Book(s12)
      /\ \A x \in AllBuckets : \A side : side \in DOMAIN s12.cache[x] <=>
           side \in DOMAIN s9.cache[x] \/ \E k \in {10, 10 + 1, 10 + 2} : Gives(b, Gifts[k], x, side)
  BY <1>5, ThreeSides
<1>7. HandedOver(b).cache = s12.cache
  BY <1>2, <1>6 DEF Dropped, Book
<1>8. 1 .. 12 = {1, 1 + 1, 1 + 2} \cup {4, 4 + 1, 4 + 2} \cup {7, 7 + 1, 7 + 2} \cup {10, 10 + 1, 10 + 2}
  OBVIOUS
<1>9. ASSUME NEW x \in AllBuckets, NEW side
      PROVE  side \in DOMAIN s12.cache[x] <=>
               side \in DOMAIN cache[x] \/ \E i \in 1 .. 12 : Gives(b, Gifts[i], x, side)
  BY <1>3, <1>4, <1>5, <1>6, <1>8
<1>. QED  BY <1>6, <1>7, <1>9 DEF Book

-----------------------------------------------------------------------------
(* No raster position is sampled by two buckets. *)

LEMMA SeamInit == Init => SeamInv
<1>. SUFFICES ASSUME Init  PROVE SeamInv
  OBVIOUS
<1>1. Ordered
  <2>1. session \in Seq(Windows) /\ Len(session) \in Nat
    BY SessionsAssumption DEF Init
  <2>. QED  BY <2>1 DEF Init, Ordered
<1>2. StripsKept /\ SampledByDone
  BY DEF Init, StripsKept, SampledByDone
<1>. QED  BY <1>1, <1>2 DEF SeamInv

\* The frame stays the same.
SameFrame == session' = session /\ frame' = frame /\ window' = window

LEMMA StepFrame ==
  PreProcess \/ Combine \/ HandOver \/ EndImage \/ UNCHANGED vars => SameFrame
BY DEF SameFrame, PreProcess, Combine, HandOver, EndImage, vars, window

LEMMA OrderedStep == Ordered /\ [Next]_vars => Ordered'
<1>. SUFFICES ASSUME Ordered, [Next]_vars  PROVE Ordered'
  OBVIOUS
<1>1. window \in Windows /\ Region(window) \in Regions /\ NonEmpty(Region(window))
  BY WindowNow, WindowRegion
<1>2. CASE RenderWorld
  <2>1. session \in Sessions /\ session' = session /\ frame' \in 0 .. Len(session) /\ frame' > 0
    BY <1>2, SessionsAssumption DEF RenderWorld, Ordered
  <2>2. window' \in Windows /\ window' = session[frame']
    BY <2>1, FrameWindow DEF window
  <2>3. Region(window)' = Region(session[frame']) /\ Buckets' = BucketsIn(Region(session[frame']))
    BY <2>2 DEF Region, Buckets
  <2>4. /\ FirstCell(Region(session[frame'])) \in Buckets'
        /\ \A a \in Buckets' : ~Before(a, FirstCell(Region(session[frame'])))
    BY <2>2, <2>3, WindowRegion, FirstBucket
  <2>5. pc' = "loop" /\ pending' /\ cell' = FirstCell(Region(session[frame'])) /\ processed' = {}
        /\ bucket' = NoBucket /\ samples' = {}
    BY <1>2 DEF RenderWorld, Ordered
  <2>. QED  BY <2>1, <2>4, <2>5 DEF Ordered
<1>3. CASE PreProcess
  <2>1. SameFrame /\ Buckets' = Buckets /\ Region(window)' = Region(window)
    BY <1>3, StepFrame DEF SameFrame, Buckets, Region
  <2>2. pc' = "combine" /\ bucket' = cell /\ cell' = NextCell(Region(window), cell)
        /\ pending' = HasNext(Region(window), cell) /\ processed' = processed /\ pc = "loop" /\ pending
    BY <1>3 DEF PreProcess
  <2>. QED  BY <2>1, <2>2 DEF Ordered, SameFrame
<1>4. CASE Combine
  <2>1. SameFrame /\ Buckets' = Buckets /\ Region(window)' = Region(window)
    BY <1>4, StepFrame DEF SameFrame, Buckets, Region
  <2>. QED  BY <1>4, <2>1 DEF Ordered, SameFrame, Combine
<1>5. CASE HandOver
  <2>1. SameFrame /\ Buckets' = Buckets /\ Region(window)' = Region(window)
    BY <1>5, StepFrame DEF SameFrame, Buckets, Region
  <2>2. /\ pc' = "loop" /\ bucket' = NoBucket /\ samples' = {}
        /\ processed' = processed \cup {bucket} /\ cell' = cell /\ pending' = pending
        /\ bucket \in Buckets /\ processed = {a \in Buckets : Before(a, bucket)}
        /\ cell = NextCell(Region(window), bucket) /\ pending = HasNext(Region(window), bucket)
        /\ frame > 0
    BY <1>5 DEF HandOver, Ordered
  <2>3. CASE pending
    <3>1. cell \in Buckets /\ processed' = {a \in Buckets : Before(a, cell)}
      <4>1. HasNext(Region(window), bucket)
        BY <2>2, <2>3, Zenon
      <4>2. cell \in Buckets /\ \A a \in Buckets : Before(a, cell) <=> a = bucket \/ Before(a, bucket)
        BY <1>1, <2>2, <4>1, NextBucket DEF Buckets
      <4>. QED  BY <2>2, <4>2
    <3>. QED  BY <2>1, <2>2, <2>3, <3>1 DEF Ordered, SameFrame
  <2>4. CASE ~pending
    <3>1. processed' = Buckets
      BY <1>1, <2>2, <2>4, NextBucket DEF Buckets
    <3>. QED  BY <2>1, <2>2, <2>4, <3>1 DEF Ordered, SameFrame
  <2>. QED  BY <2>3, <2>4
<1>6. CASE EndImage
  <2>1. SameFrame /\ Buckets' = Buckets
    BY <1>6, StepFrame DEF SameFrame, Buckets, Region
  <2>. QED  BY <1>6, <2>1 DEF Ordered, SameFrame, EndImage
<1>7. CASE UNCHANGED vars
  <2>1. SameFrame /\ Buckets' = Buckets /\ Region(window)' = Region(window)
    BY <1>7, StepFrame DEF SameFrame, Buckets, Region
  <2>. QED  BY <1>7, <2>1 DEF Ordered, SameFrame, vars
<1>. QED  BY <1>2, <1>3, <1>4, <1>5, <1>6, <1>7 DEF Next

\* The neighbour a strip comes from is the one it goes back to.
LEMMA NeighbourBack ==
  ASSUME NEW b, NEW x, x = [x |-> x.x, y |-> x.y], x.x \in Int, x.y \in Int,
         b = [x |-> b.x, y |-> b.y], b.x \in Int, b.y \in Int
  PROVE  /\ Neighbour(x, "left") = b <=> Neighbour(b, "right") = x
         /\ Neighbour(x, "right") = b <=> Neighbour(b, "left") = x
         /\ Neighbour(x, "above") = b <=> Neighbour(b, "below") = x
         /\ Neighbour(x, "below") = b <=> Neighbour(b, "above") = x
<1>1. b = x <=> b.x = x.x /\ b.y = x.y
  OBVIOUS
<1>. QED  BY <1>1 DEF Neighbour, Moved

\* What a bucket that is handed over leaves in the segments.
LEMMA HandOverSides ==
  ASSUME Ordered, StripsKept, HandOver
  PROVE  /\ DOMAIN cache' = AllBuckets
         /\ \A x \in AllBuckets : x # bucket => \A side :
              side \in DOMAIN cache'[x] <=>
                side \in DOMAIN cache[x] \/ \E i \in 1 .. 12 : Gives(bucket, Gifts[i], x, side)
         /\ DOMAIN cache'[bucket] = {}
<1>. DEFINE c == HandedOver(bucket).cache
<1>1. bucket \in AllBuckets
  BY WindowNow DEF HandOver, Ordered
<1>2. /\ DOMAIN c = AllBuckets
      /\ \A x \in AllBuckets : \A side :
           side \in DOMAIN c[x] <=>
             side \in DOMAIN cache[x] \/ \E i \in 1 .. 12 : Gives(bucket, Gifts[i], x, side)
  BY WindowNow, HandedSides DEF StripsKept
<1>3. cache' = [c EXCEPT ![bucket] = NoSegments]
  BY DEF HandOver, ClearCache
<1>. HIDE DEF c
<1>4. DOMAIN NoSegments = {}
  BY DEF NoSegments
<1>. QED  BY <1>1, <1>2, <1>3, <1>4

LEMMA StripsStep == Ordered /\ StripsKept /\ [Next]_vars => StripsKept'
<1>. SUFFICES ASSUME Ordered, StripsKept, [Next]_vars  PROVE StripsKept'
  OBVIOUS
<1>1. CASE RenderWorld
  BY <1>1 DEF RenderWorld, StripsKept, Neighbour, Moved
<1>2. CASE PreProcess \/ Combine \/ EndImage \/ UNCHANGED vars
  <2>1. Grid(window)' = Grid(window) /\ cache' = cache /\ processed' = processed
    BY <1>2, StepFrame DEF SameFrame, PreProcess, Combine, EndImage, vars, Grid
  <2>. QED  BY <2>1 DEF StripsKept, Has, Neighbour
<1>3. CASE HandOver
  <2>1. Grid(window)' = Grid(window) /\ processed' = processed \cup {bucket} /\ bucket \in Buckets
        /\ bucket \in Grid(window) /\ bucket \notin processed
    <3>1. bucket \in Buckets /\ processed = {a \in Buckets : Before(a, bucket)}
      BY <1>3 DEF HandOver, Ordered
    <3>2. ~Before(bucket, bucket)
      BY <3>1, WindowNow, WindowRegion, NextBucket DEF Buckets
    <3>. QED  BY <1>3, <3>1, <3>2, StepFrame, WindowNow DEF SameFrame, HandOver, Grid
  <2>2. ASSUME NEW x \in Grid(window) \ processed'
        PROVE  /\ Neighbour(x, "left") \in processed' => "left" \in DOMAIN cache'[x]
               /\ Neighbour(x, "above") \in processed' => "top" \in DOMAIN cache'[x]
    <3>1. x \in AllBuckets /\ x # bucket /\ x \in Grid(window) \ processed
      BY <2>1, WindowNow
    <3>2. /\ x = [x |-> x.x, y |-> x.y] /\ x.x \in Int /\ x.y \in Int
          /\ bucket = [x |-> bucket.x, y |-> bucket.y] /\ bucket.x \in Int /\ bucket.y \in Int
      BY <2>1, <3>1, WindowNow, WindowRegion
    <3>3. ASSUME Neighbour(x, "left") = bucket  PROVE Gives(bucket, Gifts[4], x, "left")
      BY <3>1, <3>2, <3>3, NeighbourBack, GiftList DEF Gives, Receives, Gift
    <3>4. ASSUME Neighbour(x, "above") = bucket  PROVE Gives(bucket, Gifts[10], x, "top")
      BY <3>1, <3>2, <3>4, NeighbourBack, GiftList DEF Gives, Receives, Gift
    <3>5. \A side : side \in DOMAIN cache'[x] <=>
             side \in DOMAIN cache[x] \/ \E i \in 1 .. 12 : Gives(bucket, Gifts[i], x, side)
      BY <1>3, <3>1, HandOverSides
    <3>. QED  BY <2>1, <3>1, <3>3, <3>4, <3>5 DEF StripsKept, Has
  <2>3. DOMAIN cache' = AllBuckets
    BY <1>3, HandOverSides
  <2>. QED  BY <2>1, <2>2, <2>3 DEF StripsKept, Has, Neighbour
<1>. QED  BY <1>1, <1>2, <1>3 DEF Next

LEMMA SampledStep == SeamInv /\ [Next]_vars => SampledByDone'
<1>. SUFFICES ASSUME SeamInv, [Next]_vars  PROVE SampledByDone'
  OBVIOUS
<1>. USE DEF SeamInv
<1>1. CASE RenderWorld
  BY <1>1 DEF RenderWorld, SampledByDone
<1>2. CASE PreProcess
  <2>1. cell \in Buckets /\ window' = window /\ window \in Windows /\ Done = processed
        /\ Done' = processed \cup {cell} /\ sampled' = sampled \cup Positions(SampleRegion(window, cell))
    <3>1. cell \in Buckets /\ bucket = NoBucket /\ NoBucket \notin Buckets
      BY <1>2, WindowNow, WindowRegion, FirstBucket DEF PreProcess, Ordered, Buckets
    <3>. QED  BY <1>2, <3>1, StepFrame, WindowNow DEF SameFrame, PreProcess, Done
  <2>2. \A p \in Positions(SampleRegion(window, cell)) : p \in Support(window, cell)
    BY <2>1, SamplePlaces DEF Buckets
  <2>. QED  BY <2>1, <2>2 DEF SampledByDone, Support
<1>3. CASE HandOver
  <2>1. window' = window /\ Done' = Done /\ sampled' = sampled
    <3>1. bucket \in Buckets /\ NoBucket \notin Buckets
      BY <1>3, WindowNow, WindowRegion, FirstBucket DEF HandOver, Ordered, Buckets
    <3>. QED  BY <1>3, <3>1, StepFrame DEF SameFrame, HandOver, Done
  <2>. QED  BY <2>1 DEF SampledByDone, Support
<1>4. CASE Combine \/ EndImage \/ UNCHANGED vars
  <2>1. window' = window /\ Done' = Done /\ sampled' = sampled
    BY <1>4, StepFrame DEF SameFrame, Combine, EndImage, vars, Done
  <2>. QED  BY <2>1 DEF SampledByDone, Support
<1>. QED  BY <1>1, <1>2, <1>3, <1>4 DEF Next

LEMMA SeamInvariance == Spec => []SeamInv
<1>1. SeamInv /\ [Next]_vars => SeamInv'
  BY OrderedStep, StripsStep, SampledStep DEF SeamInv
<1>. QED  BY <1>1, SeamInit, PTL DEF Spec

(* A bucket that comes before another in the region ends where the other   *)
(* begins, or is cut off by the strip of the neighbour in between.         *)
LEMMA SeamBefore ==
  ASSUME Ordered, StripsKept, pc = "loop", pending,
         NEW a \in Buckets, Before(a, cell), NEW p \in Support(window, a)
  PROVE  p \notin Positions(SampleRegion(window, cell))
<1>. SUFFICES ASSUME p \in Positions(SampleRegion(window, cell))  PROVE FALSE
  OBVIOUS
<1>1. /\ window \in Windows /\ cell \in Buckets /\ processed = {c \in Buckets : Before(c, cell)}
      /\ Buckets \subseteq Grid(window) /\ cell \notin processed
  <2>1. window \in Windows /\ cell \in Buckets /\ processed = {c \in Buckets : Before(c, cell)}
        /\ Buckets \subseteq Grid(window)
    BY WindowNow DEF Ordered
  <2>. QED  BY <2>1, WindowRegion, NextBucket DEF Buckets
<1>2. /\ p.x \in Int /\ p.y \in Int
      /\ p.x < Right(window, a) /\ p.y < Bottom(window, a)
      /\ Right(window, a) \in Int /\ Bottom(window, a) \in Int
      /\ Left(window, cell) \in Int /\ Top(window, cell) \in Int
  BY <1>1, SupportPlaces DEF Buckets
<1>3. /\ Has(cell, "left") => Left(window, cell) + 2 * ShiftX <= p.x
      /\ Has(cell, "top") => Top(window, cell) + 2 * ShiftY <= p.y
  BY <1>1, SamplePlaces DEF Buckets
<1>4. /\ a = [x |-> a.x, y |-> a.y] /\ OnX(window, a.x) /\ OnY(window, a.y)
      /\ cell = [x |-> cell.x, y |-> cell.y] /\ OnX(window, cell.x) /\ OnY(window, cell.y)
      /\ a.x \in Int /\ a.y \in Int /\ cell.x \in Int /\ cell.y \in Int
  BY <1>1, WindowRegion DEF Buckets, OnX, OnY, OnAxis
<1>5. XAxis(window) /\ YAxis(window) /\ ShiftX \in Nat /\ ShiftY \in Nat
  BY <1>1, WindowAxes, SizeAssumption
<1>6. CASE a.y < cell.y
  <2>. DEFINE up == [x |-> cell.x, y |-> cell.y - 1]
  <2>1. Neighbour(cell, "above") = up
    BY <1>4 DEF Neighbour, Moved
  <2>2. OnY(window, cell.y - 1)
    BY <1>4, <1>6, <1>5, Floor DEF OnY, OnAxis, YAxis, Axis
  <2>3. up \in Buckets
    BY <1>1, <1>4, <2>2, WindowRegion DEF Buckets
  <2>4. up \in processed
    BY <1>1, <1>4, <2>3 DEF Before
  <2>5. Has(cell, "top")
    BY <1>1, <2>1, <2>4 DEF StripsKept
  <2>6. Bottom(window, a) <= Top(window, cell) + 2 * ShiftY
    BY <1>4, <1>5, <1>6, AxisSeam DEF OnY, YAxis, Bottom, Top
  <2>. QED  BY <1>2, <1>3, <1>5, <2>5, <2>6
<1>7. CASE a.y = cell.y /\ a.x < cell.x
  <2>. DEFINE to == [x |-> cell.x - 1, y |-> cell.y]
  <2>1. Neighbour(cell, "left") = to
    BY <1>4 DEF Neighbour, Moved
  <2>2. OnX(window, cell.x - 1)
    BY <1>4, <1>7, <1>5, Floor DEF OnX, OnAxis, XAxis, Axis
  <2>3. to \in Buckets
    BY <1>1, <1>4, <2>2, WindowRegion DEF Buckets
  <2>4. to \in processed
    BY <1>1, <1>4, <2>3 DEF Before
  <2>5. Has(cell, "left")
    BY <1>1, <2>1, <2>4 DEF StripsKept
  <2>6. Right(window, a) <= Left(window, cell) + 2 * ShiftX
    BY <1>4, <1>5, <1>7, AxisSeam DEF OnX, XAxis, Right, Left
  <2>. QED  BY <1>2, <1>3, <1>5, <2>5, <2>6
<1>. QED  BY <1>6, <1>7 DEF Before

(***************************************************************************)
(* No raster position is sampled by two buckets of a frame, whatever the   *)
(* sizes of buckets, filter and image, the crop windows and their order,   *)
(* even where strips of an earlier frame are left.                         *)
(***************************************************************************)
THEOREM NoSeamTwice == Spec => SampledByOneBucket
<1>1. SeamInv /\ [Next]_vars => [pc = "loop" => samples' \cap sampled = {}]_vars
  <2>. SUFFICES ASSUME SeamInv, Next, pc = "loop"  PROVE samples' \cap sampled = {}
    OBVIOUS
  <2>. USE DEF SeamInv
  <2>1. CASE PreProcess
    <3>1. samples' = Positions(SampleRegion(window, cell)) /\ pending
      BY <2>1 DEF PreProcess
    <3>2. Done = processed /\ processed = {a \in Buckets : Before(a, cell)}
      BY <3>1 DEF Ordered, Done
    <3>3. ASSUME NEW p \in sampled  PROVE p \notin samples'
      <4>1. PICK a \in Buckets : Before(a, cell) /\ p \in Support(window, a)
        BY <3>2 DEF SampledByDone
      <4>. QED  BY <3>1, <4>1, SeamBefore
    <3>. QED  BY <3>3
  <2>2. CASE EndImage
    BY <2>2 DEF EndImage, Ordered
  <2>. QED  BY <2>1, <2>2 DEF Next, RenderWorld, Combine, HandOver
<1>. QED  BY <1>1, SeamInvariance, PTL DEF Spec, SampledByOneBucket

-----------------------------------------------------------------------------
(* Frames that leave no strips behind: one frame of any crop window, or    *)
(* whole images.                                                           *)
OneOrWhole ==
  \A s \in Sessions : Len(s) = 1 \/ \A i \in DOMAIN s : s[i].crop = Box(0, 0, s[i].xRes, s[i].yRes)

\* Buckets that are done or out of the image hold nothing; others hold no
\* strip of a neighbour that is not done.
NothingStale ==
  /\ \A b \in AllBuckets : frame = 0 \/ b \in processed \/ b \notin Grid(window) => DOMAIN cache[b] = {}
  /\ \A b \in Grid(window) \ processed :
       /\ Has(b, "left") => Neighbour(b, "left") \in processed
       /\ Has(b, "right") => Neighbour(b, "right") \in processed
       /\ Has(b, "top") => Neighbour(b, "above") \in processed
       /\ Has(b, "bottom") => Neighbour(b, "below") \in processed

\* A bucket that is sampled has all that its filter reads.
ReachSampled == \A b \in Done : Support(window, b) \subseteq sampled

WholeInv == SeamInv /\ NothingStale /\ ReachSampled

LEMMA WholeInit == Init => WholeInv
<1>. SUFFICES ASSUME Init  PROVE NothingStale /\ ReachSampled
  BY SeamInit DEF WholeInv
<1>1. \A b \in AllBuckets : DOMAIN cache[b] = {}
  BY DEF Init, NoSegments
<1>2. Grid(window) \subseteq AllBuckets
  BY SeamInit, WindowNow DEF SeamInv
<1>. QED  BY <1>1, <1>2 DEF Init, NothingStale, ReachSampled, Has, Done

LEMMA NothingCarried ==
  ASSUME OneOrWhole, Ordered, NothingStale, RenderWorld
  PROVE  \A b \in AllBuckets : DOMAIN cache[b] = {}
<1>1. CASE frame = 0
  BY <1>1 DEF NothingStale
<1>2. CASE frame > 0
  <2>1. session \in Seq(Windows) /\ session # <<>> /\ frame \in DOMAIN session /\ Len(session) # 1
    BY <1>2, SessionsAssumption DEF RenderWorld, Ordered
  <2>2. window = session[frame] /\ window.crop = Box(0, 0, window.xRes, window.yRes)
    BY <1>2, <2>1 DEF OneOrWhole, window, Ordered
  <2>3. Buckets = Grid(window)
    <3>1. window \in Windows
      BY WindowNow
    <3>2. 0 \div XBucketSize = 0 /\ 0 \div YBucketSize = 0
      BY SizeAssumption
    <3>. QED  BY <2>2, <3>1, <3>2 DEF Buckets, Region, Grid, Box, XBuckets, YBuckets
  <2>4. processed = Buckets
    BY <1>2 DEF RenderWorld, Ordered
  <2>. QED  BY <2>3, <2>4 DEF NothingStale
<1>. QED  BY <1>1, <1>2 DEF Ordered

LEMMA StaleStep ==
  ASSUME OneOrWhole, Ordered, StripsKept, NothingStale, [Next]_vars
  PROVE  NothingStale'
<1>1. CASE RenderWorld
  <2>1. \A b \in AllBuckets : DOMAIN cache[b] = {}
    BY <1>1, NothingCarried
  <2>2. \A b \in AllBuckets : DOMAIN cache'[b] = {}
    BY <1>1, <2>1 DEF RenderWorld, NoSegments
  <2>3. Grid(window)' \subseteq AllBuckets
    <3>1. Ordered'
      BY OrderedStep
    <3>2. session' \in Sessions /\ frame' \in 0 .. Len(session')
      BY <3>1 DEF Ordered
    <3>. QED  BY <3>2, FrameWindow DEF window, Grid
  <2>. QED  BY <2>2, <2>3 DEF NothingStale, Has
<1>2. CASE PreProcess \/ Combine \/ EndImage \/ UNCHANGED vars
  <2>1. Grid(window)' = Grid(window) /\ cache' = cache /\ processed' = processed /\ frame' = frame
    BY <1>2, StepFrame DEF SameFrame, PreProcess, Combine, EndImage, vars, Grid
  <2>. QED  BY <2>1 DEF NothingStale, Has, Neighbour
<1>3. CASE HandOver
  <2>1. /\ Grid(window)' = Grid(window) /\ frame' = frame /\ frame # 0
        /\ processed' = processed \cup {bucket} /\ bucket \in Grid(window)
    <3>1. bucket \in Buckets /\ frame # 0
      BY <1>3 DEF HandOver, Ordered
    <3>. QED  BY <1>3, <3>1, StepFrame, WindowNow DEF SameFrame, HandOver, Grid
  <2>2. ASSUME NEW x \in AllBuckets, x \in processed' \/ x \notin Grid(window)
        PROVE  DOMAIN cache'[x] = {}
    <3>1. CASE x = bucket
      BY <1>3, <3>1, HandOverSides
    <3>2. CASE x # bucket
      <4>1. \A g : ~(Receives(bucket, g) /\ x = Neighbour(bucket, g.nb))
        BY <2>1, <2>2, <3>2 DEF Receives
      <4>2. DOMAIN cache[x] = {}
        BY <2>1, <2>2, <3>2 DEF NothingStale
      <4>3. \A side : side \notin DOMAIN cache'[x]
        BY <1>3, <3>2, <4>1, <4>2, HandOverSides DEF Gives
      <4>. QED  BY <4>3
    <3>. QED  BY <3>1, <3>2
  <2>3. ASSUME NEW x \in Grid(window) \ processed'
        PROVE  /\ "left" \in DOMAIN cache'[x] => Neighbour(x, "left") \in processed'
               /\ "right" \in DOMAIN cache'[x] => Neighbour(x, "right") \in processed'
               /\ "top" \in DOMAIN cache'[x] => Neighbour(x, "above") \in processed'
               /\ "bottom" \in DOMAIN cache'[x] => Neighbour(x, "below") \in processed'
    <3>1. x \in AllBuckets /\ x # bucket /\ x \in Grid(window) \ processed
      BY <2>1, <2>3, WindowNow
    <3>2. /\ x = [x |-> x.x, y |-> x.y] /\ x.x \in Int /\ x.y \in Int
          /\ bucket = [x |-> bucket.x, y |-> bucket.y] /\ bucket.x \in Int /\ bucket.y \in Int
      BY <2>1, <3>1, WindowNow, WindowRegion
    <3>3. \A side : side \in DOMAIN cache'[x] <=>
            side \in DOMAIN cache[x] \/ \E i \in 1 .. 12 : Gives(bucket, Gifts[i], x, side)
      BY <1>3, <3>1, HandOverSides
    <3>4. ASSUME NEW i \in 1 .. 12
          PROVE  /\ Gives(bucket, Gifts[i], x, "left") => Neighbour(x, "left") = bucket
                 /\ Gives(bucket, Gifts[i], x, "right") => Neighbour(x, "right") = bucket
                 /\ Gives(bucket, Gifts[i], x, "top") => Neighbour(x, "above") = bucket
                 /\ Gives(bucket, Gifts[i], x, "bottom") => Neighbour(x, "below") = bucket
      BY <3>2, GiftAcross, NeighbourBack DEF Gives
    <3>. QED  BY <2>1, <3>1, <3>3, <3>4 DEF NothingStale, Has
  <2>. QED  BY <2>1, <2>2, <2>3 DEF NothingStale, Has, Neighbour
<1>. QED  BY <1>1, <1>2, <1>3 DEF Next

(* What the strips keep a bucket from sampling, the neighbours have.       *)
LEMMA StripsCover ==
  ASSUME Ordered, NothingStale, ReachSampled, pc = "loop", pending,
         NEW p \in Support(window, cell)
  PROVE  p \in Positions(SampleRegion(window, cell)) \/ p \in sampled
<1>1. /\ window \in Windows /\ cell \in Buckets /\ processed = {c \in Buckets : Before(c, cell)}
      /\ cell \in Grid(window) \ processed /\ Done = processed
  <2>1. window \in Windows /\ cell \in Buckets /\ processed = {c \in Buckets : Before(c, cell)}
        /\ Buckets \subseteq Grid(window) /\ Done = processed
    BY WindowNow DEF Ordered, Done
  <2>. QED  BY <2>1, WindowRegion, NextBucket DEF Buckets
<1>2. /\ cell = [x |-> cell.x, y |-> cell.y] /\ OnX(window, cell.x) /\ OnY(window, cell.y)
      /\ cell.x \in Int /\ cell.y \in Int
  BY <1>1, WindowRegion DEF Buckets, OnX, OnY, OnAxis
<1>3. XAxis(window) /\ YAxis(window) /\ ShiftX \in Nat /\ ShiftY \in Nat
  BY <1>1, WindowAxes, SizeAssumption
<1>4. ~Has(cell, "right") /\ ~Has(cell, "bottom")
  <2>1. ~Before(Neighbour(cell, "right"), cell) /\ ~Before(Neighbour(cell, "below"), cell)
    BY <1>2 DEF Neighbour, Moved, Before
  <2>. QED  BY <1>1, <2>1 DEF NothingStale
<1>5. /\ p = [x |-> p.x, y |-> p.y] /\ p.x \in Int /\ p.y \in Int
      /\ Left(window, cell) <= p.x /\ p.x < Right(window, cell)
      /\ Top(window, cell) <= p.y /\ p.y < Bottom(window, cell)
      /\ Left(window, cell) \in Int /\ Top(window, cell) \in Int
  BY <1>1, SupportPlaces DEF Buckets
<1>6. CASE Has(cell, "left") /\ ~(Left(window, cell) + 2 * ShiftX <= p.x)
  <2>. DEFINE to == [x |-> cell.x - 1, y |-> cell.y]
  <2>0. Neighbour(cell, "left") = to
    BY <1>2 DEF Neighbour, Moved
  <2>1. to \in processed /\ to \in Buckets
    <3>1. Neighbour(cell, "left") \in processed
      BY <1>1, <1>6 DEF NothingStale
    <3>. QED  BY <1>1, <2>0, <3>1
  <2>2. OnX(window, cell.x - 1)
    BY <1>1, <2>1, WindowRegion DEF Buckets
  <2>3. /\ Left(window, to) <= Left(window, cell)
        /\ Right(window, to) = Left(window, cell) + 2 * ShiftX
    <3>1. /\ Left(window, to) <= Left(window, cell)
          /\ Left(window, cell) = cell.x * XBucketSize - ShiftX
          /\ Right(window, to) = cell.x * XBucketSize + ShiftX
      BY <1>2, <1>3, <2>2, AxisSeam DEF OnX, XAxis, Left, Right
    <3>2. cell.x * XBucketSize \in Int
      BY <1>2, SizeAssumption
    <3>. QED  BY <1>3, <3>1, <3>2
  <2>4. Top(window, to) = Top(window, cell) /\ Bottom(window, to) = Bottom(window, cell)
    BY DEF Top, Bottom
  <2>5. Left(window, to) \in Int
    BY <1>1, <2>1, SupportPlaces DEF Buckets
  <2>6. p \in Support(window, to)
    <3>1. Left(window, to) <= p.x /\ p.x < Right(window, to)
      BY <1>3, <1>5, <1>6, <2>3, <2>5
    <3>. QED  BY <1>1, <1>5, <2>1, <2>4, <3>1, SupportPlaces DEF Buckets
  <2>. QED  BY <1>1, <2>1, <2>6 DEF ReachSampled
<1>7. CASE Has(cell, "top") /\ ~(Top(window, cell) + 2 * ShiftY <= p.y)
  <2>. DEFINE up == [x |-> cell.x, y |-> cell.y - 1]
  <2>0. Neighbour(cell, "above") = up
    BY <1>2 DEF Neighbour, Moved
  <2>1. up \in processed /\ up \in Buckets
    <3>1. Neighbour(cell, "above") \in processed
      BY <1>1, <1>7 DEF NothingStale
    <3>. QED  BY <1>1, <2>0, <3>1
  <2>2. OnY(window, cell.y - 1)
    BY <1>1, <2>1, WindowRegion DEF Buckets
  <2>3. /\ Top(window, up) <= Top(window, cell)
        /\ Bottom(window, up) = Top(window, cell) + 2 * ShiftY
    <3>1. /\ Top(window, up) <= Top(window, cell)
          /\ Top(window, cell) = cell.y * YBucketSize - ShiftY
          /\ Bottom(window, up) = cell.y * YBucketSize + ShiftY
      BY <1>2, <1>3, <2>2, AxisSeam DEF OnY, YAxis, Top, Bottom
    <3>2. cell.y * YBucketSize \in Int
      BY <1>2, SizeAssumption
    <3>. QED  BY <1>3, <3>1, <3>2
  <2>4. Left(window, up) = Left(window, cell) /\ Right(window, up) = Right(window, cell)
    BY DEF Left, Right
  <2>5. Top(window, up) \in Int
    BY <1>1, <2>1, SupportPlaces DEF Buckets
  <2>6. p \in Support(window, up)
    <3>1. Top(window, up) <= p.y /\ p.y < Bottom(window, up)
      BY <1>3, <1>5, <1>7, <2>3, <2>5
    <3>. QED  BY <1>1, <1>5, <2>1, <2>4, <3>1, SupportPlaces DEF Buckets
  <2>. QED  BY <1>1, <2>1, <2>6 DEF ReachSampled
<1>8. CASE /\ Has(cell, "left") => Left(window, cell) + 2 * ShiftX <= p.x
           /\ Has(cell, "top") => Top(window, cell) + 2 * ShiftY <= p.y
  BY <1>1, <1>4, <1>8, SamplePlaces DEF Buckets
<1>. QED  BY <1>6, <1>7, <1>8

LEMMA ReachStep ==
  ASSUME Ordered, NothingStale, ReachSampled, [Next]_vars
  PROVE  ReachSampled'
<1>1. CASE RenderWorld
  BY <1>1 DEF RenderWorld, ReachSampled, Done, Ordered
<1>2. CASE PreProcess
  <2>1. /\ pc = "loop" /\ pending /\ window' = window /\ Done = processed /\ Done' \subseteq processed \cup {cell}
        /\ sampled' = sampled \cup Positions(SampleRegion(window, cell))
    BY <1>2, StepFrame DEF SameFrame, PreProcess, Done, Ordered
  <2>2. Support(window, cell) \subseteq sampled'
    BY <2>1, StripsCover
  <2>. QED  BY <2>1, <2>2 DEF ReachSampled, Support
<1>3. CASE HandOver
  <2>1. window' = window /\ Done' = Done /\ sampled' = sampled
    <3>1. bucket \in Buckets /\ NoBucket \notin Buckets
      BY <1>3, WindowNow, WindowRegion, FirstBucket DEF HandOver, Ordered, Buckets
    <3>. QED  BY <1>3, <3>1, StepFrame DEF SameFrame, HandOver, Done
  <2>. QED  BY <2>1 DEF ReachSampled, Support
<1>4. CASE Combine \/ EndImage \/ UNCHANGED vars
  <2>1. window' = window /\ Done' = Done /\ sampled' = sampled
    BY <1>4, StepFrame DEF SameFrame, Combine, EndImage, vars, Done
  <2>. QED  BY <2>1 DEF ReachSampled, Support
<1>. QED  BY <1>1, <1>2, <1>3, <1>4 DEF Next

LEMMA WholeInvariance == ASSUME OneOrWhole  PROVE Spec => []WholeInv
<1>1. WholeInv /\ [Next]_vars => WholeInv'
  BY OrderedStep, StripsStep, SampledStep, StaleStep, ReachStep DEF WholeInv, SeamInv
<1>. QED  BY <1>1, WholeInit, PTL DEF Spec

(***************************************************************************)
(* setCacheSegment never finds a segment in place, whatever the sizes, as  *)
(* long as no frame leaves strips to the next.  The run pixel_cache_stale  *)
(* shows that it does where the assumption fails.                          *)
(***************************************************************************)
THEOREM SlotsAreFree == ASSUME OneOrWhole  PROVE Spec => []SlotIsFree
<1>1. WholeInv => SlotIsFree
  <2>. SUFFICES ASSUME WholeInv, pc = "filter", NEW i \in DOMAIN Gifts,
                       Gifts[i].from \notin Corners, Receives(bucket, Gifts[i])
                PROVE  ~Has(Neighbour(bucket, Gifts[i].nb), Gifts[i].to)
    BY DEF SlotIsFree
  <2>. DEFINE x == Neighbour(bucket, Gifts[i].nb)
  <2>1. window \in Windows /\ Buckets \subseteq Grid(window)
    BY WindowNow DEF WholeInv, SeamInv
  <2>2. bucket \in Buckets /\ bucket \notin processed
    BY <2>1, WindowRegion, NextBucket DEF WholeInv, SeamInv, Ordered, Buckets
  <2>3. x \in Grid(window) \ processed
    BY DEF Receives
  <2>4. /\ x = [x |-> x.x, y |-> x.y] /\ x.x \in Int /\ x.y \in Int
        /\ bucket = [x |-> bucket.x, y |-> bucket.y] /\ bucket.x \in Int /\ bucket.y \in Int
    BY <2>1, <2>2, <2>3, WindowRegion
  <2>5. i \in 1 .. 12
    BY DEF Gifts
  <2>6. i \in {1, 4, 7, 10}
    BY <2>5, GiftAcross
  <2>7. /\ i = 1 => Neighbour(x, "right") = bucket /\ Gifts[i].to = "right"
        /\ i = 4 => Neighbour(x, "left") = bucket /\ Gifts[i].to = "left"
        /\ i = 7 => Neighbour(x, "below") = bucket /\ Gifts[i].to = "bottom"
        /\ i = 10 => Neighbour(x, "above") = bucket /\ Gifts[i].to = "top"
    BY <2>4, NeighbourBack, GiftList DEF Gift
  <2>. HIDE DEF x
  <2>8. ~Has(x, Gifts[i].to)
    BY <2>2, <2>3, <2>6, <2>7 DEF WholeInv, NothingStale
  <2>. QED  BY <2>8 DEF x
<1>. QED  BY <1>1, WholeInvariance, PTL

(***************************************************************************)
(* A finished image has sampled exactly the positions its filter reaches,  *)
(* for every size and crop window, as long as no frame leaves strips.      *)
(***************************************************************************)
THEOREM NothingIsSkipped == ASSUME OneOrWhole  PROVE Spec => []WholeImageSampled
<1>1. WholeInv => WholeImageSampled
  <2>. DEFINE B == Box(window.crop.xMin - ShiftX, window.crop.yMin - ShiftY,
                       window.crop.xMax + ShiftX, window.crop.yMax + ShiftY)
  <2>. SUFFICES ASSUME WholeInv, pc = "idle", frame > 0  PROVE sampled = Positions(B)
    BY DEF WholeImageSampled
  <2>. USE DEF WholeInv, SeamInv
  <2>1. window \in Windows /\ Done = Buckets
    BY WindowNow DEF Ordered, Done
  <2>2. XAxis(window) /\ YAxis(window)
    BY <2>1, WindowAxes
  <2>3. ASSUME NEW p
        PROVE  p \in Positions(B) <=>
                 /\ p = [x |-> p.x, y |-> p.y] /\ p.x \in Int /\ p.y \in Int
                 /\ window.crop.xMin - ShiftX <= p.x /\ p.x < window.crop.xMax + ShiftX
                 /\ window.crop.yMin - ShiftY <= p.y /\ p.y < window.crop.yMax + ShiftY
    <3>1. /\ window.crop.xMin - ShiftX \in Int /\ window.crop.xMax + ShiftX \in Int
          /\ window.crop.yMin - ShiftY \in Int /\ window.crop.yMax + ShiftY \in Int
      BY <2>2 DEF XAxis, YAxis, Axis
    <3>. QED  BY <3>1, InBox
  <2>4. ASSUME NEW p \in sampled  PROVE p \in Positions(B)
    <3>1. PICK b \in Buckets : p \in Support(window, b)
      BY <2>1 DEF SampledByDone
    <3>2. OnX(window, b.x) /\ OnY(window, b.y)
      BY <2>1, WindowRegion DEF Buckets
    <3>3. /\ window.crop.xMin - ShiftX <= Left(window, b) /\ Right(window, b) <= window.crop.xMax + ShiftX
          /\ window.crop.yMin - ShiftY <= Top(window, b) /\ Bottom(window, b) <= window.crop.yMax + ShiftY
      BY <2>2, <3>2, AxisReach DEF XAxis, YAxis, OnX, OnY, Left, Right, Top, Bottom
    <3>4. /\ p = [x |-> p.x, y |-> p.y] /\ p.x \in Int /\ p.y \in Int
          /\ Left(window, b) <= p.x /\ p.x < Right(window, b) /\ Top(window, b) <= p.y /\ p.y < Bottom(window, b)
          /\ Left(window, b) \in Int /\ Right(window, b) \in Int /\ Top(window, b) \in Int /\ Bottom(window, b) \in Int
      BY <2>1, <3>1, SupportPlaces DEF Buckets
    <3>. QED  BY <2>2, <2>3, <3>3, <3>4 DEF XAxis, YAxis, Axis
  <2>5. ASSUME NEW p \in Positions(B)  PROVE p \in sampled
    <3>1. PICK i \in Nat : /\ OnX(window, i) /\ From(i, XBucketSize, window.crop.xMin, ShiftX) <= p.x
                           /\ p.x < Upto(i, XBucketSize, window.xRes, window.crop.xMax, ShiftX)
      BY <2>2, <2>3, AxisCover DEF XAxis, OnX
    <3>2. PICK j \in Nat : /\ OnY(window, j) /\ From(j, YBucketSize, window.crop.yMin, ShiftY) <= p.y
                           /\ p.y < Upto(j, YBucketSize, window.yRes, window.crop.yMax, ShiftY)
      BY <2>2, <2>3, AxisCover DEF YAxis, OnY
    <3>. DEFINE b == [x |-> i, y |-> j]
    <3>3. b \in Buckets
      BY <2>1, <3>1, <3>2, WindowRegion DEF Buckets
    <3>4. p \in Support(window, b)
      BY <2>1, <2>3, <3>1, <3>2, <3>3, SupportPlaces DEF Buckets, Left, Right, Top, Bottom
    <3>. QED  BY <2>1, <3>3, <3>4 DEF ReachSampled
  <2>. QED  BY <2>4, <2>5
<1>. QED  BY <1>1, WholeInvariance, PTL

-----------------------------------------------------------------------------
(* The regions of the sides. *)

\* The side that a place of the data region belongs to.
SideOf(p) ==
  IF p.x < 2 * ShiftX
  THEN IF p.y < 2 * ShiftY THEN "top_left"
       ELSE IF p.y < Height - 2 * ShiftY THEN "left" ELSE "bottom_left"
  ELSE IF p.x < Width - 2 * ShiftX
  THEN IF p.y < 2 * ShiftY THEN "top"
       ELSE IF p.y < Height - 2 * ShiftY THEN "middle" ELSE "bottom"
  ELSE IF p.y < 2 * ShiftY THEN "top_right"
       ELSE IF p.y < Height - 2 * ShiftY THEN "right" ELSE "bottom_right"

\* The places of a segment, from its own corner.
Local(side) ==
  Positions(Box(0, 0, CacheRegion[side].xMax - CacheRegion[side].xMin,
                      CacheRegion[side].yMax - CacheRegion[side].yMin))

Into(l, side) == Moved(l, CacheRegion[side].xMin, CacheRegion[side].yMin)

LEMMA DataSize ==
  /\ Width \in Nat \ {0} /\ Height \in Nat \ {0} /\ ShiftX \in Nat /\ ShiftY \in Nat
  /\ XBucketSize \in Nat \ {0} /\ YBucketSize \in Nat \ {0}
  /\ Width = XBucketSize + 2 * ShiftX /\ Height = YBucketSize + 2 * ShiftY
  /\ 4 * ShiftX <= Width /\ 4 * ShiftY <= Height
BY SizeAssumption DEF Width, Height

LEMMA DataPlaces ==
  ASSUME NEW p
  PROVE  p \in Data <=> /\ p = [x |-> p.x, y |-> p.y] /\ p.x \in Int /\ p.y \in Int
                        /\ 0 <= p.x /\ p.x < Width /\ 0 <= p.y /\ p.y < Height
BY DataSize DEF Data, Positions, BucketsIn, Box

LEMMA RegionBox ==
  /\ CacheRegion["top_left"] = Box(0, 0, 2 * ShiftX, 2 * ShiftY)
  /\ CacheRegion["top"] = Box(2 * ShiftX, 0, Width - 2 * ShiftX, 2 * ShiftY)
  /\ CacheRegion["top_right"] = Box(Width - 2 * ShiftX, 0, Width, 2 * ShiftY)
  /\ CacheRegion["left"] = Box(0, 2 * ShiftY, 2 * ShiftX, Height - 2 * ShiftY)
  /\ CacheRegion["right"] = Box(Width - 2 * ShiftX, 2 * ShiftY, Width, Height - 2 * ShiftY)
  /\ CacheRegion["bottom_left"] = Box(0, Height - 2 * ShiftY, 2 * ShiftX, Height)
  /\ CacheRegion["bottom"] = Box(2 * ShiftX, Height - 2 * ShiftY, Width - 2 * ShiftX, Height)
  /\ CacheRegion["bottom_right"] = Box(Width - 2 * ShiftX, Height - 2 * ShiftY, Width, Height)
BY DEF CacheRegion, Sides

LEMMA RegionCorners ==
  ASSUME NEW side \in Sides
  PROVE  LET r == CacheRegion[side]
         IN  /\ r.xMin \in Int /\ r.yMin \in Int /\ r.xMax \in Int /\ r.yMax \in Int
             /\ r = Box(r.xMin, r.yMin, r.xMax, r.yMax)
             /\ 0 <= r.xMin /\ r.xMax <= Width /\ 0 <= r.yMin /\ r.yMax <= Height
<1>. USE RegionBox, DataSize DEF Box
<1>1. CASE side \in {"top_left", "top", "top_right"}
  BY <1>1
<1>2. CASE side \in {"left", "right"}
  BY <1>2
<1>3. CASE side \in {"bottom_left", "bottom", "bottom_right"}
  BY <1>3
<1>. QED  BY <1>1, <1>2, <1>3 DEF Sides

(* A place of the data region is in the region of one side or of none.     *)
LEMMA SidePlaces ==
  ASSUME NEW side \in Sides, NEW p
  PROVE  p \in Positions(CacheRegion[side]) <=> p \in Data /\ SideOf(p) = side
<1>1. p \in Positions(CacheRegion[side]) <=>
        /\ p = [x |-> p.x, y |-> p.y] /\ p.x \in Int /\ p.y \in Int
        /\ CacheRegion[side].xMin <= p.x /\ p.x < CacheRegion[side].xMax
        /\ CacheRegion[side].yMin <= p.y /\ p.y < CacheRegion[side].yMax
  BY RegionCorners, InBox
<1>2. CASE side \in {"top_left", "top", "top_right"}
  BY <1>1, <1>2, RegionBox, DataSize, DataPlaces DEF Box, SideOf
<1>3. CASE side \in {"left", "right"}
  BY <1>1, <1>3, RegionBox, DataSize, DataPlaces DEF Box, SideOf
<1>4. CASE side \in {"bottom_left", "bottom", "bottom_right"}
  BY <1>1, <1>4, RegionBox, DataSize, DataPlaces DEF Box, SideOf
<1>. QED  BY <1>2, <1>3, <1>4 DEF Sides

(* Places of a segment and of its region correspond.                       *)
LEMMA LocalPlaces ==
  ASSUME NEW side \in Sides
  PROVE  /\ \A l \in Local(side) : /\ Into(l, side) \in Positions(CacheRegion[side])
                                   /\ l = [x |-> l.x, y |-> l.y] /\ l.x \in Int /\ l.y \in Int
         /\ \A p \in Positions(CacheRegion[side]) :
              LET l == Moved(p, -CornerOf(side).x, -CornerOf(side).y)
              IN  l \in Local(side) /\ Into(l, side) = p
<1>. DEFINE r == CacheRegion[side]
<1>1. /\ r.xMin \in Int /\ r.yMin \in Int /\ r.xMax \in Int /\ r.yMax \in Int
      /\ r = Box(r.xMin, r.yMin, r.xMax, r.yMax)
  BY RegionCorners
<1>2. Local(side) = Positions(Box(0, 0, r.xMax - r.xMin, r.yMax - r.yMin))
  BY DEF Local
<1>3. ASSUME NEW l
      PROVE  l \in Local(side) <=>
               /\ l = [x |-> l.x, y |-> l.y] /\ l.x \in Int /\ l.y \in Int
               /\ 0 <= l.x /\ l.x < r.xMax - r.xMin /\ 0 <= l.y /\ l.y < r.yMax - r.yMin
  <2>1. r.xMax - r.xMin \in Int /\ r.yMax - r.yMin \in Int
    BY <1>1
  <2>. HIDE DEF r
  <2>. QED  BY <1>2, <2>1 DEF Positions, BucketsIn, Box
<1>4. ASSUME NEW p
      PROVE  p \in Positions(r) <=>
               /\ p = [x |-> p.x, y |-> p.y] /\ p.x \in Int /\ p.y \in Int
               /\ r.xMin <= p.x /\ p.x < r.xMax /\ r.yMin <= p.y /\ p.y < r.yMax
  <2>. HIDE DEF r
  <2>. QED  BY <1>1, InBox
<1>5. \A l : Into(l, side) = [x |-> l.x + r.xMin, y |-> l.y + r.yMin]
  BY DEF Into, Moved
<1>6. \A p : Moved(p, -CornerOf(side).x, -CornerOf(side).y) = [x |-> p.x + (-r.xMin), y |-> p.y + (-r.yMin)]
  BY DEF Moved, CornerOf
<1>. HIDE DEF r
<1>7. ASSUME NEW l \in Local(side)
      PROVE  /\ Into(l, side) \in Positions(r)
             /\ l = [x |-> l.x, y |-> l.y] /\ l.x \in Int /\ l.y \in Int
  BY <1>1, <1>3, <1>4, <1>5
<1>8. ASSUME NEW p \in Positions(r)
      PROVE  LET l == Moved(p, -CornerOf(side).x, -CornerOf(side).y)
             IN  l \in Local(side) /\ Into(l, side) = p
  <2>1. PICK l : l = Moved(p, -CornerOf(side).x, -CornerOf(side).y)
    OBVIOUS
  <2>2. l = [x |-> p.x - r.xMin, y |-> p.y - r.yMin] /\ p = [x |-> p.x, y |-> p.y] /\ p.x \in Int /\ p.y \in Int
    BY <1>1, <1>4, <1>6, <2>1
  <2>3. l \in Local(side)
    BY <1>1, <1>3, <1>4, <2>2
  <2>4. Into(l, side) = p
    BY <1>1, <1>5, <2>2
  <2>. QED  BY <2>1, <2>3, <2>4
<1>. QED  BY <1>7, <1>8 DEF r

-----------------------------------------------------------------------------
(* The pixels after a bucket has handed its strips over. *)

\* A pixel allocated before sweep k, and one allocated since for place p.
Older(n, k) == n.sweep \in Nat /\ n.sweep < k
Newer(n, p, k) == n.sweep \in Nat /\ sweep <= n.sweep /\ n.sweep < k /\ n.place = p

\* The segment that is taken out of the image for a side.
Taken(side) == [l \in Local(side) |-> aie[Into(l, side)]]

\* A segment is what it was or was taken out of the image and given away.
FromImage(c, b, M) ==
  \A x \in AllBuckets : \A side \in DOMAIN c[x] :
    \/ side \in DOMAIN cache[x] /\ c[x][side] = cache[x][side]
    \/ \E i \in 1 .. 12 : /\ Gives(b, Gifts[i], x, side)
                          /\ Gifts[i].from \in M /\ c[x][side] = Taken(Gifts[i].from)

Keeps(st, b) ==
  /\ Book(st) /\ st.sweep \in Nat /\ sweep <= st.sweep
  /\ DOMAIN st.made \subseteq Sides /\ DOMAIN st.aie = Data
  /\ \A side \in DOMAIN st.made : st.made[side] = Taken(side)
  /\ \A p \in Data : IF SideOf(p) \in DOMAIN st.made THEN Newer(st.aie[p], p, st.sweep)
                                                    ELSE st.aie[p] = aie[p]
  /\ FromImage(st.cache, b, DOMAIN st.made)

LEMMA GiftFrom == \A i \in 1 .. 12 : Gifts[i].from \in Sides /\ Gifts[i].to \in Sides
<1>1. 1 .. 12 = {1, 2, 3} \cup {4, 5, 6} \cup {7, 8, 9} \cup {10, 11, 12}
  OBVIOUS
<1>2. \A i \in {1, 2, 3} : Gifts[i].from \in Sides /\ Gifts[i].to \in Sides
  BY GiftList DEF Gift, Sides
<1>3. \A i \in {4, 5, 6} : Gifts[i].from \in Sides /\ Gifts[i].to \in Sides
  BY GiftList DEF Gift, Sides
<1>4. \A i \in {7, 8, 9} : Gifts[i].from \in Sides /\ Gifts[i].to \in Sides
  BY GiftList DEF Gift, Sides
<1>5. \A i \in {10, 11, 12} : Gifts[i].from \in Sides /\ Gifts[i].to \in Sides
  BY GiftList DEF Gift, Sides
<1>. QED  BY <1>1, <1>2, <1>3, <1>4, <1>5

(* Taking a strip out of the image puts new pixels in its place.           *)
LEMMA BuiltKeeps ==
  ASSUME NEW b, NEW st, Keeps(st, b), sweep \in Nat, NEW side \in Sides, side \notin DOMAIN st.made
  PROVE  /\ Keeps(Built(st, side), b) /\ Built(st, side).cache = st.cache
         /\ side \in DOMAIN Built(st, side).made
<1>. DEFINE new == Allocate(st.sweep, Positions(CacheRegion[side]))
<1>1. PICK to : to = Built(st, side)
  OBVIOUS
<1>2. /\ DOMAIN to = {"aie", "cache", "sweep", "made"} /\ to.cache = st.cache /\ to.sweep = st.sweep + 1
      /\ to.aie = [p \in Data |-> IF p \in DOMAIN new THEN new[p] ELSE st.aie[p]]
      /\ DOMAIN to.made = DOMAIN st.made \cup {side}
      /\ to.made = [t \in DOMAIN st.made \cup {side} |->
                      IF t = side THEN [l \in Local(side) |-> st.aie[Into(l, side)]] ELSE st.made[t]]
  BY <1>1 DEF Built, Keeps, Book, Local, Into
<1>3. /\ DOMAIN new = Positions(CacheRegion[side])
      /\ \A p \in Positions(CacheRegion[side]) : new[p] = [sweep |-> st.sweep, place |-> p]
  BY DEF Allocate
<1>. HIDE DEF new
<1>4. to.made[side] = Taken(side)
  <2>1. \A l \in Local(side) : Into(l, side) \in Data /\ SideOf(Into(l, side)) = side
    BY LocalPlaces, SidePlaces
  <2>2. \A l \in Local(side) : st.aie[Into(l, side)] = aie[Into(l, side)]
    BY <2>1 DEF Keeps
  <2>. QED  BY <1>2, <2>2 DEF Taken
<1>5. \A t \in DOMAIN to.made : to.made[t] = Taken(t)
  BY <1>2, <1>4 DEF Keeps
<1>6. ASSUME NEW p \in Data
      PROVE  IF SideOf(p) \in DOMAIN to.made THEN Newer(to.aie[p], p, to.sweep) ELSE to.aie[p] = aie[p]
  <2>1. CASE SideOf(p) = side
    <3>1. to.aie[p] = [sweep |-> st.sweep, place |-> p]
      BY <1>2, <1>3, <2>1, SidePlaces
    <3>. QED  BY <1>2, <2>1, <3>1 DEF Newer, Keeps
  <2>2. CASE SideOf(p) # side
    <3>1. to.aie[p] = st.aie[p]
      BY <1>2, <1>3, <2>2, SidePlaces
    <3>. QED  BY <1>2, <2>2, <3>1 DEF Newer, Keeps
  <2>. QED  BY <2>1, <2>2
<1>7. FromImage(to.cache, b, DOMAIN to.made)
  BY <1>2 DEF Keeps, FromImage
<1>8. to.sweep \in Nat /\ sweep <= to.sweep /\ Book(to) /\ DOMAIN to.aie = Data
      /\ DOMAIN to.made \subseteq Sides
  BY <1>2 DEF Keeps, Book
<1>9. Keeps(to, b)
  BY <1>5, <1>6, <1>7, <1>8 DEF Keeps
<1>. QED  BY <1>1, <1>2, <1>9

LEMMA GiveKeeps ==
  ASSUME NEW b, NEW st, Keeps(st, b), sweep \in Nat, Grid(window) \subseteq AllBuckets,
         NEW i \in 1 .. 12
  PROVE  Keeps(Give(st, b, Gifts[i]), b)
<1>. PICK g : g = Gifts[i]
  OBVIOUS
<1>. PICK nb : nb = Neighbour(b, g.nb)
  OBVIOUS
<1>1. PICK have : have = IF g.from \in DOMAIN st.made THEN st ELSE Built(st, g.from)
  OBVIOUS
<1>2. Keeps(have, b) /\ have.cache = st.cache /\ g.from \in DOMAIN have.made
  BY <1>1, BuiltKeeps, GiftFrom
<1>3. Give(st, b, g) = IF ~Receives(b, g) \/ (g.from \in Corners /\ g.to \in DOMAIN st.cache[nb])
                       THEN st ELSE Set(have, nb, g.to, have.made[g.from])
  BY <1>1 DEF Give
<1>4. CASE ~Receives(b, g) \/ (g.from \in Corners /\ g.to \in DOMAIN st.cache[nb])
  BY <1>3, <1>4
<1>5. CASE Receives(b, g) /\ ~(g.from \in Corners /\ g.to \in DOMAIN st.cache[nb])
  <2>1. PICK to : to = Set(have, nb, g.to, have.made[g.from])
    OBVIOUS
  <2>2. nb \in AllBuckets
    BY <1>5 DEF Receives
  <2>3. /\ DOMAIN to = {"aie", "cache", "sweep", "made"} /\ to.aie = have.aie /\ to.sweep = have.sweep
        /\ to.made = have.made /\ DOMAIN to.cache = AllBuckets
        /\ \A x \in AllBuckets : x # nb => to.cache[x] = have.cache[x]
        /\ to.cache[nb] = [t \in DOMAIN have.cache[nb] \cup {g.to} |->
                             IF t = g.to THEN have.made[g.from] ELSE have.cache[nb][t]]
    BY <1>2, <2>1, <2>2 DEF Set, Keeps, Book
  <2>4. FromImage(to.cache, b, DOMAIN to.made)
    <3>. SUFFICES ASSUME NEW x \in AllBuckets, NEW side \in DOMAIN to.cache[x]
                  PROVE  \/ side \in DOMAIN cache[x] /\ to.cache[x][side] = cache[x][side]
                         \/ \E k \in 1 .. 12 : /\ Gives(b, Gifts[k], x, side)
                                               /\ Gifts[k].from \in DOMAIN to.made
                                               /\ to.cache[x][side] = Taken(Gifts[k].from)
      BY DEF FromImage
    <3>1. CASE x = nb /\ side = g.to
      <4>1. to.cache[x][side] = Taken(g.from)
        BY <1>2, <2>3, <3>1 DEF Keeps
      <4>. QED  BY <1>2, <1>5, <2>3, <3>1, <4>1 DEF Gives
    <3>2. CASE ~(x = nb /\ side = g.to)
      <4>1. side \in DOMAIN have.cache[x] /\ to.cache[x][side] = have.cache[x][side]
        BY <2>3, <3>2
      <4>. QED  BY <1>2, <2>3, <4>1 DEF Keeps, FromImage
    <3>. QED  BY <3>1, <3>2
  <2>5. Keeps(to, b)
    BY <1>2, <2>3, <2>4 DEF Keeps, Book
  <2>. QED  BY <1>3, <1>5, <2>1, <2>5
<1>. QED  BY <1>4, <1>5

LEMMA ThreeKeeps ==
  ASSUME NEW b, NEW st, Keeps(st, b), sweep \in Nat, Grid(window) \subseteq AllBuckets,
         NEW i \in 1 .. 10
  PROVE  Keeps(GiveThree(st, b, i), b)
<1>1. PICK s1 : s1 = Give(st, b, Gifts[i])
  OBVIOUS
<1>2. PICK s2 : s2 = Give(s1, b, Gifts[i + 1])
  OBVIOUS
<1>3. PICK s3 : s3 = Give(s2, b, Gifts[i + 2])
  OBVIOUS
<1>4. i \in 1 .. 12 /\ i + 1 \in 1 .. 12 /\ i + 2 \in 1 .. 12
  OBVIOUS
<1>5. Keeps(s1, b)
  BY <1>1, <1>4, GiveKeeps
<1>6. Keeps(s2, b)
  BY <1>2, <1>4, <1>5, GiveKeeps
<1>7. Keeps(s3, b)
  BY <1>3, <1>4, <1>6, GiveKeeps
<1>. QED  BY <1>1, <1>2, <1>3, <1>7 DEF GiveThree

\* A place that a segment of b was applied to.
Lent(b, p) == SideOf(p) \in DOMAIN cache[b]

(* After it all the image has its own pixels or new ones, and the segments *)
(* are those from before or taken out of it.                               *)
LEMMA HandedPixels ==
  ASSUME NEW b \in AllBuckets, sweep \in Nat, DOMAIN aie = Data, DOMAIN cache = AllBuckets,
         DOMAIN cache[b] \subseteq Sides, Grid(window) \subseteq AllBuckets
  PROVE  LET h == HandedOver(b)
         IN  /\ h.sweep \in Nat /\ sweep < h.sweep /\ DOMAIN h.aie = Data
             /\ \E M \in SUBSET Sides :
                  /\ \A p \in Data : IF SideOf(p) \in M \/ Lent(b, p) THEN Newer(h.aie[p], p, h.sweep)
                                                                     ELSE h.aie[p] = aie[p]
                  /\ FromImage(h.cache, b, M)
<1>. PICK s0 : s0 = [aie |-> aie, cache |-> cache, sweep |-> sweep, made |-> NoSegments]
  OBVIOUS
<1>. PICK s3 : s3 = GiveThree(s0, b, 1)
  OBVIOUS
<1>. PICK s6 : s6 = GiveThree(s3, b, 4)
  OBVIOUS
<1>. PICK s9 : s9 = GiveThree(s6, b, 7)
  OBVIOUS
<1>. PICK st : st = GiveThree(s9, b, 10)
  OBVIOUS
<1>1. Keeps(s0, b)
  BY DEF Keeps, Book, NoSegments, FromImage
<1>2. Keeps(s3, b)
  BY <1>1, ThreeKeeps
<1>3. Keeps(s6, b)
  BY <1>2, ThreeKeeps
<1>4. Keeps(s9, b)
  BY <1>3, ThreeKeeps
<1>5. Keeps(st, b)
  BY <1>4, ThreeKeeps
<1>6. PICK h : h = HandedOver(b)
  OBVIOUS
<1>7. h = Dropped(st, b)
  BY <1>6, Zenon DEF HandedOver
<1>. DEFINE gone == UNION {Positions(CacheRegion[side]) : side \in DOMAIN cache[b]}
            new == Allocate(st.sweep, gone)
<1>8. /\ h.sweep = st.sweep + 1 /\ h.cache = st.cache
      /\ h.aie = [p \in Data |-> IF p \in gone THEN new[p] ELSE st.aie[p]]
  BY <1>5, <1>7 DEF Dropped, Keeps, Book
<1>9. \A p \in gone : new[p] = [sweep |-> st.sweep, place |-> p]
  BY DEF Allocate
<1>10. ASSUME NEW p \in Data  PROVE p \in gone <=> Lent(b, p)
  <2>1. \A side \in DOMAIN cache[b] : p \in Positions(CacheRegion[side]) <=> SideOf(p) = side
    BY SidePlaces
  <2>. QED  BY <2>1 DEF Lent
<1>. HIDE DEF gone, new
<1>11. ASSUME NEW p \in Data
       PROVE  IF SideOf(p) \in DOMAIN st.made \/ Lent(b, p) THEN Newer(h.aie[p], p, h.sweep)
                                                          ELSE h.aie[p] = aie[p]
  <2>1. CASE Lent(b, p)
    <3>1. h.aie[p] = [sweep |-> st.sweep, place |-> p]
      BY <1>8, <1>9, <1>10, <2>1
    <3>. QED  BY <1>5, <1>8, <2>1, <3>1 DEF Keeps, Newer
  <2>2. CASE ~Lent(b, p)
    <3>1. h.aie[p] = st.aie[p]
      BY <1>8, <1>10, <2>2
    <3>. QED  BY <1>5, <1>8, <2>2, <3>1 DEF Keeps, Newer
  <2>. QED  BY <2>1, <2>2
<1>12. h.sweep \in Nat /\ sweep < h.sweep /\ DOMAIN h.aie = Data
  BY <1>5, <1>8 DEF Keeps
<1>13. FromImage(h.cache, b, DOMAIN st.made) /\ DOMAIN st.made \in SUBSET Sides
  BY <1>5, <1>8 DEF Keeps
<1>. QED  BY <1>6, <1>11, <1>12, <1>13

-----------------------------------------------------------------------------
(* A strip of a bucket is as large as the strip of the neighbour that it   *)
(* becomes, and lies at the same raster positions.                         *)

Raster(b, p) == Moved(p, b.x * XBucketSize - ShiftX, b.y * YBucketSize - ShiftY)

LEMMA GiftSizes == \A i \in 1 .. 12 : Local(Gifts[i].from) = Local(Gifts[i].to)
<1>. DEFINE Same(s, t) == Local(s) = Local(t)
<1>1. Same("left", "right") /\ Same("right", "left") /\ Same("top", "bottom") /\ Same("bottom", "top")
  BY RegionBox, DataSize DEF Local, Box
<1>2. \A s, t \in Corners : Same(s, t)
  <2>. DEFINE L == Positions(Box(0, 0, 2 * ShiftX, 2 * ShiftY))
  <2>1. Local("top_left") = L /\ Local("top_right") = L
    BY RegionBox, DataSize DEF Local, Box
  <2>2. Local("bottom_left") = L /\ Local("bottom_right") = L
    BY RegionBox, DataSize DEF Local, Box
  <2>. HIDE DEF L
  <2>. QED  BY <2>1, <2>2 DEF Corners
<1>. HIDE DEF Same
<1>3. 1 .. 12 = {1, 2, 3} \cup {4, 5, 6} \cup {7, 8, 9} \cup {10, 11, 12}
  OBVIOUS
<1>4. \A i \in {1, 2, 3} : Same(Gifts[i].from, Gifts[i].to)
  BY <1>1, <1>2, GiftList DEF Gift, Corners
<1>5. \A i \in {4, 5, 6} : Same(Gifts[i].from, Gifts[i].to)
  BY <1>1, <1>2, GiftList DEF Gift, Corners
<1>6. \A i \in {7, 8, 9} : Same(Gifts[i].from, Gifts[i].to)
  BY <1>1, <1>2, GiftList DEF Gift, Corners
<1>7. \A i \in {10, 11, 12} : Same(Gifts[i].from, Gifts[i].to)
  BY <1>1, <1>2, GiftList DEF Gift, Corners
<1>. QED  BY <1>3, <1>4, <1>5, <1>6, <1>7 DEF Same

\* How far the corner of the strip lies from that of the neighbour's, in
\* buckets.
LEMMA GiftCorners ==
  ASSUME NEW i \in 1 .. 12
  PROVE  LET f == CacheRegion[Gifts[i].from]  t == CacheRegion[Gifts[i].to]  nb == Gifts[i].nb
         IN  /\ nb = "left" => f.xMin = t.xMin - XBucketSize /\ f.yMin = t.yMin
             /\ nb = "right" => f.xMin = t.xMin + XBucketSize /\ f.yMin = t.yMin
             /\ nb = "above" => f.xMin = t.xMin /\ f.yMin = t.yMin - YBucketSize
             /\ nb = "below" => f.xMin = t.xMin /\ f.yMin = t.yMin + YBucketSize
             /\ nb \in {"left", "right", "above", "below"}
<1>. DEFINE X(s) == CacheRegion[s].xMin  Y(s) == CacheRegion[s].yMin
<1>1. /\ X("top_left") = 0 /\ X("left") = 0 /\ X("bottom_left") = 0
      /\ X("top") = 2 * ShiftX /\ X("bottom") = 2 * ShiftX
      /\ X("top_right") = XBucketSize /\ X("right") = XBucketSize /\ X("bottom_right") = XBucketSize
      /\ Y("top_left") = 0 /\ Y("top") = 0 /\ Y("top_right") = 0
      /\ Y("left") = 2 * ShiftY /\ Y("right") = 2 * ShiftY
      /\ Y("bottom_left") = YBucketSize /\ Y("bottom") = YBucketSize /\ Y("bottom_right") = YBucketSize
  BY RegionBox, DataSize DEF Box
<1>. HIDE DEF X, Y
<1>. DEFINE Fits(f, t, nb) == /\ nb = "left" => X(f) = X(t) - XBucketSize /\ Y(f) = Y(t)
                              /\ nb = "right" => X(f) = X(t) + XBucketSize /\ Y(f) = Y(t)
                              /\ nb = "above" => X(f) = X(t) /\ Y(f) = Y(t) - YBucketSize
                              /\ nb = "below" => X(f) = X(t) /\ Y(f) = Y(t) + YBucketSize
                              /\ nb \in {"left", "right", "above", "below"}
<1>2. i \in {1, 2, 3} \/ i \in {4, 5, 6} \/ i \in {7, 8, 9} \/ i \in {10, 11, 12}
  OBVIOUS
<1>3. CASE i \in {1, 2, 3}
  <2>1. Fits(Gifts[i].from, Gifts[i].to, Gifts[i].nb)
    BY <1>1, <1>3, GiftList, DataSize DEF Gift
  <2>. QED  BY <2>1 DEF X, Y
<1>4. CASE i \in {4, 5, 6}
  <2>1. Fits(Gifts[i].from, Gifts[i].to, Gifts[i].nb)
    BY <1>1, <1>4, GiftList, DataSize DEF Gift
  <2>. QED  BY <2>1 DEF X, Y
<1>5. CASE i \in {7, 8, 9}
  <2>1. Fits(Gifts[i].from, Gifts[i].to, Gifts[i].nb)
    BY <1>1, <1>5, GiftList, DataSize DEF Gift
  <2>. QED  BY <2>1 DEF X, Y
<1>6. CASE i \in {10, 11, 12}
  <2>1. Fits(Gifts[i].from, Gifts[i].to, Gifts[i].nb)
    BY <1>1, <1>6, GiftList, DataSize DEF Gift
  <2>. QED  BY <2>1 DEF X, Y
<1>. QED  BY <1>2, <1>3, <1>4, <1>5, <1>6

LEMMA GiftPlaces ==
  ASSUME NEW i \in 1 .. 12, NEW b, b.x \in Int, b.y \in Int, NEW x, x = Neighbour(b, Gifts[i].nb),
         NEW l \in Local(Gifts[i].to)
  PROVE  Raster(b, Into(l, Gifts[i].from)) = Raster(x, Into(l, Gifts[i].to))
<1>. DEFINE f == CacheRegion[Gifts[i].from]  t == CacheRegion[Gifts[i].to]
<1>1. f.xMin \in Int /\ f.yMin \in Int /\ t.xMin \in Int /\ t.yMin \in Int /\ l.x \in Int /\ l.y \in Int
  BY GiftFrom, RegionCorners, LocalPlaces
<1>2. PICK fx, fy, tx, ty : fx = f.xMin /\ fy = f.yMin /\ tx = t.xMin /\ ty = t.yMin
  OBVIOUS
<1>3. /\ Into(l, Gifts[i].from) = [x |-> l.x + fx, y |-> l.y + fy]
      /\ Into(l, Gifts[i].to) = [x |-> l.x + tx, y |-> l.y + ty]
  BY <1>2 DEF Into, Moved
<1>4. /\ Raster(b, Into(l, Gifts[i].from)) = [x |-> l.x + fx + (b.x * XBucketSize - ShiftX),
                                              y |-> l.y + fy + (b.y * YBucketSize - ShiftY)]
      /\ Raster(x, Into(l, Gifts[i].to)) = [x |-> l.x + tx + (x.x * XBucketSize - ShiftX),
                                            y |-> l.y + ty + (x.y * YBucketSize - ShiftY)]
  BY <1>3 DEF Raster, Moved
<1>5. /\ b.x * XBucketSize \in Int /\ b.y * YBucketSize \in Int
      /\ (b.x + 1) * XBucketSize = b.x * XBucketSize + XBucketSize
      /\ (b.y + 1) * YBucketSize = b.y * YBucketSize + YBucketSize
      /\ (b.x + -1) * XBucketSize = b.x * XBucketSize - XBucketSize
      /\ (b.y + -1) * YBucketSize = b.y * YBucketSize - YBucketSize
  BY DataSize
<1>6. fx \in Int /\ fy \in Int /\ tx \in Int /\ ty \in Int /\ ShiftX \in Nat /\ ShiftY \in Nat
      /\ XBucketSize \in Nat /\ YBucketSize \in Nat
  BY <1>1, <1>2, DataSize
<1>7. /\ Gifts[i].nb = "left" => fx = tx - XBucketSize /\ fy = ty
      /\ Gifts[i].nb = "right" => fx = tx + XBucketSize /\ fy = ty
      /\ Gifts[i].nb = "above" => fx = tx /\ fy = ty - YBucketSize
      /\ Gifts[i].nb = "below" => fx = tx /\ fy = ty + YBucketSize
      /\ Gifts[i].nb \in {"left", "right", "above", "below"}
  BY <1>2, GiftCorners
<1>8. CASE Gifts[i].nb = "left"
  BY <1>1, <1>4, <1>5, <1>6, <1>7, <1>8 DEF Neighbour, Moved
<1>9. CASE Gifts[i].nb = "right"
  BY <1>1, <1>4, <1>5, <1>6, <1>7, <1>9 DEF Neighbour, Moved
<1>10. CASE Gifts[i].nb = "above"
  BY <1>1, <1>4, <1>5, <1>6, <1>7, <1>10 DEF Neighbour, Moved
<1>11. CASE Gifts[i].nb = "below"
  BY <1>1, <1>4, <1>5, <1>6, <1>7, <1>11 DEF Neighbour, Moved
<1>. QED  BY <1>7, <1>8, <1>9, <1>10, <1>11

-----------------------------------------------------------------------------
(* Who refers to a pixel. *)

\* The pixel that the segments of b have for a place.
LentPixel(b, p) == cache[b][SideOf(p)][Moved(p, -CornerOf(SideOf(p)).x, -CornerOf(SideOf(p)).y)]

\* No segment in c refers to the pixel n.
Unshared(n, c) ==
  \A x \in AllBuckets : \A side \in DOMAIN c[x] : \A l \in DOMAIN c[x][side] : c[x][side][l] # n

\* The pixel a has at p is nowhere else.
Alone(a, p, c) == (\A q \in Data : a[q] = a[p] => q = p) /\ Unshared(a[p], c)

SegmentsKept ==
  /\ sweep \in Nat /\ DOMAIN cache = AllBuckets
  /\ \A x \in AllBuckets : DOMAIN cache[x] \subseteq Sides
  /\ \A x \in AllBuckets : \A side \in DOMAIN cache[x] :
       DOMAIN cache[x][side] = Local(side) /\ \A l \in Local(side) : Older(cache[x][side][l], sweep)

ImageKept ==
  /\ aie # NoSegments => DOMAIN aie = Data /\ \A p \in Data : Older(aie[p], sweep)
  /\ pc \in {"combine", "filter"} => aie # NoSegments

OwnPixels ==
  /\ pc = "loop" /\ aie # NoSegments => \A p \in Data : Alone(aie, p, cache)
  /\ pc \in {"combine", "filter"} =>
       \A p \in Data : IF Lent(bucket, p) THEN aie[p] = LentPixel(bucket, p)
                                          ELSE Alone(aie, p, cache)

PixelsInv == SegmentsKept /\ ImageKept /\ OwnPixels /\ DOMAIN pixel = Referred(aie, cache)

LEMMA Somewhere == [x |-> 0, y |-> 0] \in Data /\ \A a : DOMAIN a = Data => a # NoSegments
<1>1. [x |-> 0, y |-> 0] \in Data
  BY DataSize, DataPlaces
<1>. QED  BY <1>1 DEF NoSegments

LEMMA PixelsInit == Init => PixelsInv
<1>. SUFFICES ASSUME Init  PROVE PixelsInv
  OBVIOUS
<1>1. DOMAIN NoSegments = {} /\ Range(NoSegments) = {}
  BY DEF NoSegments, Range
<1>2. /\ DOMAIN cache = AllBuckets /\ \A x \in AllBuckets : DOMAIN cache[x] = {}
      /\ sweep = 0 /\ aie = NoSegments /\ pixel = NoSegments /\ pc = "idle"
  BY <1>1 DEF Init
<1>3. Referred(aie, cache) = {}
  BY <1>1, <1>2 DEF Referred
<1>. QED  BY <1>1, <1>2, <1>3 DEF PixelsInv, SegmentsKept, ImageKept, OwnPixels

(* The image that preProcess works on, before it applies the segments.     *)
ImageNow == IF aie = NoSegments THEN Allocate(sweep, Data) ELSE aie

LEMMA ImageBefore ==
  ASSUME PixelsInv, PreProcess
  PROVE  /\ DOMAIN ImageNow = Data /\ sweep' \in Nat /\ sweep <= sweep'
         /\ \A p \in Data : Older(ImageNow[p], sweep') /\ Alone(ImageNow, p, cache)
<1>1. CASE aie = NoSegments
  <2>1. /\ DOMAIN ImageNow = Data /\ sweep' = sweep + 1 /\ sweep \in Nat
        /\ \A p \in Data : ImageNow[p] = [sweep |-> sweep, place |-> p]
    BY <1>1 DEF ImageNow, Allocate, PreProcess, PixelsInv, SegmentsKept
  <2>2. ASSUME NEW p \in Data  PROVE Alone(ImageNow, p, cache)
    <3>1. \A q \in Data : ImageNow[q] = ImageNow[p] => q = p
      <4>1. \A q \in Data : ImageNow[q].place = q
        BY <2>1
      <4>. QED  BY <4>1
    <3>2. ASSUME NEW x \in AllBuckets, NEW side \in DOMAIN cache[x], NEW l \in DOMAIN cache[x][side]
          PROVE  cache[x][side][l] # ImageNow[p]
      <4>1. Older(cache[x][side][l], sweep)
        BY DEF PixelsInv, SegmentsKept
      <4>2. ImageNow[p].sweep = sweep
        BY <2>1
      <4>. QED  BY <2>1, <4>1, <4>2 DEF Older
    <3>. QED  BY <3>1, <3>2 DEF Alone, Unshared
  <2>. QED  BY <2>1, <2>2 DEF Older
<1>2. CASE aie # NoSegments
  <2>1. ImageNow = aie /\ sweep' = sweep /\ pc = "loop"
    BY <1>2 DEF ImageNow, PreProcess
  <2>2. /\ DOMAIN aie = Data /\ sweep \in Nat
        /\ \A p \in Data : Older(aie[p], sweep) /\ Alone(aie, p, cache)
    BY <1>2, <2>1 DEF PixelsInv, SegmentsKept, ImageKept, OwnPixels
  <2>. QED  BY <2>1, <2>2
<1>. QED  BY <1>1, <1>2

LEMMA ImageAfter ==
  ASSUME PixelsInv, PreProcess, cell \in AllBuckets
  PROVE  /\ DOMAIN aie' = Data /\ bucket' = cell /\ cache' = cache /\ pc' = "combine"
         /\ \A p \in Data : aie'[p] = IF Lent(cell, p) THEN LentPixel(cell, p) ELSE ImageNow[p]
<1>1. aie' = WithSegments(ImageNow, cell) /\ bucket' = cell /\ cache' = cache /\ pc' = "combine"
  BY DEF PreProcess, ImageNow
<1>. DEFINE SidesAt(p) == {side \in DOMAIN cache[cell] : p \in Positions(CacheRegion[side])}
            At(p) == LET side == CHOOSE side \in SidesAt(p) : TRUE
                     IN  cache[cell][side][Moved(p, -CornerOf(side).x, -CornerOf(side).y)]
<1>2. aie' = [p \in Data |-> IF SidesAt(p) # {} THEN At(p) ELSE ImageNow[p]]
  BY <1>1 DEF WithSegments
<1>3. DOMAIN cache[cell] \subseteq Sides
  BY DEF PixelsInv, SegmentsKept
<1>4. ASSUME NEW p \in Data  PROVE SidesAt(p) = IF Lent(cell, p) THEN {SideOf(p)} ELSE {}
  <2>1. \A side \in DOMAIN cache[cell] : p \in Positions(CacheRegion[side]) <=> SideOf(p) = side
    BY <1>3, SidePlaces
  <2>. QED  BY <2>1 DEF Lent
<1>5. ASSUME NEW p \in Data, Lent(cell, p)  PROVE At(p) = LentPixel(cell, p)
  <2>1. SidesAt(p) = {SideOf(p)}
    BY <1>4, <1>5
  <2>2. (CHOOSE side \in SidesAt(p) : TRUE) = SideOf(p)
    BY <2>1
  <2>. QED  BY <2>2 DEF LentPixel
<1>. HIDE DEF SidesAt, At
<1>. QED  BY <1>1, <1>2, <1>4, <1>5

LEMMA LentOne ==
  ASSUME SegmentsKept, NEW b \in AllBuckets, NEW p \in Data, Lent(b, p)
  PROVE  /\ SideOf(p) \in Sides /\ Older(LentPixel(b, p), sweep)
         /\ \A n : Unshared(n, cache) => n # LentPixel(b, p)
<1>. PICK l : l = Moved(p, -CornerOf(SideOf(p)).x, -CornerOf(SideOf(p)).y)
  OBVIOUS
<1>1. SideOf(p) \in DOMAIN cache[b] /\ SideOf(p) \in Sides
  BY DEF Lent, SegmentsKept
<1>2. l \in Local(SideOf(p))
  BY <1>1, SidePlaces, LocalPlaces
<1>3. DOMAIN cache[b][SideOf(p)] = Local(SideOf(p)) /\ Older(cache[b][SideOf(p)][l], sweep)
  BY <1>1, <1>2 DEF SegmentsKept
<1>. QED  BY <1>1, <1>2, <1>3 DEF LentPixel, Unshared

LEMMA OwnPreProcess ==
  ASSUME PixelsInv, PreProcess, cell \in AllBuckets
  PROVE  PixelsInv'
<1>1. /\ DOMAIN aie' = Data /\ bucket' = cell /\ cache' = cache /\ pc' = "combine"
      /\ \A p \in Data : aie'[p] = IF Lent(cell, p) THEN LentPixel(cell, p) ELSE ImageNow[p]
  BY ImageAfter
<1>2. /\ DOMAIN ImageNow = Data /\ sweep' \in Nat /\ sweep <= sweep' /\ sweep \in Nat
      /\ \A p \in Data : Older(ImageNow[p], sweep') /\ Alone(ImageNow, p, cache)
  BY ImageBefore DEF PixelsInv, SegmentsKept
<1>3. \A n : Older(n, sweep) => Older(n, sweep')
  BY <1>2 DEF Older
<1>. PICK image : image = ImageNow
  OBVIOUS
<1>4. \A p \in Data : Lent(cell, p) => /\ Older(LentPixel(cell, p), sweep')
                                       /\ \A n : Unshared(n, cache) => n # LentPixel(cell, p)
  BY <1>3, LentOne DEF PixelsInv
<1>5. \A p \in Data : Older(aie'[p], sweep')
  BY <1>1, <1>2, <1>4
<1>6. ASSUME NEW p \in Data, ~Lent(cell, p)  PROVE Alone(aie', p, cache)
  <2>1. aie'[p] = image[p] /\ Alone(image, p, cache)
    BY <1>1, <1>2, <1>6
  <2>2. \A q \in Data : aie'[q] = aie'[p] => q = p
    BY <1>1, <1>4, <2>1 DEF Alone
  <2>. QED  BY <2>1, <2>2 DEF Alone
<1>7. SegmentsKept'
  BY <1>1, <1>2, <1>3 DEF PixelsInv, SegmentsKept, Older
<1>8. ImageKept'
  BY <1>1, <1>5, Somewhere DEF ImageKept, Older
<1>9. OwnPixels'
  <2>1. \A p \in Data : IF Lent(cell, p) THEN aie'[p] = LentPixel(cell, p) ELSE Alone(aie', p, cache)
    BY <1>1, <1>6
  <2>. QED  BY <1>1, <2>1 DEF OwnPixels, Lent, LentPixel, Alone, Unshared
<1>10. DOMAIN pixel' = Referred(aie', cache')
  BY <1>1 DEF PreProcess, Holding
<1>. QED  BY <1>7, <1>8, <1>9, <1>10 DEF PixelsInv, Referred

(* Each pixel of the segments that a bucket leaves is one that a segment   *)
(* had before, or one of the image at a place that has a new pixel now.    *)
LEMMA HandedOwners ==
  ASSUME PixelsInv, Ordered, HandOver
  PROVE  \E M \in SUBSET Sides :
           /\ sweep' \in Nat /\ sweep < sweep' /\ DOMAIN aie' = Data /\ DOMAIN aie = Data
           /\ \A p \in Data : IF SideOf(p) \in M \/ Lent(bucket, p) THEN Newer(aie'[p], p, sweep')
                                                                  ELSE aie'[p] = aie[p]
           /\ DOMAIN cache' = AllBuckets /\ DOMAIN cache'[bucket] = {}
           /\ \A x \in AllBuckets : \A side \in DOMAIN cache'[x] :
                \/ side \in DOMAIN cache[x] /\ cache'[x][side] = cache[x][side]
                \/ \E i \in 1 .. 12 : /\ Gives(bucket, Gifts[i], x, side)
                                      /\ Gifts[i].from \in M /\ cache'[x][side] = Taken(Gifts[i].from)
<1>1. /\ bucket \in AllBuckets /\ Grid(window) \subseteq AllBuckets /\ DOMAIN cache = AllBuckets
      /\ sweep \in Nat /\ DOMAIN cache[bucket] \subseteq Sides /\ DOMAIN aie = Data
  <2>1. bucket \in Buckets /\ aie # NoSegments
    BY DEF HandOver, Ordered, PixelsInv, ImageKept
  <2>. QED  BY <2>1, WindowNow DEF PixelsInv, SegmentsKept, ImageKept
<1>2. PICK h : h = HandedOver(bucket)
  OBVIOUS
<1>3. aie' = h.aie /\ sweep' = h.sweep /\ cache' = ClearCache(h.cache, bucket)
  BY <1>2 DEF HandOver
<1>4. DOMAIN h.cache = AllBuckets
  BY <1>1, <1>2, HandedSides
<1>5. DOMAIN cache' = AllBuckets /\ DOMAIN cache'[bucket] = {} /\ \A x \in AllBuckets : x # bucket => cache'[x] = h.cache[x]
  BY <1>1, <1>3, <1>4 DEF ClearCache, NoSegments
<1>6. /\ h.sweep \in Nat /\ sweep < h.sweep /\ DOMAIN h.aie = Data
      /\ \E M \in SUBSET Sides :
           /\ \A p \in Data : IF SideOf(p) \in M \/ Lent(bucket, p) THEN Newer(h.aie[p], p, h.sweep)
                                                                  ELSE h.aie[p] = aie[p]
           /\ FromImage(h.cache, bucket, M)
  BY <1>1, <1>2, HandedPixels
<1>7. PICK M \in SUBSET Sides :
           /\ \A p \in Data : IF SideOf(p) \in M \/ Lent(bucket, p) THEN Newer(h.aie[p], p, h.sweep)
                                                                  ELSE h.aie[p] = aie[p]
           /\ FromImage(h.cache, bucket, M)
  BY <1>6
<1>8. \A x \in AllBuckets : \A side \in DOMAIN cache'[x] :
        \/ side \in DOMAIN cache[x] /\ cache'[x][side] = cache[x][side]
        \/ \E i \in 1 .. 12 : /\ Gives(bucket, Gifts[i], x, side)
                              /\ Gifts[i].from \in M /\ cache'[x][side] = Taken(Gifts[i].from)
  BY <1>5, <1>7 DEF FromImage
<1>. QED  BY <1>1, <1>3, <1>5, <1>6, <1>7, <1>8

LEMMA TakenFits ==
  ASSUME NEW i \in 1 .. 12
  PROVE  /\ DOMAIN Taken(Gifts[i].from) = Local(Gifts[i].to) /\ Gifts[i].to \in Sides
         /\ \A l \in Local(Gifts[i].to) : /\ Into(l, Gifts[i].from) \in Data
                                          /\ SideOf(Into(l, Gifts[i].from)) = Gifts[i].from
                                          /\ Taken(Gifts[i].from)[l] = aie[Into(l, Gifts[i].from)]
<1>1. Local(Gifts[i].from) = Local(Gifts[i].to) /\ Gifts[i].from \in Sides /\ Gifts[i].to \in Sides
  BY GiftSizes, GiftFrom
<1>2. \A l \in Local(Gifts[i].from) : Into(l, Gifts[i].from) \in Data /\ SideOf(Into(l, Gifts[i].from)) = Gifts[i].from
  BY <1>1, LocalPlaces, SidePlaces
<1>. QED  BY <1>1, <1>2 DEF Taken

LEMMA OwnHandOver ==
  ASSUME PixelsInv, Ordered, HandOver
  PROVE  PixelsInv'
<1>1. PICK M \in SUBSET Sides :
           /\ sweep' \in Nat /\ sweep < sweep' /\ DOMAIN aie' = Data /\ DOMAIN aie = Data
           /\ \A p \in Data : IF SideOf(p) \in M \/ Lent(bucket, p) THEN Newer(aie'[p], p, sweep')
                                                                  ELSE aie'[p] = aie[p]
           /\ DOMAIN cache' = AllBuckets /\ DOMAIN cache'[bucket] = {}
           /\ \A x \in AllBuckets : \A side \in DOMAIN cache'[x] :
                \/ side \in DOMAIN cache[x] /\ cache'[x][side] = cache[x][side]
                \/ \E i \in 1 .. 12 : /\ Gives(bucket, Gifts[i], x, side)
                                      /\ Gifts[i].from \in M /\ cache'[x][side] = Taken(Gifts[i].from)
  BY HandedOwners
<1>2. /\ sweep \in Nat /\ pc = "filter" /\ pc' = "loop" /\ \A p \in Data : Older(aie[p], sweep)
      /\ \A p \in Data : ~Lent(bucket, p) => Alone(aie, p, cache)
  BY <1>1, Somewhere DEF PixelsInv, SegmentsKept, ImageKept, OwnPixels, HandOver
<1>3. \A p \in Data : Older(aie'[p], sweep')
  BY <1>1, <1>2 DEF Older, Newer
<1>4. ASSUME NEW x \in AllBuckets, NEW side \in DOMAIN cache'[x]
      PROVE  /\ side \in Sides /\ DOMAIN cache'[x][side] = Local(side)
             /\ \A l \in Local(side) :
                  /\ Older(cache'[x][side][l], sweep)
                  /\ \/ side \in DOMAIN cache[x] /\ cache'[x][side][l] = cache[x][side][l] /\ l \in DOMAIN cache[x][side]
                     \/ \E q \in Data : SideOf(q) \in M /\ cache'[x][side][l] = aie[q]
  <2>1. CASE side \in DOMAIN cache[x] /\ cache'[x][side] = cache[x][side]
    BY <2>1 DEF PixelsInv, SegmentsKept
  <2>2. CASE \E i \in 1 .. 12 : /\ Gives(bucket, Gifts[i], x, side)
                                /\ Gifts[i].from \in M /\ cache'[x][side] = Taken(Gifts[i].from)
    <3>1. PICK i \in 1 .. 12 : /\ Gives(bucket, Gifts[i], x, side)
                               /\ Gifts[i].from \in M /\ cache'[x][side] = Taken(Gifts[i].from)
      BY <2>2
    <3>2. side = Gifts[i].to
      BY <3>1 DEF Gives
    <3>. QED  BY <1>2, <3>1, <3>2, TakenFits
  <2>. QED  BY <1>1, <2>1, <2>2
<1>5. ASSUME NEW p \in Data  PROVE Alone(aie', p, cache')
  <2>1. CASE SideOf(p) \in M \/ Lent(bucket, p)
    <3>1. Newer(aie'[p], p, sweep') /\ ~Older(aie'[p], sweep)
      BY <1>1, <1>2, <2>1 DEF Newer, Older
    <3>2. \A q \in Data : aie'[q] = aie'[p] => q = p
      BY <1>1, <1>2, <3>1 DEF Newer
    <3>3. Unshared(aie'[p], cache')
      BY <1>4, <3>1 DEF Unshared
    <3>. QED  BY <3>2, <3>3 DEF Alone
  <2>2. CASE SideOf(p) \notin M /\ ~Lent(bucket, p)
    <3>1. aie'[p] = aie[p] /\ Older(aie[p], sweep) /\ Alone(aie, p, cache)
      BY <1>1, <1>2, <2>2
    <3>2. ASSUME NEW q \in Data, aie'[q] = aie'[p]  PROVE q = p
      <4>1. ~Newer(aie'[q], q, sweep')
        BY <1>2, <3>1, <3>2 DEF Newer, Older
      <4>2. aie'[q] = aie[q]
        BY <1>1, <4>1
      <4>. QED  BY <3>1, <3>2, <4>2 DEF Alone
    <3>3. ASSUME NEW x \in AllBuckets, NEW side \in DOMAIN cache'[x], NEW l \in DOMAIN cache'[x][side]
          PROVE  cache'[x][side][l] # aie[p]
      <4>1. \/ side \in DOMAIN cache[x] /\ cache'[x][side][l] = cache[x][side][l] /\ l \in DOMAIN cache[x][side]
            \/ \E q \in Data : SideOf(q) \in M /\ cache'[x][side][l] = aie[q]
        BY <1>4
      <4>. QED  BY <2>2, <3>1, <4>1 DEF Alone, Unshared
    <3>. QED  BY <3>1, <3>2, <3>3 DEF Alone, Unshared
  <2>. QED  BY <2>1, <2>2
<1>6. SegmentsKept'
  <2>1. \A n : Older(n, sweep) => Older(n, sweep')
    BY <1>1, <1>2 DEF Older
  <2>2. \A x \in AllBuckets : \A side \in DOMAIN cache'[x] :
          /\ side \in Sides /\ DOMAIN cache'[x][side] = Local(side)
          /\ \A l \in Local(side) : Older(cache'[x][side][l], sweep')
    BY <1>4, <2>1
  <2>. QED  BY <1>1, <2>2 DEF SegmentsKept, Older
<1>7. ImageKept'
  BY <1>1, <1>2, <1>3 DEF ImageKept, Older
<1>8. OwnPixels'
  BY <1>2, <1>5 DEF OwnPixels, Alone, Unshared
<1>9. DOMAIN pixel' = Referred(aie', cache')
  BY DEF HandOver, Holding
<1>. QED  BY <1>6, <1>7, <1>8, <1>9 DEF PixelsInv, Referred

LEMMA PixelsStep == Ordered /\ PixelsInv /\ [Next]_vars => PixelsInv'
<1>. SUFFICES ASSUME Ordered, PixelsInv, [Next]_vars  PROVE PixelsInv'
  OBVIOUS
<1>1. CASE RenderWorld
  <2>1. aie' = NoSegments /\ sweep' = sweep /\ pc' = "loop" /\ pixel' = Holding(pixel, Referred(aie', cache'))
        /\ cache' = [b \in AllBuckets |-> IF b \in Grid(session[frame']) THEN cache[b] ELSE NoSegments]
    BY <1>1 DEF RenderWorld
  <2>2. DOMAIN NoSegments = {}
    BY DEF NoSegments
  <2>3. \A x \in AllBuckets : \A side \in DOMAIN cache'[x] : side \in DOMAIN cache[x] /\ cache'[x][side] = cache[x][side]
    BY <2>1, <2>2
  <2>4. SegmentsKept'
    BY <2>1, <2>3 DEF PixelsInv, SegmentsKept, Older
  <2>5. DOMAIN pixel' = Referred(aie', cache')
    BY <2>1 DEF Holding
  <2>. QED  BY <2>1, <2>4, <2>5 DEF PixelsInv, ImageKept, OwnPixels, Referred
<1>2. CASE PreProcess
  <2>1. cell \in AllBuckets
    BY <1>2, WindowNow DEF PreProcess, Ordered
  <2>. QED  BY <1>2, <2>1, OwnPreProcess
<1>3. CASE Combine
  <2>1. aie' = aie /\ cache' = cache /\ sweep' = sweep /\ bucket' = bucket /\ pc = "combine" /\ pc' = "filter"
        /\ DOMAIN pixel' = DOMAIN pixel
    BY <1>3 DEF Combine
  <2>. QED  BY <2>1 DEF PixelsInv, SegmentsKept, ImageKept, OwnPixels, Referred, Older, Alone, Unshared, Lent, LentPixel
<1>4. CASE HandOver
  BY <1>4, OwnHandOver
<1>5. CASE EndImage \/ UNCHANGED vars
  <2>1. aie' = aie /\ cache' = cache /\ sweep' = sweep /\ bucket' = bucket /\ pixel' = pixel /\ pc' \in {"idle", pc}
    BY <1>5 DEF EndImage, vars
  <2>. QED  BY <2>1 DEF PixelsInv, SegmentsKept, ImageKept, OwnPixels, Referred, Older, Alone, Unshared, Lent, LentPixel
<1>. QED  BY <1>1, <1>2, <1>3, <1>4, <1>5 DEF Next

LEMMA PixelsInvariance == Spec => [](SeamInv /\ PixelsInv)
<1>1. SeamInv /\ PixelsInv /\ [Next]_vars => PixelsInv'
  BY PixelsStep DEF SeamInv
<1>. QED  BY <1>1, PixelsInit, SeamInvariance, PTL DEF Spec

(***************************************************************************)
(* The state keeps its shape: the image covers the data region, and the    *)
(* pixels alive are exactly those that the image and the strips refer to.  *)
(***************************************************************************)
THEOREM TypeCorrect == Spec => []TypeOK
<1>1. SeamInv /\ PixelsInv => TypeOK
  <2>. SUFFICES ASSUME SeamInv, PixelsInv  PROVE TypeOK
    OBVIOUS
  <2>. USE DEF SeamInv
  <2>1. Buckets \subseteq Grid(window) /\ Grid(window) \subseteq AllBuckets
    BY WindowNow
  <2>2. pc \in {"idle", "loop", "combine", "filter"} /\ session \in Sessions /\ frame \in 0 .. Len(session)
    BY DEF Ordered
  <2>3. bucket \in AllBuckets \cup {NoBucket} /\ processed \subseteq Grid(window)
    <3>1. bucket \in Buckets \cup {NoBucket}
      BY <2>2 DEF Ordered
    <3>2. processed \subseteq Buckets
      <4>1. frame \in Nat
        BY <2>2
      <4>. QED  BY <2>2, <4>1 DEF Ordered
    <3>. QED  BY <2>1, <3>1, <3>2
  <2>. QED  BY <2>2, <2>3 DEF TypeOK, PixelsInv, ImageKept, SegmentsKept
<1>. QED  BY <1>1, PixelsInvariance, PTL

(***************************************************************************)
(* Between two buckets the image shares no pixel with itself or with a     *)
(* strip that waits, for every size, window and sequence of frames.        *)
(***************************************************************************)
THEOREM ImageStaysPrivate == Spec => []ImageIsPrivate
<1>1. PixelsInv => ImageIsPrivate
  <2>. SUFFICES ASSUME PixelsInv, pc = "loop", aie # NoSegments
                PROVE  /\ IsInjective(aie)
                       /\ \A b \in AllBuckets : \A side \in DOMAIN cache[b] :
                            Range(aie) \cap Range(cache[b][side]) = {}
    BY DEF ImageIsPrivate
  <2>1. DOMAIN aie = Data /\ \A p \in Data : Alone(aie, p, cache)
    BY DEF PixelsInv, ImageKept, OwnPixels
  <2>. QED  BY <2>1 DEF Alone, Unshared, IsInjective, Range
<1>. QED  BY <1>1, PixelsInvariance, PTL

-----------------------------------------------------------------------------
(* Strips and corners come together. *)

\* x is the neighbour of b in a direction and takes strips from it.
Takes(b, x, dir) == x = Neighbour(b, dir) /\ x \in Grid(window) /\ x \notin processed

\* b gives x something for a side.
GivesSide(b, x, side) == \E i \in 1 .. 12 : Gives(b, Gifts[i], x, side)

CornersKept ==
  \A b \in AllBuckets :
    /\ Has(b, "left") => Has(b, "top_left") /\ Has(b, "bottom_left")
    /\ Has(b, "top") => Has(b, "top_left") /\ Has(b, "top_right")
    /\ Has(b, "top_left") => Has(b, "left") \/ Has(b, "top")
    /\ Has(b, "top_right") => Has(b, "right") \/ Has(b, "top")
    /\ Has(b, "bottom_left") => Has(b, "left") \/ Has(b, "bottom")
    /\ Has(b, "bottom_right") => Has(b, "right") \/ Has(b, "bottom")

LEMMA GivenSides ==
  ASSUME NEW b, NEW x
  PROVE  /\ GivesSide(b, x, "left") <=> Takes(b, x, "right")
         /\ GivesSide(b, x, "right") <=> Takes(b, x, "left")
         /\ GivesSide(b, x, "top") <=> Takes(b, x, "below")
         /\ GivesSide(b, x, "bottom") <=> Takes(b, x, "above")
         /\ GivesSide(b, x, "top_left") <=> Takes(b, x, "right") \/ Takes(b, x, "below")
         /\ GivesSide(b, x, "top_right") <=> Takes(b, x, "left") \/ Takes(b, x, "below")
         /\ GivesSide(b, x, "bottom_left") <=> Takes(b, x, "right") \/ Takes(b, x, "above")
         /\ GivesSide(b, x, "bottom_right") <=> Takes(b, x, "left") \/ Takes(b, x, "above")
<1>1. \A i \in 1 .. 12 : \A side :
        Gives(b, Gifts[i], x, side) <=> side = Gifts[i].to /\ Takes(b, x, Gifts[i].nb)
  BY DEF Gives, Receives, Takes
<1>2. 1 .. 12 = {1, 2, 3, 4, 5, 6} \cup {7, 8, 9, 10, 11, 12}
  OBVIOUS
<1>. DEFINE Of(i, side) == side = Gifts[i].to /\ Takes(b, x, Gifts[i].nb)
<1>3. \A side : GivesSide(b, x, side) <=>
        \/ Of(1, side) \/ Of(2, side) \/ Of(3, side) \/ Of(4, side) \/ Of(5, side) \/ Of(6, side)
        \/ Of(7, side) \/ Of(8, side) \/ Of(9, side) \/ Of(10, side) \/ Of(11, side) \/ Of(12, side)
  <2>1. \A side : GivesSide(b, x, side) <=> \E i \in 1 .. 12 : Of(i, side)
    BY <1>1 DEF GivesSide
  <2>. HIDE DEF Of
  <2>. QED  BY <1>2, <2>1
<1>4. /\ \A side : Of(1, side) <=> side = "right" /\ Takes(b, x, "left")
      /\ \A side : Of(2, side) <=> side = "top_right" /\ Takes(b, x, "left")
      /\ \A side : Of(3, side) <=> side = "bottom_right" /\ Takes(b, x, "left")
      /\ \A side : Of(4, side) <=> side = "left" /\ Takes(b, x, "right")
      /\ \A side : Of(5, side) <=> side = "top_left" /\ Takes(b, x, "right")
      /\ \A side : Of(6, side) <=> side = "bottom_left" /\ Takes(b, x, "right")
  BY GiftList DEF Gift
<1>5. /\ \A side : Of(7, side) <=> side = "bottom" /\ Takes(b, x, "above")
      /\ \A side : Of(8, side) <=> side = "bottom_left" /\ Takes(b, x, "above")
      /\ \A side : Of(9, side) <=> side = "bottom_right" /\ Takes(b, x, "above")
      /\ \A side : Of(10, side) <=> side = "top" /\ Takes(b, x, "below")
      /\ \A side : Of(11, side) <=> side = "top_left" /\ Takes(b, x, "below")
      /\ \A side : Of(12, side) <=> side = "top_right" /\ Takes(b, x, "below")
  BY GiftList DEF Gift
<1>. HIDE DEF Of
<1>6. \A side : GivesSide(b, x, side) <=>
        \/ side \in {"right", "top_right", "bottom_right"} /\ Takes(b, x, "left")
        \/ side \in {"left", "top_left", "bottom_left"} /\ Takes(b, x, "right")
        \/ side \in {"bottom", "bottom_left", "bottom_right"} /\ Takes(b, x, "above")
        \/ side \in {"top", "top_left", "top_right"} /\ Takes(b, x, "below")
  BY <1>3, <1>4, <1>5
<1>. QED  BY <1>6

LEMMA CornersInit == Init => CornersKept
BY DEF Init, CornersKept, Has, NoSegments

LEMMA CornersStep == Ordered /\ StripsKept /\ CornersKept /\ [Next]_vars => CornersKept'
<1>. SUFFICES ASSUME Ordered, StripsKept, CornersKept, [Next]_vars  PROVE CornersKept'
  OBVIOUS
<1>1. CASE RenderWorld
  <2>1. \A x \in AllBuckets : DOMAIN cache'[x] = DOMAIN cache[x] \/ DOMAIN cache'[x] = {}
    BY <1>1 DEF RenderWorld, NoSegments
  <2>. QED  BY <2>1 DEF CornersKept, Has
<1>2. CASE PreProcess \/ Combine \/ EndImage \/ UNCHANGED vars
  <2>1. cache' = cache
    BY <1>2 DEF PreProcess, Combine, EndImage, vars
  <2>. QED  BY <2>1 DEF CornersKept, Has
<1>3. CASE HandOver
  <2>1. DOMAIN cache'[bucket] = {}
    BY <1>3, HandOverSides
  <2>2. ASSUME NEW x \in AllBuckets, x # bucket
        PROVE  \A side : side \in DOMAIN cache'[x] <=> Has(x, side) \/ GivesSide(bucket, x, side)
    BY <1>3, <2>2, HandOverSides DEF Has, GivesSide
  <2>3. ASSUME NEW x \in AllBuckets
        PROVE  /\ Has(x, "left")' => Has(x, "top_left")' /\ Has(x, "bottom_left")'
               /\ Has(x, "top")' => Has(x, "top_left")' /\ Has(x, "top_right")'
               /\ Has(x, "top_left")' => Has(x, "left")' \/ Has(x, "top")'
               /\ Has(x, "top_right")' => Has(x, "right")' \/ Has(x, "top")'
               /\ Has(x, "bottom_left")' => Has(x, "left")' \/ Has(x, "bottom")'
               /\ Has(x, "bottom_right")' => Has(x, "right")' \/ Has(x, "bottom")'
    <3>1. \A side : Has(x, side)' <=> side \in DOMAIN cache'[x]
      BY DEF Has
    <3>2. CASE x = bucket
      BY <2>1, <3>1, <3>2
    <3>3. CASE x # bucket
      BY <2>2, <3>1, <3>3, GivenSides DEF CornersKept
    <3>. QED  BY <3>2, <3>3
  <2>. QED  BY <2>3 DEF CornersKept
<1>. QED  BY <1>1, <1>2, <1>3 DEF Next

(* A neighbour that a bucket's strips go to and that comes later reads no  *)
(* place of the strip that the bucket does not read itself.                *)
LEMMA GiftReach ==
  ASSUME Ordered, HandOver, NEW x \in Buckets \ processed, x # bucket,
         NEW i \in 1 .. 12, Gives(bucket, Gifts[i], x, Gifts[i].to),
         NEW l \in Local(Gifts[i].to), Raster(x, Into(l, Gifts[i].to)) \in Support(window, x)
  PROVE  Raster(x, Into(l, Gifts[i].to)) \in Support(window, bucket)
<1>. PICK p : p = Raster(x, Into(l, Gifts[i].to))
  OBVIOUS
<1>1. /\ window \in Windows /\ bucket \in Buckets /\ processed = {c \in Buckets : Before(c, bucket)}
      /\ x \in Buckets /\ ~Before(x, bucket)
  BY WindowNow DEF Ordered, HandOver
<1>2. /\ bucket = [x |-> bucket.x, y |-> bucket.y] /\ OnX(window, bucket.x) /\ OnY(window, bucket.y)
      /\ bucket.x \in Int /\ bucket.y \in Int
      /\ x = [x |-> x.x, y |-> x.y] /\ OnX(window, x.x) /\ OnY(window, x.y)
      /\ x.x \in Int /\ x.y \in Int
  BY <1>1, WindowRegion DEF Buckets, OnX, OnY, OnAxis
<1>3. XAxis(window) /\ YAxis(window) /\ ShiftX \in Nat /\ ShiftY \in Nat
  BY <1>1, WindowAxes, SizeAssumption
<1>4. /\ p = [x |-> p.x, y |-> p.y] /\ p.x \in Int /\ p.y \in Int
      /\ Left(window, x) <= p.x /\ p.x < Right(window, x)
      /\ Top(window, x) <= p.y /\ p.y < Bottom(window, x)
      /\ Left(window, x) \in Int /\ Top(window, x) \in Int
  BY <1>1, SupportPlaces DEF Buckets
<1>5. /\ Left(window, bucket) \in Int /\ Right(window, bucket) \in Int
      /\ Top(window, bucket) \in Int /\ Bottom(window, bucket) \in Int
  BY <1>1, SupportPlaces DEF Buckets
<1>6. Gifts[i].to \in Sides /\ l.x \in Int /\ l.y \in Int
      /\ Into(l, Gifts[i].to) \in Data /\ SideOf(Into(l, Gifts[i].to)) = Gifts[i].to
  BY GiftFrom, LocalPlaces, SidePlaces
<1>. PICK q : q = Into(l, Gifts[i].to)
  OBVIOUS
<1>7. /\ q.x \in Int /\ q.y \in Int /\ SideOf(q) = Gifts[i].to
      /\ p.x = q.x + (x.x * XBucketSize - ShiftX) /\ p.y = q.y + (x.y * YBucketSize - ShiftY)
  BY <1>6, DataPlaces DEF Raster, Moved
<1>8. x = Neighbour(bucket, Gifts[i].nb)
  BY DEF Gives
<1>9. /\ Gifts[i].nb = "right" => Gifts[i].to \in {"left", "top_left", "bottom_left"}
      /\ Gifts[i].nb = "below" => Gifts[i].to \in {"top", "top_left", "top_right"}
      /\ Gifts[i].nb \in {"left", "right", "above", "below"}
  <2>1. i \in {1, 2, 3, 4, 5, 6} \/ i \in {7, 8, 9, 10, 11, 12}
    OBVIOUS
  <2>2. CASE i \in {1, 2, 3, 4, 5, 6}
    BY <2>2, GiftList DEF Gift
  <2>3. CASE i \in {7, 8, 9, 10, 11, 12}
    BY <2>3, GiftList DEF Gift
  <2>. QED  BY <2>1, <2>2, <2>3
<1>10. CASE Gifts[i].nb = "right"
  <2>1. x.x = bucket.x + 1 /\ x.y = bucket.y
    BY <1>2, <1>8, <1>10 DEF Neighbour, Moved
  <2>2. q.x < 2 * ShiftX
    <3>1. SideOf(q) \in {"left", "top_left", "bottom_left"}
      BY <1>7, <1>9, <1>10
    <3>. QED  BY <3>1 DEF SideOf
  <2>3. /\ Left(window, bucket) <= Left(window, x)
        /\ Right(window, bucket) = x.x * XBucketSize + ShiftX
    BY <1>2, <1>3, <2>1, AxisSeam DEF OnX, XAxis, Left, Right
  <2>4. x.x * XBucketSize \in Int
    BY <1>2, SizeAssumption
  <2>5. Left(window, bucket) <= p.x /\ p.x < Right(window, bucket)
    BY <1>3, <1>4, <1>5, <1>7, <2>2, <2>3, <2>4
  <2>6. Top(window, bucket) = Top(window, x) /\ Bottom(window, bucket) = Bottom(window, x)
    BY <2>1 DEF Top, Bottom
  <2>. QED  BY <1>1, <1>4, <2>5, <2>6, SupportPlaces DEF Buckets
<1>11. CASE Gifts[i].nb = "below"
  <2>1. x.x = bucket.x /\ x.y = bucket.y + 1
    BY <1>2, <1>8, <1>11 DEF Neighbour, Moved
  <2>2. q.y < 2 * ShiftY
    <3>1. SideOf(q) \in {"top", "top_left", "top_right"}
      BY <1>7, <1>9, <1>11
    <3>. QED  BY <3>1 DEF SideOf
  <2>3. /\ Top(window, bucket) <= Top(window, x)
        /\ Bottom(window, bucket) = x.y * YBucketSize + ShiftY
    BY <1>2, <1>3, <2>1, AxisSeam DEF OnY, YAxis, Top, Bottom
  <2>4. x.y * YBucketSize \in Int
    BY <1>2, SizeAssumption
  <2>5. Top(window, bucket) <= p.y /\ p.y < Bottom(window, bucket)
    BY <1>3, <1>4, <1>5, <1>7, <2>2, <2>3, <2>4
  <2>6. Left(window, bucket) = Left(window, x) /\ Right(window, bucket) = Right(window, x)
    BY <2>1 DEF Left, Right
  <2>. QED  BY <1>1, <1>4, <2>5, <2>6, SupportPlaces DEF Buckets
<1>12. CASE Gifts[i].nb \in {"left", "above"}
  BY <1>1, <1>2, <1>8, <1>12 DEF Neighbour, Moved, Before
<1>. QED  BY <1>9, <1>10, <1>11, <1>12

-----------------------------------------------------------------------------
(* Every pixel a filter reads is sampled and combined. *)

Ready(p) == [SampledFor(p) EXCEPT !.combined = 1]

\* Pixels that wait for a bucket to come are ready.
SegmentsReady ==
  \A x \in Buckets \ processed : \A side \in DOMAIN cache[x] : \A l \in Local(side) :
    Raster(x, Into(l, side)) \in Support(window, x) =>
      pixel[cache[x][side][l]] = Ready(Raster(x, Into(l, side)))

\* The pixels of the bucket at work are ready, or will be once combined.
BucketReady ==
  /\ pc = "combine" =>
       \A p \in Support(window, bucket) :
         IF p \in samples THEN ~Lent(bucket, PlaceOf(bucket, p)) /\ pixel[aie[PlaceOf(bucket, p)]] = SampledFor(p)
                          ELSE pixel[aie[PlaceOf(bucket, p)]] = Ready(p)
  /\ pc = "combine" => samples \subseteq Support(window, bucket)
  /\ FilterInputsReady

ReadyInv == CornersKept /\ SegmentsReady /\ BucketReady

LEMMA RasterPlaces ==
  ASSUME NEW w \in Windows, NEW b \in BucketsIn(Region(w))
  PROVE  /\ \A p \in Support(w, b) : PlaceOf(b, p) \in Data /\ Raster(b, PlaceOf(b, p)) = p
         /\ \A q \in Data : PlaceOf(b, Raster(b, q)) = q
<1>1. /\ OnX(w, b.x) /\ OnY(w, b.y) /\ b.x \in Int /\ b.y \in Int
      /\ b.x * XBucketSize \in Int /\ b.y * YBucketSize \in Int
      /\ (b.x + 1) * XBucketSize = b.x * XBucketSize + XBucketSize
      /\ (b.y + 1) * YBucketSize = b.y * YBucketSize + YBucketSize
      /\ ShiftX \in Nat /\ ShiftY \in Nat /\ XBucketSize \in Nat /\ YBucketSize \in Nat
  <2>1. OnX(w, b.x) /\ OnY(w, b.y) /\ b.x \in Int /\ b.y \in Int
    BY WindowRegion DEF OnX, OnY, OnAxis
  <2>. QED  BY <2>1, SizeAssumption, Stride
<1>. PICK bx, by : bx = b.x * XBucketSize /\ by = b.y * YBucketSize
  OBVIOUS
<1>2. /\ \A p : PlaceOf(b, p) = [x |-> p.x + (ShiftX - bx), y |-> p.y + (ShiftY - by)]
      /\ \A q : Raster(b, q) = [x |-> q.x + (bx - ShiftX), y |-> q.y + (by - ShiftY)]
  <2>1. \A p : PlaceOf(b, p) = [x |-> p.x + (ShiftX - bx), y |-> p.y + (ShiftY - by)]
    BY DEF PlaceOf, Moved
  <2>2. \A q : Raster(b, q) = [x |-> q.x + (bx - ShiftX), y |-> q.y + (by - ShiftY)]
    BY DEF Raster, Moved
  <2>. QED  BY <2>1, <2>2
<1>5. bx \in Int /\ by \in Int /\ ShiftX \in Int /\ ShiftY \in Int
  BY <1>1
<1>3. ASSUME NEW p \in Support(w, b)  PROVE PlaceOf(b, p) \in Data /\ Raster(b, PlaceOf(b, p)) = p
  <2>1. /\ p = [x |-> p.x, y |-> p.y] /\ p.x \in Int /\ p.y \in Int
        /\ Left(w, b) <= p.x /\ p.x < Right(w, b) /\ Top(w, b) <= p.y /\ p.y < Bottom(w, b)
        /\ Left(w, b) \in Int /\ Right(w, b) \in Int /\ Top(w, b) \in Int /\ Bottom(w, b) \in Int
    BY SupportPlaces
  <2>2. bx - ShiftX <= Left(w, b) /\ Right(w, b) <= bx + XBucketSize + ShiftX
    BY <1>1, WindowAxes, AxisReach DEF XAxis, OnX, Left, Right
  <2>3. by - ShiftY <= Top(w, b) /\ Bottom(w, b) <= by + YBucketSize + ShiftY
    BY <1>1, WindowAxes, AxisReach DEF YAxis, OnY, Top, Bottom
  <2>4. PICK q : q = [x |-> p.x + (ShiftX - bx), y |-> p.y + (ShiftY - by)]
    OBVIOUS
  <2>5. q.x \in Int /\ q.y \in Int /\ 0 <= q.x /\ q.x < Width /\ 0 <= q.y /\ q.y < Height
    BY <1>1, <2>1, <2>2, <2>3, <2>4, DataSize
  <2>6. q \in Data
    BY <2>4, <2>5, DataPlaces
  <2>7. Raster(b, q) = p
    <3>1. Raster(b, q) = [x |-> q.x + (bx - ShiftX), y |-> q.y + (by - ShiftY)]
      BY <1>2
    <3>2. q.x + (bx - ShiftX) = p.x /\ q.y + (by - ShiftY) = p.y
      BY <1>5, <2>1, <2>4
    <3>. QED  BY <2>1, <3>1, <3>2, Zenon
  <2>. QED  BY <1>2, <2>4, <2>6, <2>7
<1>4. ASSUME NEW q \in Data  PROVE PlaceOf(b, Raster(b, q)) = q
  <2>1. q = [x |-> q.x, y |-> q.y] /\ q.x \in Int /\ q.y \in Int
    BY DataPlaces
  <2>. PICK r : r = Raster(b, q)
    OBVIOUS
  <2>2. r.x = q.x + (bx - ShiftX) /\ r.y = q.y + (by - ShiftY)
    <3>1. r = [x |-> q.x + (bx - ShiftX), y |-> q.y + (by - ShiftY)]
      BY <1>2
    <3>. QED  BY <3>1
  <2>3. r.x + (ShiftX - bx) = q.x /\ r.y + (ShiftY - by) = q.y
    BY <1>5, <2>1, <2>2
  <2>4. PlaceOf(b, r) = [x |-> r.x + (ShiftX - bx), y |-> r.y + (ShiftY - by)]
    BY <1>2
  <2>. QED  BY <2>1, <2>3, <2>4, Zenon
<1>. QED  BY <1>3, <1>4

(* A bucket samples what no segment has for it.                            *)
LEMMA SampledOrLent ==
  ASSUME Ordered, NothingStale, SegmentsKept, CornersKept, pc = "loop", pending,
         NEW p \in Support(window, cell)
  PROVE  p \in Positions(SampleRegion(window, cell)) <=> ~Lent(cell, PlaceOf(cell, p))
<1>1. /\ window \in Windows /\ cell \in Buckets /\ processed = {c \in Buckets : Before(c, cell)}
      /\ cell \in Grid(window) \ processed /\ cell \in AllBuckets
  <2>1. window \in Windows /\ cell \in Buckets /\ processed = {c \in Buckets : Before(c, cell)}
        /\ Buckets \subseteq Grid(window) /\ Grid(window) \subseteq AllBuckets
    BY WindowNow DEF Ordered
  <2>. QED  BY <2>1, WindowRegion, NextBucket DEF Buckets
<1>2. /\ cell = [x |-> cell.x, y |-> cell.y] /\ OnX(window, cell.x) /\ OnY(window, cell.y)
      /\ cell.x \in Int /\ cell.y \in Int
  BY <1>1, WindowRegion DEF Buckets, OnX, OnY, OnAxis
<1>3. XAxis(window) /\ YAxis(window) /\ ShiftX \in Nat /\ ShiftY \in Nat
  BY <1>1, WindowAxes, SizeAssumption
<1>4. ~Has(cell, "right") /\ ~Has(cell, "bottom")
  <2>1. ~Before(Neighbour(cell, "right"), cell) /\ ~Before(Neighbour(cell, "below"), cell)
    BY <1>2 DEF Neighbour, Moved, Before
  <2>. QED  BY <1>1, <2>1 DEF NothingStale
<1>5. /\ p.x \in Int /\ p.y \in Int /\ Left(window, cell) \in Int /\ Top(window, cell) \in Int
  BY <1>1, SupportPlaces DEF Buckets
<1>6. ASSUME Has(cell, "left")  PROVE Left(window, cell) = cell.x * XBucketSize - ShiftX
  <2>. DEFINE to == [x |-> cell.x - 1, y |-> cell.y]
  <2>1. Neighbour(cell, "left") = to /\ to \in Buckets
    <3>1. Neighbour(cell, "left") \in processed
      BY <1>1, <1>6 DEF NothingStale
    <3>2. Neighbour(cell, "left") = to
      BY <1>2 DEF Neighbour, Moved
    <3>. QED  BY <1>1, <3>1, <3>2
  <2>2. OnX(window, cell.x - 1)
    BY <1>1, <2>1, WindowRegion DEF Buckets
  <2>. QED  BY <1>2, <1>3, <2>2, AxisSeam DEF OnX, XAxis, Left
<1>7. ASSUME Has(cell, "top")  PROVE Top(window, cell) = cell.y * YBucketSize - ShiftY
  <2>. DEFINE up == [x |-> cell.x, y |-> cell.y - 1]
  <2>1. Neighbour(cell, "above") = up /\ up \in Buckets
    <3>1. Neighbour(cell, "above") \in processed
      BY <1>1, <1>7 DEF NothingStale
    <3>2. Neighbour(cell, "above") = up
      BY <1>2 DEF Neighbour, Moved
    <3>. QED  BY <1>1, <3>1, <3>2
  <2>2. OnY(window, cell.y - 1)
    BY <1>1, <2>1, WindowRegion DEF Buckets
  <2>. QED  BY <1>2, <1>3, <2>2, AxisSeam DEF OnY, YAxis, Top
<1>. PICK q : q = PlaceOf(cell, p)
  OBVIOUS
<1>8. /\ q.x = p.x + (ShiftX - cell.x * XBucketSize) /\ q.y = p.y + (ShiftY - cell.y * YBucketSize)
      /\ cell.x * XBucketSize \in Int /\ cell.y * YBucketSize \in Int
  BY <1>2, SizeAssumption DEF PlaceOf, Moved
<1>9. p \in Positions(SampleRegion(window, cell)) <=>
        /\ Has(cell, "left") => 2 * ShiftX <= q.x
        /\ Has(cell, "top") => 2 * ShiftY <= q.y
  <2>1. p \in Positions(SampleRegion(window, cell)) <=>
          /\ Has(cell, "left") => Left(window, cell) + 2 * ShiftX <= p.x
          /\ Has(cell, "top") => Top(window, cell) + 2 * ShiftY <= p.y
    BY <1>1, <1>4, SamplePlaces DEF Buckets
  <2>2. Has(cell, "left") => (Left(window, cell) + 2 * ShiftX <= p.x <=> 2 * ShiftX <= q.x)
    BY <1>3, <1>5, <1>6, <1>8
  <2>3. Has(cell, "top") => (Top(window, cell) + 2 * ShiftY <= p.y <=> 2 * ShiftY <= q.y)
    BY <1>3, <1>5, <1>7, <1>8
  <2>. QED  BY <2>1, <2>2, <2>3
<1>10. Lent(cell, q) <=> (Has(cell, "left") /\ q.x < 2 * ShiftX) \/ (Has(cell, "top") /\ q.y < 2 * ShiftY)
  <2>1. /\ Has(cell, "left") => Has(cell, "top_left") /\ Has(cell, "bottom_left")
        /\ Has(cell, "top") => Has(cell, "top_left") /\ Has(cell, "top_right")
        /\ Has(cell, "top_left") => Has(cell, "left") \/ Has(cell, "top")
        /\ Has(cell, "top_right") => Has(cell, "top")
        /\ Has(cell, "bottom_left") => Has(cell, "left")
        /\ ~Has(cell, "bottom_right")
    BY <1>1, <1>4 DEF CornersKept
  <2>2. Lent(cell, q) <=> Has(cell, SideOf(q))
    BY DEF Lent, Has
  <2>3. q.x \in Int /\ q.y \in Int /\ 2 * ShiftX \in Int /\ 2 * ShiftY \in Int
    BY <1>3, <1>5, <1>8
  <2>4. ~Has(cell, "middle")
    <3>1. DOMAIN cache[cell] \subseteq Sides
      BY <1>1 DEF SegmentsKept
    <3>. QED  BY <3>1 DEF Sides, Has
  <2>5. CASE q.x < 2 * ShiftX
    <3>1. SideOf(q) = IF q.y < 2 * ShiftY THEN "top_left" ELSE IF q.y < Height - 2 * ShiftY THEN "left" ELSE "bottom_left"
      BY <2>5 DEF SideOf
    <3>. QED  BY <2>1, <2>2, <2>5, <3>1
  <2>6. CASE ~(q.x < 2 * ShiftX)
    <3>1. SideOf(q) = IF q.x < Width - 2 * ShiftX
                      THEN IF q.y < 2 * ShiftY THEN "top" ELSE IF q.y < Height - 2 * ShiftY THEN "middle" ELSE "bottom"
                      ELSE IF q.y < 2 * ShiftY THEN "top_right" ELSE IF q.y < Height - 2 * ShiftY THEN "right" ELSE "bottom_right"
      BY <2>6 DEF SideOf
    <3>. QED  BY <1>4, <2>1, <2>2, <2>4, <2>6, <3>1
  <2>. QED  BY <2>5, <2>6
<1>. QED  BY <1>3, <1>5, <1>8, <1>9, <1>10

LEMMA ReadyInit == Init => ReadyInv
<1>1. Init => \A x \in AllBuckets : DOMAIN cache[x] = {}
  BY DEF Init, NoSegments
<1>2. Init => Buckets \subseteq AllBuckets
  BY SeamInit, WindowNow DEF SeamInv
<1>. QED  BY <1>1, <1>2, CornersInit DEF Init, ReadyInv, SegmentsReady, BucketReady, FilterInputsReady

\* The pixels of the segments are alive.
LEMMA SegmentsAlive ==
  ASSUME PixelsInv, NEW x \in AllBuckets, NEW side \in DOMAIN cache[x], NEW l \in Local(side)
  PROVE  /\ cache[x][side][l] \in Referred(aie, cache) /\ cache[x][side][l] \in DOMAIN pixel
         /\ \A a : cache[x][side][l] \in Referred(a, cache)
<1>1. DOMAIN cache = AllBuckets /\ DOMAIN cache[x][side] = Local(side)
  BY DEF PixelsInv, SegmentsKept
<1>2. cache[x][side][l] \in Range(cache[x][side])
  BY <1>1 DEF Range
<1>3. \A a : cache[x][side][l] \in Referred(a, cache)
  BY <1>1, <1>2 DEF Referred
<1>. QED  BY <1>3 DEF PixelsInv

LEMMA ReadyPreProcess ==
  ASSUME Ordered, NothingStale, PixelsInv, ReadyInv, PreProcess
  PROVE  SegmentsReady' /\ BucketReady'
<1>. DEFINE S == Positions(SampleRegion(window, cell))
            at == [p \in S |-> ImageNow[PlaceOf(cell, p)]]
            cleaned == [i \in Range(ImageNow) \cup DOMAIN pixel |->
                          IF \E p \in S : at[p] = i
                          THEN SampledFor(CHOOSE p \in S : at[p] = i)
                          ELSE IF i \in DOMAIN pixel THEN pixel[i] ELSE Cleared]
<1>1. /\ pc = "loop" /\ pending /\ bucket' = cell /\ samples' = S /\ pc' = "combine"
      /\ pixel' = Holding(cleaned, Referred(aie', cache)) /\ cache' = cache /\ processed' = processed
  BY DEF PreProcess, ImageNow
<1>2. SameFrame /\ Buckets' = Buckets /\ window \in Windows /\ cell \in Buckets
      /\ Buckets \subseteq AllBuckets /\ cell \notin processed
  <2>1. SameFrame /\ Buckets' = Buckets
    BY StepFrame DEF SameFrame, Buckets, Region
  <2>2. window \in Windows /\ cell \in Buckets /\ Buckets \subseteq AllBuckets
        /\ processed = {c \in Buckets : Before(c, cell)}
    BY <1>1, WindowNow DEF Ordered
  <2>. QED  BY <2>1, <2>2, WindowRegion, NextBucket DEF Buckets
<1>3. /\ DOMAIN ImageNow = Data
      /\ \A p \in Data : Alone(ImageNow, p, cache)
  BY ImageBefore
<1>4. /\ DOMAIN aie' = Data
      /\ \A p \in Data : aie'[p] = IF Lent(cell, p) THEN LentPixel(cell, p) ELSE ImageNow[p]
  BY <1>2, ImageAfter
<1>5. S \subseteq Support(window, cell)
  BY <1>2, SamplePlaces DEF Buckets
<1>6. \A p \in Support(window, cell) :
        /\ PlaceOf(cell, p) \in Data /\ Raster(cell, PlaceOf(cell, p)) = p
        /\ p \in S <=> ~Lent(cell, PlaceOf(cell, p))
  <2>1. \A p \in Support(window, cell) : p \in S <=> ~Lent(cell, PlaceOf(cell, p))
    BY <1>1, SampledOrLent DEF ReadyInv, PixelsInv
  <2>. QED  BY <1>2, <2>1, RasterPlaces DEF Buckets
<1>. HIDE DEF S
<1>7. ASSUME NEW p \in S, NEW q \in S, at[p] = at[q]  PROVE p = q
  <2>1. PlaceOf(cell, p) \in Data /\ PlaceOf(cell, q) \in Data
        /\ Raster(cell, PlaceOf(cell, p)) = p /\ Raster(cell, PlaceOf(cell, q)) = q
    BY <1>5, <1>6
  <2>2. ImageNow[PlaceOf(cell, p)] = ImageNow[PlaceOf(cell, q)]
    BY <1>7
  <2>3. PlaceOf(cell, q) = PlaceOf(cell, p)
    BY <1>3, <2>1, <2>2 DEF Alone
  <2>. QED  BY <2>1, <2>3
<1>8. ASSUME NEW p \in S
      PROVE  pixel'[aie'[PlaceOf(cell, p)]] = SampledFor(p)
  <2>. PICK i : i = at[p]
    OBVIOUS
  <2>1. PlaceOf(cell, p) \in Data /\ aie'[PlaceOf(cell, p)] = ImageNow[PlaceOf(cell, p)]
    BY <1>4, <1>5, <1>6
  <2>2. i = aie'[PlaceOf(cell, p)] /\ i \in Range(ImageNow) /\ i \in Range(aie')
    BY <1>3, <1>4, <2>1 DEF Range
  <2>3. (CHOOSE q \in S : at[q] = i) = p
    <3>. HIDE DEF at
    <3>. QED  BY <1>7
  <2>4. i \in DOMAIN cleaned /\ cleaned[i] = SampledFor(p)
    <3>. HIDE DEF at
    <3>. QED  BY <2>2, <2>3
  <2>5. i \in Referred(aie', cache)
    BY <2>2 DEF Referred
  <2>. HIDE DEF cleaned
  <2>6. pixel'[i] = SampledFor(p)
    BY <1>1, <2>4, <2>5 DEF Holding
  <2>. QED  BY <2>2, <2>6
<1>9. ASSUME NEW x \in AllBuckets, NEW side \in DOMAIN cache[x], NEW l \in Local(side)
      PROVE  pixel'[cache[x][side][l]] = pixel[cache[x][side][l]]
  <2>. PICK i : i = cache[x][side][l]
    OBVIOUS
  <2>1. i \in DOMAIN pixel /\ i \in Referred(aie', cache)
    BY SegmentsAlive
  <2>2. ~ \E p \in S : at[p] = i
    <3>1. \A q \in Data : ImageNow[q] # i
      <4>1. l \in DOMAIN cache[x][side]
        BY DEF PixelsInv, SegmentsKept
      <4>. QED  BY <1>3, <4>1 DEF Alone, Unshared
    <3>. QED  BY <1>5, <1>6, <3>1
  <2>3. i \in DOMAIN cleaned /\ cleaned[i] = pixel[i]
    <3>. HIDE DEF at
    <3>. QED  BY <2>1, <2>2
  <2>. HIDE DEF cleaned
  <2>4. pixel'[i] = pixel[i]
    BY <1>1, <2>1, <2>3 DEF Holding
  <2>. QED  BY <2>4
<1>10. \A p : SampledFor(p)' = SampledFor(p) /\ Ready(p)' = Ready(p)
  BY <1>2 DEF SampledFor, Ready, SameFrame
<1>11. \A b : Support(window, b)' = Support(window, b)
  BY <1>2 DEF Support, SameFrame
<1>12. SegmentsReady'
  <2>1. ASSUME NEW x \in Buckets \ processed, NEW side \in DOMAIN cache[x], NEW l \in Local(side),
               Raster(x, Into(l, side)) \in Support(window, x)
        PROVE  pixel'[cache[x][side][l]] = Ready(Raster(x, Into(l, side)))
    BY <1>2, <1>9, <2>1 DEF ReadyInv, SegmentsReady
  <2>. QED  BY <1>1, <1>2, <1>10, <1>11, <2>1 DEF SegmentsReady, SameFrame
<1>13. ASSUME NEW p \in Support(window, cell)
       PROVE  IF p \in S THEN ~Lent(cell, PlaceOf(cell, p)) /\ pixel'[aie'[PlaceOf(cell, p)]] = SampledFor(p)
                         ELSE pixel'[aie'[PlaceOf(cell, p)]] = Ready(p)
  <2>1. CASE p \in S
    BY <1>6, <1>8, <2>1
  <2>2. CASE p \notin S
    <3>. PICK q : q = PlaceOf(cell, p)
      OBVIOUS
    <3>1. q \in Data /\ Lent(cell, q) /\ Raster(cell, q) = p /\ aie'[q] = LentPixel(cell, q)
      BY <1>4, <1>6, <2>2
    <3>. PICK side : side = SideOf(q)
      OBVIOUS
    <3>. PICK l : l = Moved(q, -CornerOf(side).x, -CornerOf(side).y)
      OBVIOUS
    <3>2. side \in DOMAIN cache[cell] /\ side \in Sides /\ LentPixel(cell, q) = cache[cell][side][l]
      BY <1>2, <3>1 DEF Lent, LentPixel, PixelsInv, SegmentsKept
    <3>3. l \in Local(side) /\ Into(l, side) = q
      BY <3>1, <3>2, SidePlaces, LocalPlaces
    <3>4. pixel[cache[cell][side][l]] = Ready(p)
      BY <1>2, <3>1, <3>2, <3>3 DEF ReadyInv, SegmentsReady
    <3>5. pixel'[cache[cell][side][l]] = Ready(p)
      BY <1>2, <1>9, <3>2, <3>3, <3>4
    <3>. QED  BY <2>2, <3>1, <3>2, <3>5
  <2>. QED  BY <2>1, <2>2
<1>14. BucketReady'
  <2>1. \A q : Lent(bucket, q)' <=> Lent(cell, q)
    BY <1>1 DEF Lent
  <2>2. \A p : PlaceOf(bucket, p)' = PlaceOf(cell, p)
    BY <1>1 DEF PlaceOf
  <2>3. Support(window, bucket)' = Support(window, cell)
    BY <1>1, <1>2 DEF Support, SameFrame
  <2>. QED  BY <1>1, <1>5, <1>10, <1>13, <2>1, <2>2, <2>3 DEF BucketReady, FilterInputsReady
<1>. QED  BY <1>12, <1>14

LEMMA ReadyCombine ==
  ASSUME Ordered, PixelsInv, ReadyInv, Combine
  PROVE  SegmentsReady' /\ BucketReady'
<1>. DEFINE hit == {aie[PlaceOf(bucket, p)] : p \in samples}
<1>1. /\ pc = "combine" /\ pc' = "filter" /\ cache' = cache /\ aie' = aie /\ bucket' = bucket
      /\ processed' = processed /\ DOMAIN pixel' = DOMAIN pixel
      /\ \A i \in DOMAIN pixel :
           pixel'[i] = IF i \in hit THEN [pixel[i] EXCEPT !.combined = @ + 1] ELSE pixel[i]
  BY DEF Combine
<1>2. SameFrame /\ Buckets' = Buckets /\ window \in Windows /\ bucket \in Buckets /\ Buckets \subseteq AllBuckets
  <2>1. SameFrame /\ Buckets' = Buckets
    BY StepFrame DEF SameFrame, Buckets, Region
  <2>. QED  BY <1>1, <2>1, WindowNow DEF Ordered
<1>3. /\ DOMAIN aie = Data /\ samples \subseteq Support(window, bucket)
      /\ \A p \in Support(window, bucket) :
           IF p \in samples THEN ~Lent(bucket, PlaceOf(bucket, p)) /\ pixel[aie[PlaceOf(bucket, p)]] = SampledFor(p)
                            ELSE pixel[aie[PlaceOf(bucket, p)]] = Ready(p)
  BY <1>1 DEF PixelsInv, ImageKept, ReadyInv, BucketReady
<1>4. \A p \in Support(window, bucket) :
        PlaceOf(bucket, p) \in Data /\ Raster(bucket, PlaceOf(bucket, p)) = p
  BY <1>2, RasterPlaces DEF Buckets
<1>5. \A p \in samples : Alone(aie, PlaceOf(bucket, p), cache)
  BY <1>1, <1>3, <1>4 DEF PixelsInv, OwnPixels
<1>6. ASSUME NEW p \in Support(window, bucket)
      PROVE  pixel'[aie[PlaceOf(bucket, p)]] = Ready(p)
  <2>. PICK i : i = aie[PlaceOf(bucket, p)]
    OBVIOUS
  <2>1. i \in DOMAIN pixel
    <3>1. i \in Range(aie)
      BY <1>3, <1>4 DEF Range
    <3>. QED  BY <3>1 DEF PixelsInv, Referred
  <2>2. CASE p \in samples
    <3>1. i \in hit /\ pixel[i] = SampledFor(p)
      BY <1>3, <2>2
    <3>2. pixel'[i] = [pixel[i] EXCEPT !.combined = @ + 1]
      BY <1>1, <2>1, <3>1
    <3>. QED  BY <3>1, <3>2 DEF Ready, SampledFor
  <2>3. CASE p \notin samples
    <3>1. ASSUME NEW q \in samples, aie[PlaceOf(bucket, q)] = i  PROVE FALSE
      <4>1. PlaceOf(bucket, p) = PlaceOf(bucket, q)
        BY <1>3, <1>4, <1>5, <3>1 DEF Alone
      <4>. QED  BY <1>3, <1>4, <2>3, <4>1
    <3>2. i \notin hit
      BY <3>1
    <3>. QED  BY <1>1, <1>3, <2>1, <2>3, <3>2
  <2>. QED  BY <2>2, <2>3
<1>7. ASSUME NEW x \in AllBuckets, NEW side \in DOMAIN cache[x], NEW l \in Local(side)
      PROVE  pixel'[cache[x][side][l]] = pixel[cache[x][side][l]]
  <2>1. cache[x][side][l] \in DOMAIN pixel
    BY SegmentsAlive
  <2>2. l \in DOMAIN cache[x][side]
    BY DEF PixelsInv, SegmentsKept
  <2>3. cache[x][side][l] \notin hit
    BY <1>5, <2>2 DEF Alone, Unshared
  <2>. HIDE DEF hit
  <2>. QED  BY <1>1, <2>1, <2>3
<1>8. \A p : SampledFor(p)' = SampledFor(p) /\ Ready(p)' = Ready(p)
  BY <1>2 DEF SampledFor, Ready, SameFrame
<1>9. \A b : Support(window, b)' = Support(window, b)
  BY <1>2 DEF Support, SameFrame
<1>10. SegmentsReady'
  <2>1. ASSUME NEW x \in Buckets \ processed, NEW side \in DOMAIN cache[x], NEW l \in Local(side),
               Raster(x, Into(l, side)) \in Support(window, x)
        PROVE  pixel'[cache[x][side][l]] = Ready(Raster(x, Into(l, side)))
    BY <1>2, <1>7, <2>1 DEF ReadyInv, SegmentsReady
  <2>. QED  BY <1>1, <1>2, <1>8, <1>9, <2>1 DEF SegmentsReady, SameFrame
<1>11. BucketReady'
  <2>1. \A p : PlaceOf(bucket, p)' = PlaceOf(bucket, p)
    BY <1>1 DEF PlaceOf
  <2>2. Support(window, bucket)' = Support(window, bucket)
    BY <1>1, <1>2 DEF Support, SameFrame
  <2>. QED  BY <1>1, <1>6, <1>8, <2>1, <2>2 DEF BucketReady, FilterInputsReady, Ready
<1>. QED  BY <1>10, <1>11

LEMMA ReadyHandOver ==
  ASSUME Ordered, PixelsInv, ReadyInv, HandOver
  PROVE  SegmentsReady' /\ BucketReady'
<1>1. PICK M \in SUBSET Sides :
           /\ DOMAIN aie = Data
           /\ DOMAIN cache' = AllBuckets /\ DOMAIN cache'[bucket] = {}
           /\ \A x \in AllBuckets : \A side \in DOMAIN cache'[x] :
                \/ side \in DOMAIN cache[x] /\ cache'[x][side] = cache[x][side]
                \/ \E i \in 1 .. 12 : /\ Gives(bucket, Gifts[i], x, side)
                                      /\ Gifts[i].from \in M /\ cache'[x][side] = Taken(Gifts[i].from)
  BY HandedOwners
<1>2. pc = "filter" /\ pc' = "loop" /\ processed' = processed \cup {bucket}
      /\ pixel' = Holding(pixel, Referred(aie', cache'))
  BY DEF HandOver
<1>3. SameFrame /\ Buckets' = Buckets /\ window \in Windows /\ bucket \in Buckets /\ Buckets \subseteq AllBuckets
  <2>1. SameFrame /\ Buckets' = Buckets
    BY StepFrame DEF SameFrame, Buckets, Region
  <2>. QED  BY <1>2, <2>1, WindowNow DEF Ordered
<1>4. ASSUME NEW x \in AllBuckets, NEW side \in DOMAIN cache'[x], NEW l \in DOMAIN cache'[x][side],
             cache'[x][side][l] \in DOMAIN pixel
      PROVE  pixel'[cache'[x][side][l]] = pixel[cache'[x][side][l]]
  <2>1. cache'[x][side][l] \in Referred(aie', cache')
    BY <1>1 DEF Referred, Range
  <2>. QED  BY <1>2, <1>4, <2>1 DEF Holding
<1>5. ASSUME NEW x \in Buckets \ processed, x # bucket, NEW side \in DOMAIN cache'[x], NEW l \in Local(side),
             Raster(x, Into(l, side)) \in Support(window, x)
      PROVE  pixel'[cache'[x][side][l]] = Ready(Raster(x, Into(l, side)))
  <2>. PICK p : p = Raster(x, Into(l, side))
    OBVIOUS
  <2>1. CASE side \in DOMAIN cache[x] /\ cache'[x][side] = cache[x][side]
    <3>1. pixel[cache[x][side][l]] = Ready(p)
      BY <1>5, <2>1 DEF ReadyInv, SegmentsReady
    <3>2. cache[x][side][l] \in DOMAIN pixel /\ l \in DOMAIN cache[x][side]
      BY <1>3, <2>1, SegmentsAlive DEF PixelsInv, SegmentsKept
    <3>. QED  BY <1>3, <1>4, <2>1, <3>1, <3>2
  <2>2. CASE \E i \in 1 .. 12 : /\ Gives(bucket, Gifts[i], x, side)
                                /\ Gifts[i].from \in M /\ cache'[x][side] = Taken(Gifts[i].from)
    <3>1. PICK i \in 1 .. 12 : Gives(bucket, Gifts[i], x, side) /\ cache'[x][side] = Taken(Gifts[i].from)
      BY <2>2
    <3>2. side = Gifts[i].to /\ x = Neighbour(bucket, Gifts[i].nb)
      BY <3>1 DEF Gives
    <3>. PICK q : q = Into(l, Gifts[i].from)
      OBVIOUS
    <3>3. q \in Data /\ cache'[x][side][l] = aie[q] /\ l \in DOMAIN cache'[x][side]
      BY <3>1, <3>2, TakenFits
    <3>4. Raster(bucket, q) = p
      <4>1. bucket.x \in Int /\ bucket.y \in Int
        BY <1>3, WindowRegion DEF Buckets, OnX, OnY, OnAxis
      <4>. QED  BY <3>2, <4>1, GiftPlaces
    <3>5. p \in Support(window, bucket)
      BY <1>5, <3>1, <3>2, GiftReach
    <3>6. PlaceOf(bucket, p) = q
      BY <1>3, <3>3, <3>4, RasterPlaces DEF Buckets
    <3>7. pixel[aie[q]] = Ready(p)
      BY <1>2, <3>5, <3>6 DEF ReadyInv, BucketReady, FilterInputsReady, Ready
    <3>8. aie[q] \in DOMAIN pixel
      <4>1. aie[q] \in Range(aie)
        BY <1>1, <3>3 DEF Range
      <4>. QED  BY <4>1 DEF PixelsInv, Referred
    <3>. QED  BY <1>3, <1>4, <3>3, <3>7, <3>8
  <2>. QED  BY <1>1, <1>3, <2>1, <2>2
<1>6. \A p : Ready(p)' = Ready(p)
  BY <1>3 DEF SampledFor, Ready, SameFrame
<1>7. \A b : Support(window, b)' = Support(window, b)
  BY <1>3 DEF Support, SameFrame
<1>8. SegmentsReady'
  BY <1>2, <1>3, <1>5, <1>6, <1>7 DEF SegmentsReady, SameFrame
<1>9. BucketReady'
  BY <1>2 DEF BucketReady, FilterInputsReady
<1>. QED  BY <1>8, <1>9

LEMMA ReadyStep ==
  ASSUME OneOrWhole, WholeInv, PixelsInv, ReadyInv, [Next]_vars
  PROVE  ReadyInv'
<1>. USE DEF WholeInv, SeamInv
<1>1. CornersKept'
  BY CornersStep DEF ReadyInv
<1>2. CASE RenderWorld
  <2>1. \A x \in AllBuckets : DOMAIN cache'[x] = {}
    <3>1. \A x \in AllBuckets : DOMAIN cache[x] = {}
      BY <1>2, NothingCarried
    <3>. QED  BY <1>2, <3>1 DEF RenderWorld, NoSegments
  <2>2. Buckets' \subseteq AllBuckets
    <3>1. Ordered'
      BY OrderedStep
    <3>2. window' \in Windows /\ Grid(window)' \subseteq AllBuckets
      <4>1. session' \in Sessions /\ frame' \in 0 .. Len(session')
        BY <3>1 DEF Ordered
      <4>. QED  BY <4>1, FrameWindow DEF window, Grid
    <3>3. Buckets' \subseteq Grid(window)'
      <4>1. Buckets' = BucketsIn(Region(window')) /\ Grid(window)' = Grid(window')
        BY DEF Buckets, Region, Grid, XBuckets, YBuckets
      <4>. QED  BY <3>2, <4>1, WindowRegion
    <3>. QED  BY <3>2, <3>3
  <2>3. SegmentsReady'
    BY <2>1, <2>2 DEF SegmentsReady
  <2>. QED  BY <1>1, <1>2, <2>3 DEF RenderWorld, ReadyInv, BucketReady, FilterInputsReady
<1>3. CASE PreProcess
  BY <1>1, <1>3, ReadyPreProcess DEF ReadyInv
<1>4. CASE Combine
  BY <1>1, <1>4, ReadyCombine DEF ReadyInv
<1>5. CASE HandOver
  BY <1>1, <1>5, ReadyHandOver DEF ReadyInv
<1>6. CASE EndImage \/ UNCHANGED vars
  <2>1. /\ cache' = cache /\ pixel' = pixel /\ aie' = aie /\ processed' = processed /\ bucket' = bucket
        /\ samples' = samples /\ (pc' = pc \/ pc' = "idle")
    BY <1>6 DEF EndImage, vars
  <2>2. SameFrame /\ Buckets' = Buckets
    BY <1>6, StepFrame DEF SameFrame, Buckets, Region
  <2>3. /\ \A p : SampledFor(p)' = SampledFor(p) /\ Ready(p)' = Ready(p)
        /\ \A b : Support(window, b)' = Support(window, b)
    BY <2>2 DEF SampledFor, Ready, SameFrame, Support
  <2>4. SegmentsReady'
    BY <2>1, <2>2, <2>3 DEF SegmentsReady, ReadyInv, SameFrame
  <2>5. BucketReady'
    <3>1. \A p : PlaceOf(bucket, p)' = PlaceOf(bucket, p) /\ \A q : Lent(bucket, q)' = Lent(bucket, q)
      BY <2>1 DEF PlaceOf, Lent
    <3>2. Support(window, bucket)' = Support(window, bucket)
      BY <2>1, <2>2 DEF Support, SameFrame
    <3>. QED  BY <2>1, <2>3, <3>1, <3>2 DEF BucketReady, FilterInputsReady, ReadyInv, Lent
  <2>. QED  BY <1>1, <2>4, <2>5 DEF ReadyInv
<1>. QED  BY <1>2, <1>3, <1>4, <1>5, <1>6 DEF Next

(***************************************************************************)
(* When a bucket is filtered, every pixel the filter reads was sampled in  *)
(* this frame for its raster position and combined exactly once, for every *)
(* size of bucket and filter and every crop window, as long as no frame    *)
(* leaves strips to the next.                                              *)
(***************************************************************************)
THEOREM InputsAreReady == ASSUME OneOrWhole  PROVE Spec => []FilterInputsReady
<1>1. WholeInv /\ PixelsInv /\ ReadyInv /\ [Next]_vars => ReadyInv'
  BY ReadyStep
<1>2. ReadyInv => FilterInputsReady
  BY DEF ReadyInv, BucketReady
<1>. QED  BY <1>1, <1>2, ReadyInit, WholeInvariance, PixelsInvariance, PTL DEF Spec
=============================================================================
