--------------------------- MODULE DisplayManager ---------------------------
(***************************************************************************)
(* CqDDManager: the displays asked for by RiDisplay, the driver libraries  *)
(* behind them, and the way of a bucket's pixels to the images the drivers *)
(* hold.  The driver is the file driver (tools/displays/file), which also  *)
(* writes shadow maps.  A pixel is its raster position: what an image      *)
(* stores at a place is the position of the pixel it got for it.           *)
(***************************************************************************)
EXTENDS BucketGrid, Sequences, SequencesExt

CONSTANTS Drivers,     \* the display types
          Scanline     \* those asked for with the parameter "scanlineorder"

ASSUME ScanlineDrivers == Scanline \subseteq Drivers

VARIABLES libraries,   \* by driver: what is behind its name
          requests,    \* m_displayRequests of the current manager
          images       \* the images drivers were asked to open, until RiWorldEnd returns

\* A library that is not to be found or cannot be loaded, one that loads and
\* has none of the methods, and a driver.
Libraries == {"missing", "hollow", "driver"}

Blank == [x |-> -1, y |-> -1]

Area(r) == (r.xMax - r.xMin) * (r.yMax - r.yMin)
Wide(r) == r.xMax - r.xMin
High(r) == r.yMax - r.yMin

\* The constructor leaves the method pointers and the buffers uninitialised.
NewRequest(d) == [driver |-> d, valid |-> FALSE, methods |-> "wild", handle |-> 0,
                  params |-> <<>>, wide |-> 0, high |-> 0, room |-> 0, row |-> <<>>]

\* AddDisplay and ClearDisplays.
AddDisplay(d) == Append(requests, NewRequest(d))
NoDisplays == <<>>

(*************************** the file driver *******************************)

\* The places of an image or a buffer of the size of region r.
Places(r) == BucketsIn([xMin |-> 0, yMin |-> 0, xMax |-> Wide(r), yMax |-> High(r)])

\* DspyImageOpen: "origin" and "OriginalSize" are looked up in the parameters
\* of the request, where the first of a name is found; a pixel has each channel
\* as often as the request was opened.
NewImage(r, crop) ==
  [driver |-> r.driver, state |-> "open", crop |-> crop, origin |-> Head(r.params).origin,
   whole |-> Head(r.params).size = [x |-> Wide(crop), y |-> High(crop)],
   stale |-> Head(r.params) # Last(r.params), channels |-> Len(r.params),
   data |-> [p \in Places(crop) |-> Blank]]

Origin(image) == IF image.whole THEN [x |-> 0, y |-> 0] ELSE image.origin

\* DspyImageData: the part of region r that lies in the image is copied; data
\* holds the pixels of r by their place in r.
Stored(image, r, data) ==
  LET o == Origin(image)
  IN  [p \in DOMAIN image.data |->
        IF p.x + o.x \in r.xMin .. r.xMax - 1 /\ p.y + o.y \in r.yMin .. r.yMax - 1
        THEN data[[x |-> p.x + o.x - r.xMin, y |-> p.y + o.y - r.yMin]]
        ELSE image.data[p]]

\* Rows are to be copied, of which none of the columns is in the image.
Negative(image, r) ==
  LET o == Origin(image)
  IN  /\ \E p \in DOMAIN image.data : p.y + o.y \in r.yMin .. r.yMax - 1
      /\ r.xMax < o.x \/ r.xMin > o.x + Wide(image.crop)

\* An image takes data only while it is open; more, a second close, and a copy
\* of a negative length are undefined: the image is misused.
Fed(image, r, data) == IF image.state = "open" /\ ~Negative(image, r)
                       THEN [image EXCEPT !.data = Stored(image, r, data)]
                       ELSE [image EXCEPT !.state = "misused"]

\* The close of an image, that of one the driver has refused to open too.
Closed(image) == [image EXCEPT !.state = CASE @ = "open" -> "closed"
                                           [] @ = "refused" -> "abandoned"
                                           [] OTHER -> "misused"]

(*************************** a display request *****************************)

\* Mutant: the handle and the methods are kept.
Released_Kept(r) == [r EXCEPT !.room = 0, !.row = <<>>]

\* CloseDisplayLibrary: what it leaves in the request (m_valid stays), and the
\* images it closes.
Released(r) == [r EXCEPT !.methods = "null", !.handle = 0, !.room = 0, !.row = <<>>]
AfterClose(r, imgs) == IF r.methods = "bound" THEN [imgs EXCEPT ![r.handle] = Closed(@)] ELSE imgs

\* LoadDisplayLibrary up to the call of the driver: the size, then the methods
\* of the library, and the parameters and the formats, both appended to those of
\* earlier openings: params stands for both.
Sized(r, crop) == [r EXCEPT !.wide = Wide(crop), !.high = High(crop)]
Opening(r, crop, res) ==
  [Sized(r, crop) EXCEPT !.methods = "bound", !.handle = Len(images) + 1, !.room = 0, !.row = <<>>,
                         !.params = Append(@, [origin |-> [x |-> crop.xMin, y |-> crop.yMin],
                                               size |-> res])]

\* CqDisplayRequest::DisplayBucket sends nothing for the others.
Live(r) == r.valid /\ r.methods = "bound"

\* The place in m_DataRow CollapseBucketsToScanlines gives a pixel, and what
\* m_DataRow holds then; places past its end are not modelled.
RowPlace(r, g, p) == r.wide * (p.y - g.yMin) + p.x
Collapsed(r, g) ==
  LET row == IF r.row = <<>> THEN [i \in 0 .. r.wide * r.high - 1 |-> Blank] ELSE r.row
      To(i) == {p \in BucketsIn(g) : RowPlace(r, g, p) = i}
  IN  [i \in DOMAIN row |-> IF To(i) = {} THEN row[i]
                            ELSE CHOOSE p \in To(i) : \A q \in To(i) : q.y <= p.y]

\* Mutant: the row is kept for a bucket that ends where the image does.
RowFull_Past(r, g) == g.xMax > r.wide

RowFull(r, g) == g.xMax >= r.wide

\* Mutant: the buffer is made no larger than the crop window.
Formatted_Small(r, g) ==
  IF ~Live(r) THEN r
  ELSE [r EXCEPT !.room = IF @ # 0 THEN @ ELSE IF Area(g) < r.wide * r.high THEN Area(g)
                                                                             ELSE r.wide * r.high,
                 !.row = IF r.driver \in Scanline THEN Collapsed(r, g) ELSE @]

\* FormatBucketForDisplay makes m_DataBucket as large as the first bucket is.
Formatted(r, g) ==
  IF ~Live(r) THEN r
  ELSE [r EXCEPT !.room = IF @ = 0 THEN Area(g) ELSE @,
                 !.row = IF r.driver \in Scanline THEN Collapsed(r, g) ELSE @]

\* DisplayBucket: the pixels of the bucket, or the rows of buckets SendToDisplay
\* hands over when the last bucket of the row has come.
Rows(r, g) == [xMin |-> 0, yMin |-> g.yMin, xMax |-> r.wide, yMax |-> g.yMax]
BucketData(g) == [q \in Places(g) |-> [x |-> g.xMin + q.x, y |-> g.yMin + q.y]]
RowData(r, g) ==
  [q \in Places(Rows(r, g)) |->
     LET i == r.wide * q.y + q.x IN IF i \in DOMAIN r.row THEN r.row[i] ELSE Blank]

Sent(r, g, image) == IF r.driver \notin Scanline THEN Fed(image, g, BucketData(g))
                     ELSE IF RowFull(r, g) THEN Fed(image, Rows(r, g), RowData(r, g))
                     ELSE image

(***************************** the manager *********************************)

\* DisplayBucket: a bucket beside the crop window is not sent.
Beside(g, crop) == \/ g.xMax <= crop.xMin \/ g.yMax <= crop.yMin
                   \/ g.xMin > crop.xMax \/ g.yMin > crop.yMax

DisplayBucket(g, crop) ==
  IF Beside(g, crop) THEN UNCHANGED <<requests, images>>
  ELSE LET after == [i \in DOMAIN requests |-> Formatted(requests[i], g)]
           Feeds(h) == {i \in DOMAIN after : Live(after[i]) /\ after[i].handle = h}
       IN  /\ requests' = after
           /\ images' = [h \in DOMAIN images |->
                           IF Feeds(h) = {} THEN images[h]
                           ELSE Sent(after[CHOOSE i \in Feeds(h) : TRUE], g, images[h])]

\* Every request closes the image it has a handle for, if it has the methods.
Closing(h) == {i \in DOMAIN requests : requests[i].methods = "bound" /\ requests[i].handle = h}

CloseDisplays ==
  /\ requests' = [i \in DOMAIN requests |-> Released(requests[i])]
  /\ images' = [h \in DOMAIN images |->
                  CASE Closing(h) = {} -> images[h]
                    [] \E i \in DOMAIN requests : Closing(h) = {i} -> Closed(images[h])
                    [] OTHER -> [images[h] EXCEPT !.state = "misused"]]

(* LoadDisplayLibrary for request i has six ends. *)

Library(i) == libraries[requests[i].driver]

\* The driver opens the image.
DriverOpens(i, crop, res) ==
  /\ Library(i) = "driver"
  /\ requests' = [requests EXCEPT ![i] = [Opening(@, crop, res) EXCEPT !.valid = TRUE]]
  /\ images' = Append(images, NewImage(requests'[i], crop))

\* The driver answers an error: CloseDisplayLibrary calls its close all the
\* same, and the request is as valid as it was before.
DriverRefuses(i, crop, res) ==
  LET opening == Opening(requests[i], crop, res)
      refused == [NewImage(opening, crop) EXCEPT !.state = "refused"]
  IN  /\ Library(i) = "driver"
      /\ requests' = [requests EXCEPT ![i] = Released(opening)]
      /\ images' = AfterClose(opening, Append(images, refused))

\* Without DspyImageOpen nothing is called, no error is reported, and the
\* request is as valid as it was before; the other methods are not there either.
DriverHollow(i, crop) ==
  /\ Library(i) = "hollow"
  /\ requests' = [requests EXCEPT ![i] = [Sized(@, crop) EXCEPT !.methods = "null", !.room = 0, !.row = <<>>]]
  /\ UNCHANGED images

\* No library for a display that is not the first: it is skipped.  Loading
\* fails before any method is looked up.
DriverSkipped(i, crop) ==
  /\ Library(i) = "missing" /\ i > 1
  /\ requests' = [requests EXCEPT ![i] = Released(Sized(@, crop))]
  /\ images' = AfterClose(requests[i], images)

\* CloseDisplayLibrary calls what the uninitialised pointers point to.
DriverWild(i) == Library(i) = "missing" /\ i > 1 /\ requests[i].methods = "wild"

\* No library for the first display: LoadDisplayLibrary throws.
DriverThrows(i, crop) ==
  /\ Library(i) = "missing" /\ i = 1
  /\ requests' = [requests EXCEPT ![i] = Sized(@, crop)]
  /\ UNCHANGED images
=============================================================================
