--------------------------- MODULE BucketDelivery ---------------------------
(***************************************************************************)
(* What CqImageBuffer::RenderImage promises the display manager: every     *)
(* bucket of the crop region is handed over at most once, in row-major     *)
(* order with none skipped, and the render ends only when all of them are  *)
(* delivered or a quit was asked for.                                      *)
(***************************************************************************)
EXTENDS BucketGrid

CONSTANT Region

VARIABLES delivered, cancelled, finished

vars == <<delivered, cancelled, finished>>

Init == delivered = {} /\ cancelled = FALSE /\ finished = FALSE

Deliver(b) == /\ ~finished
              /\ b \notin delivered
              /\ delivered = {a \in BucketsIn(Region) : Before(a, b)}
              /\ delivered' = delivered \cup {b}
              /\ UNCHANGED <<cancelled, finished>>

Cancel == ~cancelled /\ cancelled' = TRUE /\ UNCHANGED <<delivered, finished>>

Finish == /\ ~finished
          /\ cancelled \/ delivered = BucketsIn(Region)
          /\ finished' = TRUE
          /\ UNCHANGED <<delivered, cancelled>>

Next == (\E b \in BucketsIn(Region) : Deliver(b)) \/ Cancel \/ Finish

Spec == Init /\ [][Next]_vars
=============================================================================
