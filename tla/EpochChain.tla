----------------------------- MODULE EpochChain -----------------------------
(***************************************************************************)
(* What the S3 engine promises of its manifests, with no objects and no    *)
(* requests in it: a chain that only grows, one epoch at a time.  The      *)
(* owner of the last manifest may extend the chain with any segments; a    *)
(* different writer may only take it over, with the segments as they are.  *)
(* S3Manifest is shown to implement this specification.                    *)
(***************************************************************************)
EXTENDS Naturals, Sequences

CONSTANTS Writers, Segments, MaxEpoch

VARIABLE chain

Manifest == [epoch : 0..MaxEpoch, writer_id : Writers, segments : Segments]

\* A new link either keeps the owner or keeps the segments.
Succeeds(next, last) ==
    \/ next.writer_id = last.writer_id
    \/ next.segments = last.segments

Init == chain = <<>>

Extend(next) ==
    /\ next.epoch = Len(chain)
    /\ chain # <<>> => Succeeds(next, chain[Len(chain)])
    /\ chain' = Append(chain, next)

Next == \E next \in Manifest : Extend(next)

Spec == Init /\ [][Next]_chain
=============================================================================
