---------------------------- MODULE MCInferBucket ---------------------------
(* Instances of InferBucket for TLC: two buckets that overlap.             *)
EXTENDS InferBucket, TLC

CONSTANTS b1, b2, c1, c2, c3, c4, c5, w1, w2, w3

TwoBuckets ==
  [x \in {c1, c2, c3, w1, w2} |-> b1] @@ [x \in {c4, c5, w3} |-> b2]
=============================================================================
