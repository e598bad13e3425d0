---------------------------- MODULE PrivateBucket ----------------------------
(***************************************************************************)
(* What MinioStorage promises of its bucket: it is created or made private *)
(* before anything is stored in it, and never made public again.           *)
(***************************************************************************)
CONSTANT Keys            \* object keys

VARIABLES bucket, objects

BucketStates == {"missing", "public", "private"}

Init == bucket \in BucketStates /\ objects = {}

\* _ensure_private_bucket: a new bucket has no policy.
Prepare ==
    /\ bucket \in {"missing", "public"}
    /\ bucket' = "private"
    /\ UNCHANGED objects

Put(k) ==
    /\ bucket = "private"
    /\ objects' = objects \cup {k}
    /\ UNCHANGED bucket

\* delete: the bucket is whatever was found, and a missing key is no error.
Remove(k) ==
    /\ bucket # "missing"
    /\ objects' = objects \ {k}
    /\ UNCHANGED bucket

Next == Prepare \/ \E k \in Keys : Put(k) \/ Remove(k)

Spec == Init /\ [][Next]_<<bucket, objects>>

=============================================================================
