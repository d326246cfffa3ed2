----------------------- MODULE MCHeadlessIdempotency -----------------------
(* Four requests and two keys: three of the requests carry the same key, one
   of them with another payload, or two carry each key. *)
EXTENDS HeadlessIdempotency

CONSTANTS r1, r2, r3, r4, k1, k2

SharedKey == [r \in Request |-> IF r = r4 THEN k2 ELSE k1]
SamePayload == [r \in Request |-> "a"]
OtherPayload == [r \in Request |-> IF r = r3 THEN "b" ELSE "a"]
TwoKeys == [r \in Request |-> IF r \in {r1, r2} THEN k1 ELSE k2]
=============================================================================
