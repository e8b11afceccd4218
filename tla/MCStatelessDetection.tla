------------------------- MODULE MCStatelessDetection -------------------------
(***************************************************************************)
(* A URL image, a base64 image and a text for one slot.  The model         *)
(* replies with a list, an object, something else, an inconsistent object. *)
(* Clients sign for an endpoint, with the key or another, in time or not.  *)
(***************************************************************************)
EXTENDS StatelessDetection, TLC

CONSTANTS u1, b1, t1, key, otherKey

Kinds == u1 :> "url" @@ b1 :> "base64" @@ t1 :> "text"

NoScores == [c \in Categories |-> 0]
Porn == [top |-> "porn", scores |-> [NoScores EXCEPT !["porn"] = 4]]
Clean == [top |-> "safe", scores |-> NoScores]
Wrong == [top |-> "safe", scores |-> [NoScores EXCEPT !["porn"] = 4]]

Reply(shape, out) == [shape |-> shape, items |-> <<[index |-> 1, out |-> out]>>]

SomeReplies ==
    {Reply("list", Clean), Reply("object", Porn), Reply("object", Wrong),
     [shape |-> "other", items |-> <<>>]}

Signed(secret, age, path, body) ==
    [headers |-> TRUE, age |-> age, body |-> body,
     signature |-> Sign(secret, age, path, body)]

Unsigned(body) == [Signed(key, 0, "url", body) EXCEPT !.headers = FALSE]
Altered == [Signed(key, 0, "url", "invalid") EXCEPT !.body = "valid"]
NotHex == [Signed(key, 0, "url", "valid") EXCEPT !.signature.hex = FALSE]

SomeCalls ==
    {Signed(secret, age, path, body) :
        secret \in {key, otherKey}, age \in {-2, 0, 1, 2, NotAnInteger},
        path \in {"url", "base64", "text"}, body \in {"valid", "invalid"}}
    \cup {Unsigned("valid"), Unsigned("malformed"), Altered, NotHex}
=============================================================================
