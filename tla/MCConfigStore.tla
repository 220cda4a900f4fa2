---------------------------- MODULE MCConfigStore ----------------------------
(* Small instances of ConfigStore for TLC. *)
EXTENDS ConfigStore, TLC

Fixed(n) == [name |-> n, of |-> None]
OfApp(n) == [name |-> n, of |-> App]

\* Two globals: one type, which both Boots have, and the profiles.  The type's
\* array has room for claims in the first configuration and is full in the second,
\* which alone has the profile.
RoomOrFull ==
    ("room" :> << <<OfApp("x")>>, <<>> >>)
        @@ ("full" :> << <<Fixed("x"), Fixed("x"), OfApp("x"), OfApp("x")>>, <<OfApp("x")>> >>)

\* One mount, as the PHP type of configs/config.yaml has.
SingleMount == ("room" :> [g \in 1..2 |-> <<Fixed("x")>>])

RequestSymmetry == Permutations(Requests)

AllFirst == [b \in Boots |-> 1]

\* Each Boot has a claim named after it; the last one has none.
OneClaim == [b \in Boots |-> IF b = "b3" THEN <<>> ELSE <<OfApp("claim")>>]
=============================================================================
