------------------------------ MODULE Register ------------------------------
(***************************************************************************)
(* What the manifest of a scope promises to whoever reads it, with no      *)
(* etags, requests or races: one value that each operation reads and       *)
(* replaces at once.                                                       *)
(***************************************************************************)
EXTENDS Model

CONSTANT PinPrefixes

VARIABLE register  \* the manifest in effect, Nothing if there is none

Init == register = Nothing

\* The first run of a scope.
First == /\ ~Exists(register)
         /\ register'.epoch = 1 /\ register'.pinned = {}

\* A later run may only add blobs.
Extend == /\ Exists(register)
          /\ register'.epoch = register.epoch + 1
          /\ register'.pinned = register.pinned
          /\ register.blobs \subseteq register'.blobs /\ register.blobs # register'.blobs

\* A forced run starts over: pins go, and the epoch begins again.
Recut == /\ Exists(register)
         /\ register'.epoch = 2 /\ register'.pinned = {}

Repin(pinned) == /\ Exists(register)
                 /\ register' = Bumped([register EXCEPT !.pinned = pinned])

Pin(prefix) == prefix \notin register.pinned /\ Repin(register.pinned \cup {prefix})
Unpin(prefix) == prefix \in register.pinned /\ Repin(register.pinned \ {prefix})

Delete == register' = Nothing

Next == \/ First \/ Extend \/ Recut \/ Delete
        \/ \E prefix \in PinPrefixes : Pin(prefix) \/ Unpin(prefix)

Spec == Init /\ [][Next]_register
=============================================================================
