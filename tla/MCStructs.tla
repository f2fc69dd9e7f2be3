------------------------------ MODULE MCStructs ------------------------------
(* Instances of Structs for TLC.                                           *)
EXTENDS Structs

\* Hashes that spread the items, crowd them and send many to the last slots.
MCHashes ==
    {[n \in Items |-> (a * n * n + b * n + c) % m] :
        a \in 0 .. 2, b \in 0 .. 3, c \in {0, 7, 9}, m \in {1, 2, 11, 27, 260}}
=============================================================================
