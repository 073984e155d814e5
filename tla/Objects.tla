------------------------------ MODULE Objects ------------------------------
(***************************************************************************)
(* What the storage port promises (the ObjectStore protocol of             *)
(* backend/services/objectstore.py): a key holds the whole of one put or   *)
(* nothing, a put and a removal happen at one moment, and an opened object *)
(* is what its key held at one moment.                                     *)
(***************************************************************************)
CONSTANTS Keys, Values, Nothing, Readers

VARIABLES objects,  \* objects[k]: the value under k, or Nothing
          opened    \* opened[r]: what r has open, or Nothing

Put(k, v) == objects' = [objects EXCEPT ![k] = v] /\ UNCHANGED opened

Remove(ks) == objects' = [k \in Keys |-> IF k \in ks THEN Nothing ELSE objects[k]] /\ UNCHANGED opened

Open(r, k) == objects[k] # Nothing /\ opened' = [opened EXCEPT ![r] = objects[k]] /\ UNCHANGED objects

\* Readers close what they have open, together when their process dies.
Close(rs) == opened' = [r \in Readers |-> IF r \in rs THEN Nothing ELSE opened[r]] /\ UNCHANGED objects

Init == objects = [k \in Keys |-> Nothing] /\ opened = [r \in Readers |-> Nothing]

Next ==
    \/ \E k \in Keys, v \in Values : Put(k, v)
    \/ \E ks \in SUBSET Keys : Remove(ks)
    \/ \E rs \in SUBSET Readers : Close(rs)
    \/ \E r \in Readers, k \in Keys : Open(r, k)

Spec == Init /\ [][Next]_<<objects, opened>>
=============================================================================
