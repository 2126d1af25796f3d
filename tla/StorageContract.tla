---------------------------- MODULE StorageContract ----------------------------
(***************************************************************************)
(* What the storage deletion outbox promises about the file at a location: *)
(*                                                                         *)
(*   none -> loose -> kept -> owed -> none                                 *)
(*                                                                         *)
(* A file of a document (kept) is given up only by a deletion that was     *)
(* accepted (owed), and an accepted deletion ends with the file gone: it   *)
(* is never forgotten while the file is there.  Loose files are uploads    *)
(* without their document, leftovers and copies.                           *)
(***************************************************************************)
CONSTANT Locations
VARIABLE file   \* [Locations -> status]

Move(l, from, to) == file[l] = from /\ file' = [file EXCEPT ![l] = to]

Appear(l) == Move(l, "none", "loose")
Vanish(l) == Move(l, "loose", "none")
Keep(l) == Move(l, "loose", "kept")
\* An orphan, by order of an operator, though it may have gone meanwhile.
Dispose(l) == Move(l, "loose", "owed") \/ Move(l, "none", "owed")
Done(l) == Move(l, "owed", "none")
\* An upload that an operator took for an orphan gets its document after all.
Late(l) == Move(l, "owed", "kept") \/ Move(l, "none", "kept")

\* One document, or all of an account.
Accept(S) == /\ \A l \in S : file[l] = "kept"
             /\ file' = [l \in Locations |-> IF l \in S THEN "owed" ELSE file[l]]

Init == file \in [Locations -> {"none", "loose"}]
Next == \/ \E l \in Locations : \/ Appear(l) \/ Vanish(l) \/ Keep(l) \/ Dispose(l)
                                \/ Done(l) \/ Late(l)
        \/ \E S \in SUBSET Locations : Accept(S)
Spec == Init /\ [][Next]_file

=============================================================================
