----------------------------- MODULE MCUploads -----------------------------
(* An instance of Uploads.                                                 *)
EXTENDS Uploads, TLC

CONSTANTS r1, r2, alice, bob, data, archive

(* alice does everything in the bucket data; bob writes there, too, and    *)
(* reads everything; both read archive, where nobody writes.               *)
MCPerm ==
    (alice :> ((data :> {"r", "w", "c", "d"}) @@ (archive :> {"r"}))) @@
    (bob :> ((data :> {"w"}) @@ (archive :> {})))

(* bob uploaded to data before.                                            *)
MCUsed == << <<data, bob>> >>

Symmetry == Permutations(Requests)
=============================================================================
