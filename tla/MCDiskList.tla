----------------------------- MODULE MCDiskList -----------------------------
(* A stick that is mounted at two places under one number, the one below   *)
(* the other, with a directory of the user on it, and a partition that     *)
(* stays, with the default directory on it.                                *)
EXTENDS DiskList

Mount(d, p, n, r) == [dev |-> d, path |-> p, number |-> n, removeable |-> r]

MCMounts == <<Mount("system", "/s", 0, FALSE), Mount("stick", "/a", 2049, TRUE),
              Mount("stick", "/a/c", 2049, TRUE)>>
MCUserPaths == {"/a/u"}
MCSubOf(p, q) == \/ p \in {"/a/c", "/a/u"} /\ q = "/a"
                 \/ p = "/s/d" /\ q = "/s"
=============================================================================
