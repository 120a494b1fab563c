-------------------------- MODULE MC_BpmResource --------------------------
(* Instance of BpmResource for TLC: requests are interchangeable, and so are
   archives.                                                                *)
EXTENDS BpmResource, TLC
Symmetry == Permutations(Admins) \cup Permutations(Archives)

\* A call is told by what it will still read.
Seen(a) ==
  IF pc[a] = "idle" THEN None
  ELSE [pc |-> pc[a], on |-> on[a], stale |-> a \in stale,
        target |-> IF pc[a] \in {"look", "remove", "unname", "erase"} /\ goal[a] = "delete"
                     THEN target[a] ELSE None,
        goal |-> IF pc[a] \in {"look", "remove", "unname"} THEN goal[a] ELSE "none",
        upload |-> IF pc[a] \in {"clear", "fill"} THEN upload[a] ELSE None,
        snap |-> IF pc[a] \in {"find", "look", "erase"} THEN None ELSE snap[a]]
View == <<row, engine, running, counters, latest, crossed, torn, cut,
          [a \in Admins |-> Seen(a)]>>

\* A resource that is no longer sound stays so, and the properties say nothing
\* more about it.
AllSound == \A r \in Resources : Sound(r)
=============================================================================
