--------------------------- MODULE MCMetaScheduler --------------------------
(* A small instance of MetaScheduler. *)
EXTENDS MetaScheduler

CONSTANTS t1, t2, s1, s2, m1, m2

SchedulerList == <<s1, s2>>
Modes == [m \in {m1, m2} |->
            IF m = m1 THEN s1 :> "Timed" @@ s2 :> "All" ELSE s1 :> "Some" @@ s2 :> "Disabled"]
MetaAffinity == m1 :> {0} @@ m2 :> {}
ThreadHome == t1 :> {0, 1} @@ t2 :> {1}
Work == s1 :> 1 @@ s2 :> 0
=============================================================================
