----------------------------- MODULE MC_Memory -----------------------------
(* Instances of TaskMM's memory: one of its parts at a time. *)
EXTENDS Pages, RbTree

CONSTANT Parts

VARIABLE part

MCSegments     == <<[va |-> 0, memsz |-> 3, w |-> TRUE]>>
MCIncrements   == {-2, 2}
MCMessagePages == {<<7>>}

MCInit == part \in Parts /\ PagesInit /\ BuddyInit /\ RbInit

MCNext ==
  /\ UNCHANGED part
  /\ \/ part = "pages" /\ PagesNext /\ UNCHANGED <<bvars, rbvars>>
     \/ part = "buddy" /\ BuddyNext /\ UNCHANGED <<pvars, rbvars>>
     \/ part = "rbtree" /\ RbNext /\ UNCHANGED <<pvars, bvars>>

MCSpec == MCInit /\ [][MCNext]_<<part, pvars, bvars, rbvars>>
=============================================================================
