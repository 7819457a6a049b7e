---------------------------- MODULE MCCacheStack ----------------------------
(* Model-checking instance of CacheStack: a core with split first-level     *)
(* caches and a core with one, private second levels, a shared third.  All  *)
(* first levels use b1; b2 and b3 compete with it, so that every level      *)
(* evicts clean and dirty lines that the level below keeps.                 *)
EXTENDS CacheStack, TLC

CONSTANTS b1, b2, b3

Tree == ("i1" :> "l2a") @@ ("d1" :> "l2a") @@ ("d2" :> "l2b")
        @@ ("l2a" :> "l3") @@ ("l2b" :> "l3")
Associativity == [c \in Cache |-> IF c \in {"l2a", "l3"} THEN 2 ELSE 1]
Requests ==
  ({"d1", "d2"} \X Op \X {b1}) \cup {<<"i1", "READ", b1>>, <<"l2a", "PREFETCH", b1>>}
  \cup {<<"d1", "WRITE", b2>>, <<"d2", "READ", b3>>, <<"d2", "WRITE", b3>>}
  \cup ({"l3"} \X {"INV_REQ", "FLUSH_REQ", "WB_REQ"} \X {b1, b3})
AllModes == [direct : BOOLEAN, writethrough : BOOLEAN]
=============================================================================
