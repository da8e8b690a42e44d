----------------------------- MODULE MCStoreOpen -----------------------------
(***************************************************************************)
(* Small instances of the store's opening and of the janitor: two builds,  *)
(* two or three directories of the same size.                              *)
(***************************************************************************)
EXTENDS CentralJanitor, TLC

CONSTANTS p1, p2, d1, d2, d3

\* A release and the one before it.
OldAndNew == p1 :> 1 @@ p2 :> 2
OneBuild == p1 :> 1

\* A store that was left long ago.
LongLeft == {[d \in Dirs |-> [there |-> TRUE, file |-> 1, touched |-> 0]]}

\* A store that was left long ago and none, or another of today.
OldAndYoung ==
    {[d \in Dirs |-> IF d = d1 THEN [there |-> TRUE, file |-> 1, touched |-> 0] ELSE young] :
        young \in {Gone, [there |-> TRUE, file |-> 2, touched |-> Now]}}

OneEach == [d \in Dirs |-> 1]
=============================================================================
