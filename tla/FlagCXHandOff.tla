--------------------------- MODULE FlagCXHandOff ----------------------------
(***************************************************************************)
(* The engines' view of FlagCXTransfer: the promise of KVHandoff.          *)
(***************************************************************************)
EXTENDS FlagCXTransfer

(* The life of t's blocks on P, as its scheduler decides it.               *)
Stage(t) == IF pReq[t] # "held" THEN "none" ELSE IF Freed(t) THEN "freed" ELSE "held"

Copies == copied \cup torn

(* A D rank owns the blocks it has asked for as soon as the last reply is  *)
(* counted, reported to its engine or not.                                 *)
Got(d) == {t \in finishedRecv[d] \cup loaded[d] : dReq[t] = "blocks"}
Received == {x \in DRanks \X Transfers : x[2] \in Got(x[1])}

Abstract == INSTANCE KVHandoff WITH
    stage <- [t \in Transfers |-> Stage(t)], copies <- Copies, received <- Received

(* The connector implements the hand-off the engines rely on: copies are   *)
(* made from held blocks only, a D rank receives a request with no copy    *)
(* missing, and blocks that are free stay free.                            *)
HandOff == Abstract!Spec
=============================================================================
