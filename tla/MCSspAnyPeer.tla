---------------------------- MODULE MCSspAnyPeer ----------------------------
(* Every instruction over a few state numbers, the shutdown number among    *)
(* them; the queue's discipline does not depend on what the diffs contain.  *)
EXTENDS SspAnyPeer

CONSTANT MaxNum

BadDiffs == {<< "not a UserMessage" >>}

AnyInstruction ==
  [old_num : 0 .. MaxNum, new_num : 0 .. MaxNum, throwaway_num : 0 .. MaxNum + 1,
   diff : {<< >>} \cup BadDiffs]
=============================================================================
