--------------------------- MODULE MCChatTimeline ---------------------------
(***************************************************************************)
(* The model-checked instance of ChatTimeline; its constants are in the    *)
(* .cfg. The merges of lib/chatRealtime.ts go through their queue event by *)
(* event; ChatTimeline says at once what that leaves, and the assumption   *)
(* compares the two on every page and queue of this size.                  *)
(***************************************************************************)
EXTENDS ChatTimeline

MergeOne(rows, event) ==
  IF event.kind = "UPDATE" THEN applyMessageUpdate(rows, event.id, TRUE)
  ELSE mergeIncomingMessage(rows, event.id, FALSE)

SmallEvents == [kind : {"INSERT", "UPDATE"}, id : {1, 2}]

ASSUME MergeAssumption ==
  \A shown \in SUBSET {1, 2} : \A page \in [shown -> BOOLEAN] :
    \A queue \in BoundedSeq(SmallEvents, 4) :
      mergeLoadedPage(page, queue) = FoldLeft(MergeOne, page, queue)
=============================================================================
