--------------------------- MODULE ChannelCommon ---------------------------
(***************************************************************************)
(* channel_common.h: the two channels and the status a channel can have.   *)
(***************************************************************************)
Right == "right"
Left  == "left"
ChannelIndex  == {Right, Left}
ChannelStatus == {"unknown", "inactive", "active"}
=============================================================================
