------------------------ MODULE MCHttp2StreamManager ------------------------
(***************************************************************************)
(* Instances of Http2StreamManager: two request streams, so that a second  *)
(* stream can be opened, refused or arrive late while the first is in the  *)
(* table or already retired, and one pushed stream for the client.         *)
(***************************************************************************)
EXTENDS Http2StreamManager

MCRequestIds == {1, 3}
MCPushIds == {2}
MCKMax == 9
MCMaxFrames == [m \in Modes |-> IF m = "serverTls" THEN 2 ELSE 3]
=============================================================================
