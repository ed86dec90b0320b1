---------------------------- MODULE MCHashUpload ----------------------------
(* Instances of HashUpload for TLC. *)
EXTENDS HashUpload

MCNone == {}

(* Two equal files uploaded in parts and a chunked file whose first chunk  *)
(* is their content; the hash of the chunked file is cached, and its last  *)
(* chunk is stored.                                                        *)
MCShared == <<<<"a", "b">>, <<"a", "b">>, <<"a", "b", "c">>>>
MCTriple == {1, 2, 3}
MCCached == {3}
MCStored == {<<"c">>}
MCVersions == {<<"b">>}
MCFaults == {"read", "put", "part", "complete", "create", "abort", "exists", "callback"}

(* Two equal files uploaded in parts. *)
MCEqual == <<<<"a", "b">>, <<"a", "b">>>>
MCPair == {1, 2}
MCCreate == {"create"}
=============================================================================
