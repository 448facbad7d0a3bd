---------------------------- MODULE MCSecBufPool ----------------------------
(***************************************************************************)
(* Small instances of SecBufPool for TLC.                                  *)
(***************************************************************************)
EXTENDS SecBufPool

NoFault == {}
CopyAndPipeline == {"copy", "pipeline"}

=============================================================================
