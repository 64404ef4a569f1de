---------------------------- MODULE MCRdpMuxFlow ----------------------------
(***************************************************************************)
(* RdpMuxFlow on a framebuffer of one pixel, for TLC.                      *)
(***************************************************************************)
EXTENDS MCRdpMux, RdpMuxFlow
=============================================================================
