------------------------------- MODULE MCNode -------------------------------
(***************************************************************************)
(* Node with a list of proxy URIs, for TLC.                                  *)
(***************************************************************************)
EXTENDS Node

\* "ssdp" finds nobody, then a "calvinip" URI.
MCUris == <<FALSE, TRUE>>
=============================================================================
