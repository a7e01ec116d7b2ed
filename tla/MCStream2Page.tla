---------------------------- MODULE MCStream2Page ----------------------------
(* Instance of Stream2Page for TLC. *)
EXTENDS Stream2Page

MCSample == 0 .. MaxQueued
=============================================================================
