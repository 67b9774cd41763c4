------------------------------ MODULE MCXv6Pipe -----------------------------
(* Small instances of Xv6Pipe for TLC. *)
EXTENDS Xv6Pipe
=============================================================================
