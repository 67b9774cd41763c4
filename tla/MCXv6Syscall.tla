---------------------------- MODULE MCXv6Syscall ----------------------------
(* Small instances of Xv6Syscall for TLC. *)
EXTENDS Xv6Syscall
=============================================================================
