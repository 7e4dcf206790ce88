----------------------------- MODULE MCDevices -----------------------------
(* The devices under any guest, for TLC. *)
EXTENDS VMDevices

MCTyped == <<97, 66>>
====
