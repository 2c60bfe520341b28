---------------------------- MODULE AccountStatus ----------------------------
(***************************************************************************)
(* What package instance promises the rest of the program about the global *)
(* map `instances` (src/instance/load_balancer.go, src/instance/manager.go).*)
(*                                                                         *)
(* The proxy handlers see an account only through this map: whether it has *)
(* an entry (GetInstanceState returns nil without one) and the Status of   *)
(* the entry.  An entry is never taken out again, an account gets its first*)
(* entry by being started, and "stopped" is only ever written to an entry. *)
(* Instances.tla is the implementation.                                    *)
(***************************************************************************)

CONSTANT Accounts

VARIABLE view      \* view[a] is the Status of instances[a], or "absent"

Views == {"absent", "running", "stopped", "error"}

ViewOK == view \in [Accounts -> Views]

Init == view = [a \in Accounts |-> "absent"]

(* StartInstance publishes a running instance over whatever was there.     *)
Launch(a) == view' = [view EXCEPT ![a] = "running"]

(* StartInstance or the token refresh loop reports an error.               *)
Fail(a) == view' = [view EXCEPT ![a] = "error"]

(* Mutant: stopping takes the entry away.                                  *)
Halt_Removes(a) ==
    /\ view[a] # "absent"
    /\ view' = [view EXCEPT ![a] = "absent"]

(* StopInstance does nothing for an account without an entry.              *)
Halt(a) ==
    /\ view[a] # "absent"
    /\ view' = [view EXCEPT ![a] = "stopped"]

Next == \E a \in Accounts : Launch(a) \/ Fail(a) \/ Halt(a)

Spec == Init /\ [][Next]_view
=============================================================================
