---------------------------- MODULE CallbackLease ----------------------------
(***************************************************************************)
(* What the TUN bridge promises about a Java callback object, seen from    *)
(* the outside: the app hands a callback over once, worker goroutines may  *)
(* borrow it to call into the app, and the bridge revokes it once, at a    *)
(* moment when nobody is borrowing it.  After that it is never borrowed.   *)
(***************************************************************************)
CONSTANTS Leases,     \* the callbacks ever handed over
          Borrowers   \* the goroutines that call into the app

VARIABLES phase,      \* phase[l]: "free", "granted" or "revoked"
          borrowed    \* borrowed[b]: the set of leases b is using (0 or 1)

leaseVars == <<phase, borrowed>>

Phases == {"free", "granted", "revoked"}

Init == /\ phase = [l \in Leases |-> "free"]
        /\ borrowed = [b \in Borrowers |-> {}]

Grant(l) == /\ phase[l] = "free"
            /\ phase' = [phase EXCEPT ![l] = "granted"]
            /\ UNCHANGED borrowed

Borrow(b, l) == /\ borrowed[b] = {}
                /\ phase[l] = "granted"
                /\ borrowed' = [borrowed EXCEPT ![b] = {l}]
                /\ UNCHANGED phase

Return(b) == /\ borrowed[b] # {}
             /\ borrowed' = [borrowed EXCEPT ![b] = {}]
             /\ UNCHANGED phase

Revoke(l) == /\ phase[l] = "granted"
             /\ \A b \in Borrowers : l \notin borrowed[b]
             /\ phase' = [phase EXCEPT ![l] = "revoked"]
             /\ UNCHANGED borrowed

Next == \/ \E l \in Leases : Grant(l) \/ Revoke(l)
        \/ \E b \in Borrowers : Return(b) \/ \E l \in Leases : Borrow(b, l)

Spec == Init /\ [][Next]_leaseVars
==============================================================================
