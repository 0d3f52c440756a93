----------------------------- MODULE ConfStore -----------------------------
(***************************************************************************)
(* What conf_write promises: under every name there is a whole             *)
(* configuration or none, and saving replaces it in one step.  The names   *)
(* in torn were last saved by a signal handler that interrupted a save, of *)
(* which nothing is promised but that it is one step too.                  *)
(***************************************************************************)
EXTENDS ConfLines

VARIABLES store, torn

Init ==
    /\ store = [n \in Name |-> Missing]
    /\ torn = {}

Put(n) == store'[n].exists /\ store' = [store EXCEPT ![n] = store'[n]]

Save(n) ==
    /\ Put(n)
    /\ Whole(store'[n])
    /\ torn' = torn \ {n}

SaveInterrupted(n) ==
    /\ Put(n)
    /\ torn' = torn \cup {n}

Next == \E n \in Name : Save(n) \/ SaveInterrupted(n)

Spec == Init /\ [][Next]_<<store, torn>>
=============================================================================
