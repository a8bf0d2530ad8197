---------------------------- MODULE OwnerContract ----------------------------
(***************************************************************************)
(* What one attachment owner promises to the admission that created it,   *)
(* whatever its requests do.  ResidentAdmissions relies on nothing else:  *)
(*                                                                         *)
(*   - work is retained only while the owner accepts, and never again     *)
(*     once it has stopped accepting;                                      *)
(*   - a request whose cleanup failed is retained for good and the owner  *)
(*     accepts nothing afterwards;                                         *)
(*   - a close that was asked for ends in exactly one of two answers:     *)
(*     "drained", with nothing retained, or "failed", with the request    *)
(*     whose cleanup is unverified still retained as evidence.            *)
(***************************************************************************)
EXTENDS FiniteSets, Naturals

CONSTANTS Requests,         \* requests the owner may be handed
          MaxRequests       \* MAX_ADAPTER_REQUESTS, adapter-limits.ts

VARIABLES retained,         \* requests the owner still answers for
          stuck,            \* the retained ones whose cleanup failed
          open,             \* it still accepts work
          asked,            \* a close was asked for
          answer            \* of that close: "pending", "drained", "failed"

vars == <<retained, stuck, open, asked, answer>>

Init == /\ retained = {} /\ stuck = {}
        /\ open = TRUE /\ asked = FALSE
        /\ answer = "pending"

Retain(r) == /\ open /\ r \notin retained
             /\ Cardinality(retained) < MaxRequests
             /\ retained' = retained \union {r}
             /\ UNCHANGED <<stuck, open, asked, answer>>

Discharge(r) == /\ r \in retained \ stuck
                /\ retained' = retained \ {r}
                /\ UNCHANGED <<stuck, open, asked, answer>>

Stick(r) == /\ r \in retained \ stuck
            /\ stuck' = stuck \union {r}
            /\ open' = FALSE
            /\ UNCHANGED <<retained, asked, answer>>

Ask == /\ open' = FALSE /\ asked' = TRUE
       /\ UNCHANGED <<retained, stuck, answer>>

Answer == /\ asked /\ answer = "pending"
          /\ answer' \in (IF retained = {} THEN {"drained"} ELSE {})
                           \union (IF stuck # {} THEN {"failed"} ELSE {})
          /\ UNCHANGED <<retained, stuck, open, asked>>

Next == \/ \E r \in Requests : Retain(r) \/ Discharge(r) \/ Stick(r)
        \/ Ask \/ Answer

Spec == Init /\ [][Next]_vars
=============================================================================
