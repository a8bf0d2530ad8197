-------------------------- MODULE SelectionOwnership --------------------------
(***************************************************************************)
(* What the selection protocol of one private directory promises about    *)
(* who may choose, launch, publish or retire a generation there           *)
(* (docs/adr/0003-adopt-mcporter-resident-lifecycle.md): ownership is      *)
(* exclusive; it goes from a launcher through Start authorization to that *)
(* launcher's own child and to nobody else; it is given up by its owner,   *)
(* and once nobody can answer for it, it is nobody's again.                *)
(***************************************************************************)
CONSTANTS Launchers, Free, Stranded

VARIABLE owner      \* Free, Stranded, or <<role, launcher>>

Roles == {"launcher", "start", "generation"}
Party == Roles \X Launchers

Init == owner = Free

Take(p) == owner = Free /\ p[1] # "start" /\ owner' = p

HandStart(l) == owner = <<"launcher", l>> /\ owner' = <<"start", l>>
HandChild(l) == owner = <<"start", l>> /\ owner' = <<"generation", l>>

GiveUp == owner \in Party /\ owner' = Free
Strand == owner \in Party \union {Free} /\ owner' = Stranded

Next == \/ \E p \in Party : Take(p)
        \/ \E l \in Launchers : HandStart(l) \/ HandChild(l)
        \/ GiveUp \/ Strand

Spec == Init /\ [][Next]_owner
=============================================================================
