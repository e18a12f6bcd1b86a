------------------------------- MODULE MCServer -------------------------------
(* Small instances of ConnectedClientHandler for TLC. *)
EXTENDS ServerRefinement, TLC

CONSTANTS alice, bob, carol, dave, mallory, s1, s2

UserSet(owners, regs, ot, rt) ==
    [owners |-> owners, reg_members |-> regs,
     owners_threshold |-> ot, reg_members_threshold |-> rt]

\* carol and dave compete for the regular layer's only slot.
MCRivals == [s \in UserSetIDs |->
    IF s = s1 THEN UserSet({alice, bob}, {carol, dave}, 1, 1) ELSE Absent]

\* The same with alice as the only owner, who needs one of the two.
MCRivalsOnly == [s \in UserSetIDs |->
    IF s = s1 THEN UserSet({alice}, {carol, dave}, 0, 1) ELSE Absent]

\* The members are owners only: one of them is asked for a regular part.
MCOwnersOnly == [s \in UserSetIDs |->
    IF s = s1 THEN UserSet({alice, bob, carol}, {}, 1, 1) ELSE Absent]

\* Nothing stored: the usersets are made by requests.
MCNothing == [s \in UserSetIDs |-> Absent]

\* Usersets that need everybody, nobody, or cannot be made.
MCPlans == {UserSet({bob}, {carol}, 1, 1), UserSet({}, {bob}, 0, 0),
            UserSet({}, {mallory}, 0, 1)}

MCNoPlans == {}
==============================================================================
