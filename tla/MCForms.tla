------------------------------ MODULE MCForms ------------------------------
(***************************************************************************)
(* Forms with two people at two windows, two users, three groups of which  *)
(* one is never offered, settings that differ in the secret, the groups or *)
(* the secret shared with Caddy.  A second has two instants, and a form is *)
(* good for one second.                                                    *)
(***************************************************************************)
EXTENDS Forms, TLC

CONSTANTS ada, ben, t1, t2, u1, u2, g1, g2, g3, s1, s2, unset, inviting, noPage, gone

\* The portal takes nothing from Caddy while the last of these is in force.
MCConfigs ==
    {[csrf |-> s1, shared |-> unset, groups |-> {g1, g2}],
     [csrf |-> s1, shared |-> s2, groups |-> {g1}],
     [csrf |-> s2, shared |-> unset, groups |-> {g2}],
     [csrf |-> s1, shared |-> s1, groups |-> {g1, g2}]}

\* No property tells the people apart, or the windows.
MCSymmetry == Permutations(People) \union Permutations(Tabs)
=============================================================================
