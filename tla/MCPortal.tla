------------------------------ MODULE MCPortal ------------------------------
(***************************************************************************)
(* Portal with two requests at a time, about anna, who is not in the file, *)
(* and bert, who is.  The form for new users has anna's address typed in   *)
(* two ways, and bert's, who can come back only if he was removed.         *)
(***************************************************************************)
EXTENDS Portal

CONSTANTS h1, h2, anna, bert, aMail, AMail, bMail, users, admins,
          others, member, admin, d0, unreadable, noRole, absent, noUser

MCUsernames == {anna, bert}
MCEmails == {aMail, AMail, bMail}
LowerValues == aMail :> aMail @@ AMail :> aMail @@ bMail :> bMail
FoldValues == anna :> anna @@ bert :> bert @@ LowerValues
MCNameOf == aMail :> anna @@ AMail :> anna @@ bMail :> bert

\* Two groups with a role each, in order of privilege; others have none.
MCRules == <<[group |-> admins, role |-> admin], [group |-> users, role |-> member]>>

MCForms == {<<AMail, aMail, bMail>>}
MCGroupForms == {{others}, {users}}

MCInitFiles ==
    {<<[name |-> bert, email |-> bMail, groups |-> {users, admins}, pw |-> d0]>>}

\* The two requests are alike, and no property tells them apart.
MCSymmetry == Permutations(Handlers)

\* TLC evaluates a definition once, but not one that is given to a constant.
MCFold == FoldValues
MCLower == LowerValues
=============================================================================
