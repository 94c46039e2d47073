------------------------------ MODULE MCUsers -------------------------------
(***************************************************************************)
(* The users of the TLC runs: anna and Anna are one name to Authelia,      *)
(* aMail and AMail one address, which the portal stores as aMail.          *)
(***************************************************************************)
EXTENDS UserFile

CONSTANTS p1, p2, anna, Anna, bert, aMail, AMail, bMail, g, d0, d1,
          unreadable, noWriter, noRequest, noFile

MCUsernames == {anna, Anna, bert}
MCEmails == {aMail, AMail, bMail}
FoldValues == anna :> anna @@ Anna :> anna @@ bert :> bert
          @@ aMail :> aMail @@ AMail :> aMail @@ bMail :> bMail
LowerValues == aMail :> aMail @@ AMail :> aMail @@ bMail :> bMail

User(n, e, gs, d) == [name |-> n, email |-> e, groups |-> gs, pw |-> d]

AddUser(n, e) == [kind |-> "add", user |-> User(n, e, {g}, d0)]
GroupsOf(n, gs) == [kind |-> "groups", user |-> User(n, aMail, gs, d0)]
DeleteUser(n) == [kind |-> "delete", user |-> User(n, aMail, {}, d0)]

Bert == User(bert, bMail, {g}, d0)

\* TLC evaluates a definition once, but not one that is given to a constant.
MCFold == FoldValues
MCLower == LowerValues
=============================================================================
