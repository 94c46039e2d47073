--------------------------- MODULE MCOutputCheck ----------------------------
(***************************************************************************)
(* OutputCheck on every file of at most two entries over two users, with   *)
(* every request and every single encoder fault.                           *)
(***************************************************************************)
EXTENDS OutputCheck

CONSTANTS anna, Bert, aMail, AMail, bMail, g, d1, d2, unreadable

MCUsernames == {anna, Bert}
MCEmails == {aMail, AMail, bMail}
FoldValues == anna :> anna @@ Bert :> Bert @@ aMail :> aMail @@ AMail :> aMail
          @@ bMail :> bMail
LowerValues == aMail :> aMail @@ AMail :> aMail
          @@ bMail :> bMail

MCFiles == BoundedSeq(Entry, 2)

\* Fields an operation does not look at keep one value.
RequestsValues ==
    {r \in Request : CASE r.kind = "add"    -> r.user.pw = d1
                       [] r.kind = "groups" -> r.user.email = aMail /\ r.user.pw = d1
                       [] r.kind = "delete" -> /\ r.user.email = aMail
                                               /\ r.user.pw = d1
                                               /\ r.user.groups = {}}

\* TLC evaluates a definition once, but not one that is given to a constant.
MCFold == FoldValues
MCLower == LowerValues
MCRequests == RequestsValues
=============================================================================
