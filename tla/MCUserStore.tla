---------------------------- MODULE MCUserStore -----------------------------
(***************************************************************************)
(* UserStore for two handlers, on files in order, with a repeated key, and *)
(* unreadable.                                                             *)
(***************************************************************************)
EXTENDS UserStore, MCUsers

\* Two ways to invite the same person, a name and an address that collide
\* with somebody's, a name that is not valid, a group change, a removal.
MCRequests ==
    {AddUser(anna, AMail), AddUser(anna, bMail), AddUser(Anna, bMail),
     GroupsOf(bert, {}), DeleteUser(bert)}

\* No users; bert; bert and an old mixed-case entry; bert's key twice; a
\* file the store refuses.
MCInitFiles ==
    {<<>>, <<Bert>>, <<Bert, User(Anna, AMail, {}, d1)>>,
     <<Bert, User(bert, aMail, {}, d1)>>, Unreadable}
=============================================================================
