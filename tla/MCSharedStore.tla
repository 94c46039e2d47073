--------------------------- MODULE MCSharedStore ----------------------------
(***************************************************************************)
(* SharedStore: a new user, a group change and a removal, against password *)
(* resets of any user at any time.                                         *)
(***************************************************************************)
EXTENDS SharedStore, MCUsers

MCRequests == {AddUser(anna, AMail), GroupsOf(bert, {}), DeleteUser(bert)}

MCInitFiles == {<<Bert>>}
=============================================================================
