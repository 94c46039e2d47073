--------------------------- MODULE MCDurableStore ---------------------------
(***************************************************************************)
(* DurableStore: invites, a group change and a removal of two users, with  *)
(* power lost at any time.                                                 *)
(***************************************************************************)
EXTENDS DurableStore, MCUsers

MCRequests == {AddUser(anna, AMail), GroupsOf(bert, {}), DeleteUser(bert)}

MCInitFiles == {<<Bert>>}
=============================================================================
