---------------------------- MODULE AtomicStore -----------------------------
(***************************************************************************)
(* What userstore.Store promises its callers while the portal alone writes *)
(* the file: each Add, SetGroups or Delete takes effect in one step,       *)
(* wholly or not at all.  A call that reports success took effect, a call  *)
(* that reports anything else did not, and a refusal tells the truth about *)
(* the file at some moment of the call.                                    *)
(***************************************************************************)
EXTENDS UserFile

CONSTANTS Writers, Requests, NoRequest, InitFiles

VARIABLES
    db,            \* the content of the users file
    req,           \* the request each writer has in progress
    res            \* what the writer's call returns

avars == <<db, req, res>>

Results == {"none", "pending", "ok", "duplicate", "notfound", "error"}

Init ==
    /\ db \in InitFiles
    /\ req = [w \in Writers |-> NoRequest]
    /\ res = [w \in Writers |-> "none"]

Call(w) ==
    /\ res[w] = "none"
    /\ \E r \in Requests : req' = [req EXCEPT ![w] = r]
    /\ res' = [res EXCEPT ![w] = "pending"]
    /\ UNCHANGED db

Commit(w) ==
    /\ res[w] = "pending"
    /\ Accepted(req[w], db)
    /\ db' = Edited(req[w], db)
    /\ res' = [res EXCEPT ![w] = "ok"]
    /\ UNCHANGED req

\* The answers that say something about the file are true of it.
Truthful(r, answer, c) ==
    CASE answer = "duplicate" -> /\ c # Unreadable /\ r.kind = "add"
                                 /\ Taken(r.user, c)
      [] answer = "notfound"  -> /\ c # Unreadable /\ r.kind # "add"
                                 /\ r.user.name \notin Names(c)
      [] answer = "error"     -> TRUE

Refuse(w) ==
    /\ res[w] = "pending"
    /\ \E answer \in {"duplicate", "notfound", "error"} :
          /\ Truthful(req[w], answer, db)
          /\ res' = [res EXCEPT ![w] = answer]
    /\ UNCHANGED <<db, req>>

Return(w) ==
    /\ res[w] \notin {"none", "pending"}
    /\ res' = [res EXCEPT ![w] = "none"]
    /\ req' = [req EXCEPT ![w] = NoRequest]
    /\ UNCHANGED db

\* The portal process dies: no call returns, what was committed stays.
Crash ==
    /\ req' = [w \in Writers |-> NoRequest]
    /\ res' = [w \in Writers |-> "none"]
    /\ UNCHANGED db

Next ==
    \/ \E w \in Writers : Call(w) \/ Commit(w) \/ Refuse(w) \/ Return(w)
    \/ Crash

Spec == Init /\ [][Next]_avars
=============================================================================
