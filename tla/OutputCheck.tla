---------------------------- MODULE OutputCheck -----------------------------
(***************************************************************************)
(* The last line of defence of userstore.mutateOnce: the portal parses its *)
(* own output again and refuses it unless verify accepts it.  Here the     *)
(* encoder may be wrong: it emits the edited content, or that content with *)
(* one entry dropped, repeated or replaced, or something unreadable.  The  *)
(* question is what an accepted output is known to be.                     *)
(***************************************************************************)
EXTENDS UserFile

CONSTANTS
    Files,         \* the contents the store may have read
    Requests

\* The file was parsed before anything is edited.
ASSUME FilesAssumption == Files \subseteq Seq(Entry)
ASSUME RequestsAssumption == Requests \subseteq Request

VARIABLES
    file,          \* the content read (original)
    req,           \* the request being applied
    out,           \* the encoder's output
    verdict        \* "edited", "encoded", "accepted" or "refused"

vars == <<file, req, out, verdict>>

TypeOK ==
    /\ file \in Files
    /\ req \in Requests
    /\ out \in Content
    /\ verdict \in {"edited", "encoded", "accepted", "refused"}

\* The request passed the edit callback; nothing is encoded yet.
Init ==
    /\ file \in Files
    /\ req \in Requests
    /\ Editable(req, file)
    /\ out = Unreadable
    /\ verdict = "edited"

-----------------------------------------------------------------------------
\* One fault of the encoder in the content it was given.
DropEntry(c) == {RemoveAt(c, i) : i \in DOMAIN c}
RepeatEntry(c) == {Append(c, c[i]) : i \in DOMAIN c}
ReplaceEntry(c) == {[c EXCEPT ![i] = e] : i \in DOMAIN c, e \in Entry}

Encode ==
    /\ verdict = "edited"
    /\ out' = Edited(req, file)
    /\ verdict' = "encoded"
    /\ UNCHANGED <<file, req>>

EncodeWrongly ==
    /\ verdict = "edited"
    /\ LET right == Edited(req, file)
       IN  out' \in DropEntry(right) \union RepeatEntry(right)
                    \union ReplaceEntry(right) \union {Unreadable}
    /\ verdict' = "encoded"
    /\ UNCHANGED <<file, req>>

\* Re-parse the output and run verify on the two snapshots.
Judge ==
    /\ verdict = "encoded"
    /\ verdict' = IF out # Unreadable /\ Verify(req, file, out)
                  THEN "accepted" ELSE "refused"
    /\ UNCHANGED <<file, req, out>>

Done == verdict \in {"accepted", "refused"} /\ UNCHANGED vars

Next == Encode \/ EncodeWrongly \/ Judge \/ Done

Spec == Init /\ [][Next]_vars

-----------------------------------------------------------------------------
\* What the check can tell of an output: it has the users that the edited
\* content has, all but the one the request is about as they were, and of this
\* one the email of a new user or the groups given.  (Of the edited user's
\* other fields it says nothing: an added user's groups or digest, say.)
AsIntended ==
    LET got == Snapshot(out)
        intended == Snapshot(Edited(req, file))
        target == req.user.name
    IN  /\ DOMAIN got = DOMAIN intended
        /\ \A n \in DOMAIN got \ {target} : got[n] = intended[n]
        /\ req.kind = "add" => got[target].email = intended[target].email
        /\ req.kind = "groups" => got[target].groups = req.user.groups

\* Whatever the encoder did, an output accepted for a file with distinct keys
\* loses, adds and changes nobody but the user the request is about, removes
\* a removed user, and has the email of a new user, or the groups given.
VerifySound ==
    verdict = "accepted" /\ DistinctKeys(file) => out # Unreadable /\ AsIntended

\* The check never stands in the way of a change that is so much as intended,
\* least of all of a faithful output, on a file whose keys are distinct.
VerifyComplete ==
    verdict = "refused" /\ DistinctKeys(file) => out = Unreadable \/ ~AsIntended

\* A file in which the key of the user to delete is repeated is never
\* changed by that Delete: the second entry would still sign in.
RepeatedKeyFailsClosed ==
    (/\ req.kind = "delete"
     /\ \E i, j \in Positions(file, req.user.name) : i # j
     /\ out = Edited(req, file)) => verdict # "accepted"
=============================================================================
