-------------------------- MODULE OutputCheckProofs --------------------------
(***************************************************************************)
(* What an output that verify accepts is known to be, for files of any     *)
(* length.  The encoder's fault is used only for the type of its output:   *)
(* the theorems on the verdict hold whatever the output is.                *)
(***************************************************************************)
EXTENDS OutputCheck, UserFileProofs

\* The request was found to be editable, and the verdict is the outcome of
\* verify on the content read and the output.
VerdictInv ==
    /\ Editable(req, file)
    /\ verdict = "accepted" => out # Unreadable /\ Verify(req, file, out)
    /\ verdict = "refused" => ~(out # Unreadable /\ Verify(req, file, out))

IInv == TypeOK /\ VerdictInv

\* What is read is a file and what is asked is a request.
LEMMA Inputs ==
    ASSUME TypeOK
    PROVE  file \in Seq(Entry) /\ req \in Request
  BY FilesAssumption, RequestsAssumption DEF TypeOK

\* A wrong encoder still writes a sequence of entries, or nothing readable.
LEMMA FaultyIsContent ==
    ASSUME NEW c \in Seq(Entry)
    PROVE  /\ DropEntry(c) \subseteq Content
           /\ RepeatEntry(c) \subseteq Content
           /\ ReplaceEntry(c) \subseteq Content
<1>1. DOMAIN c = 1..Len(c) /\ \A i \in 1..Len(c) : c[i] \in Entry
  BY LenProperties, ElementOfSeq
<1>2. \A i \in DOMAIN c : RemoveAt(c, i) \in Seq(Entry)
  BY <1>1, RemoveAtProperties
<1>3. \A i \in DOMAIN c : Append(c, c[i]) \in Seq(Entry)
  BY <1>1, AppendProperties
<1>4. \A i \in DOMAIN c, e \in Entry : [c EXCEPT ![i] = e] \in Seq(Entry)
  BY <1>1, ExceptSeq
<1>5. DropEntry(c) \subseteq Seq(Entry)
  BY <1>2 DEF DropEntry
<1>6. RepeatEntry(c) \subseteq Seq(Entry)
  BY <1>3 DEF RepeatEntry
<1>7. ReplaceEntry(c) \subseteq Seq(Entry)
  BY <1>4 DEF ReplaceEntry
<1> QED
  BY <1>5, <1>6, <1>7 DEF Content

\* The invariant holds at the start.
LEMMA InitIInv == Init => IInv
  BY DEF Init, IInv, TypeOK, VerdictInv, Content

\* Every step keeps the invariant.
LEMMA StepIInv == IInv /\ [Next]_vars => IInv'
<1> SUFFICES ASSUME IInv, [Next]_vars PROVE IInv'
  OBVIOUS
<1> USE DEF IInv
<1>1. file \in Seq(Entry) /\ req \in Request
  BY Inputs
<1>2. Edited(req, file) \in Seq(Entry)
  BY <1>1, EditedIsReadable DEF VerdictInv
<1>3. CASE Encode
  BY <1>2, <1>3 DEF Encode, TypeOK, VerdictInv, Content
<1>4. CASE EncodeWrongly
  <2>1. out' \in Content
    BY <1>2, <1>4, FaultyIsContent DEF EncodeWrongly, Content
  <2> QED
    BY <1>4, <2>1 DEF EncodeWrongly, TypeOK, VerdictInv
<1>5. CASE Judge
  BY <1>5 DEF Judge, TypeOK, VerdictInv
<1>6. CASE Done \/ UNCHANGED vars
  BY <1>6 DEF Done, vars, TypeOK, VerdictInv
<1> QED
  BY <1>3, <1>4, <1>5, <1>6 DEF Next

\* In every reachable state the edit asked for is one the file admits, and the
\* verdict is what verify says of the file read and of the output it was given.
THEOREM Invariance == Spec => []IInv
  BY InitIInv, StepIInv, PTL DEF Spec

\* The variables of mutateOnce hold what their types say, whatever the encoder
\* makes of the edited content.
THEOREM TypeCorrect == Spec => []TypeOK
  BY Invariance, PTL DEF IInv

-----------------------------------------------------------------------------
\* Verify compares the output with the file that was read, AsIntended with the
\* edited content.  As the edited content passes verify too, the two come to
\* the same.
LEMMA VerifyIsAsIntended ==
    ASSUME IInv, DistinctKeys(file)
    PROVE  Verify(req, file, out) <=> AsIntended
<1> DEFINE got == Snapshot(out)
           before == Snapshot(file)
           intended == Snapshot(Edited(req, file))
           target == req.user.name
<1>1. file \in Seq(Entry) /\ req \in Request
  BY Inputs DEF IInv
<1>2. Verify(req, file, Edited(req, file))
  BY <1>1, EditedIsAccepted DEF IInv, VerdictInv
<1>3. /\ UntouchedEqual(before, intended, target)
      /\ req.kind = "add" => VerifyAdd(req.user, before, intended)
      /\ req.kind = "groups" => VerifyGroups(req.user, before, intended)
      /\ req.kind = "delete" => VerifyDelete(req.user, before, intended)
  BY <1>2 DEF Verify
<1>4. req.kind \in {"add", "groups", "delete"}
  BY <1>1 DEF Request
<1>5. Verify(req, file, out) <=>
         /\ UntouchedEqual(before, got, target)
         /\ req.kind = "add" => VerifyAdd(req.user, before, got)
         /\ req.kind = "groups" => VerifyGroups(req.user, before, got)
         /\ req.kind = "delete" => VerifyDelete(req.user, before, got)
  BY <1>4 DEF Verify
<1>6. AsIntended <=>
         /\ DOMAIN got = DOMAIN intended
         /\ \A n \in DOMAIN got \ {target} : got[n] = intended[n]
         /\ req.kind = "add" => got[target].email = intended[target].email
         /\ req.kind = "groups" => got[target].groups = req.user.groups
  BY DEF AsIntended
<1> HIDE DEF got, before, intended
<1>7. ASSUME Verify(req, file, out) PROVE AsIntended
  <2>1. target \in DOMAIN got <=> target \in DOMAIN intended
    BY <1>3, <1>4, <1>5, <1>7 DEF VerifyAdd, VerifyGroups, VerifyDelete
  <2>2. DOMAIN got = DOMAIN intended
    BY <1>3, <1>5, <1>7, <2>1 DEF UntouchedEqual
  <2>3. \A n \in DOMAIN got \ {target} : got[n] = intended[n]
    BY <1>3, <1>5, <1>7, <2>2 DEF UntouchedEqual
  <2>4. req.kind = "add" => got[target].email = intended[target].email
    BY <1>3, <1>5, <1>7 DEF VerifyAdd
  <2>5. req.kind = "groups" => got[target].groups = req.user.groups
    BY <1>5, <1>7 DEF VerifyGroups
  <2> QED
    BY <1>6, <2>2, <2>3, <2>4, <2>5
<1>8. ASSUME AsIntended PROVE Verify(req, file, out)
  <2>1. UntouchedEqual(before, got, target)
    BY <1>3, <1>6, <1>8 DEF UntouchedEqual
  <2>2. req.kind = "add" => VerifyAdd(req.user, before, got)
    BY <1>3, <1>6, <1>8 DEF VerifyAdd
  <2>3. req.kind = "groups" => VerifyGroups(req.user, before, got)
    BY <1>3, <1>6, <1>8 DEF VerifyGroups
  <2>4. req.kind = "delete" => VerifyDelete(req.user, before, got)
    BY <1>3, <1>6, <1>8 DEF VerifyDelete
  <2> QED
    BY <1>5, <2>1, <2>2, <2>3, <2>4
<1> QED
  BY <1>7, <1>8

\* What is accepted has the users intended, the ones the request is not about
\* unchanged, and an added user's email or the groups given to a user.
THEOREM SoundVerdict == Spec => []VerifySound
<1>1. IInv => VerifySound
  BY VerifyIsAsIntended DEF IInv, VerdictInv, VerifySound
<1> QED
  BY Invariance, <1>1, PTL

\* Whatever has all that is accepted, a faithful output above all.
THEOREM CompleteVerdict == Spec => []VerifyComplete
<1>1. IInv => VerifyComplete
  BY VerifyIsAsIntended DEF IInv, VerdictInv, VerifyComplete
<1> QED
  BY Invariance, <1>1, PTL

\* Delete takes one entry out; where the key is repeated the name survives, and
\* verify sees it.
THEOREM FailsClosed == Spec => []RepeatedKeyFailsClosed
<1>1. IInv => RepeatedKeyFailsClosed
  <2> DEFINE n == req.user.name
             p == FirstPosition(file, n)
  <2> SUFFICES ASSUME IInv, req.kind = "delete",
                      NEW i \in Positions(file, n), NEW j \in Positions(file, n),
                      i # j, out = Edited(req, file), verdict = "accepted"
               PROVE  FALSE
    BY DEF RepeatedKeyFailsClosed
  <2>1. file \in Seq(Entry) /\ req.user \in Entry /\ n \in Names(file)
    BY Inputs DEF IInv, VerdictInv, Editable, Request
  <2>2. /\ out \in Seq(Entry)
        /\ Len(out) = Len(file) - 1
        /\ \A k \in 1..(Len(file) - 1) :
              out[k] = IF k < p THEN file[k] ELSE file[k + 1]
    BY <2>1, RemovedProperties DEF Edited
  <2>3. p \in 1..Len(file) /\ Len(file) \in Nat
    BY <2>1, FirstPositionExists, LenProperties
  <2>4. PICK k \in 1..Len(file) : k # p /\ file[k].name = n
    <3>1. i \in 1..Len(file) /\ file[i].name = n
      BY <2>1, LenProperties DEF Positions
    <3>2. j \in 1..Len(file) /\ file[j].name = n
      BY <2>1, LenProperties DEF Positions
    <3> HIDE DEF p
    <3> QED
      BY <3>1, <3>2
  <2>5. \E m \in 1..Len(out) : out[m].name = n
    <3> HIDE DEF p, n
    <3>1. CASE k < p
      <4>1. k \in 1..(Len(file) - 1)
        BY <2>3, <3>1
      <4> QED
        BY <2>2, <2>4, <3>1, <4>1
    <3>2. CASE k > p
      <4>1. k - 1 \in 1..(Len(file) - 1) /\ ~(k - 1 < p) /\ (k - 1) + 1 = k
        BY <2>3, <3>2
      <4> QED
        BY <2>2, <2>4, <4>1
    <3> QED
      BY <2>3, <2>4, <3>1, <3>2
  <2>6. n \in Names(out)
    BY <2>2, <2>5, LenProperties DEF Names
  <2>7. n \notin DOMAIN Snapshot(out)
    BY DEF IInv, VerdictInv, Verify, VerifyDelete
  <2> QED
    BY <2>6, <2>7, SnapshotDomain
<1> QED
  BY Invariance, <1>1, PTL
=============================================================================
