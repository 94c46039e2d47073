CONSTANTS
    anna = anna
    Bert = Bert
    aMail = aMail
    AMail = AMail
    bMail = bMail
    g = g
    d1 = d1
    d2 = d2
    unreadable = unreadable
    Usernames <- MCUsernames
    ValidNames = {anna}
    Emails <- MCEmails
    Groups = {g}
    Digests = {d1, d2}
    Fold <- MCFold
    Lower <- MCLower
    Unreadable = unreadable
    Files <- MCFiles
    Requests <- MCRequests
SPECIFICATION Spec
INVARIANTS TypeOK VerifySound VerifyComplete RepeatedKeyFailsClosed
