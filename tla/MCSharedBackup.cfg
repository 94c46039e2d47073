CONSTANTS
    p1 = p1
    p2 = p2
    anna = anna
    Anna = Anna
    bert = bert
    aMail = aMail
    AMail = AMail
    bMail = bMail
    g = g
    d0 = d0
    d1 = d1
    unreadable = unreadable
    noWriter = noWriter
    noRequest = noRequest
    noFile = noFile
    Usernames <- MCUsernames
    ValidNames = {anna, bert}
    Emails <- MCEmails
    Groups = {g}
    Digests = {d0, d1}
    Fold <- MCFold
    Lower <- MCLower
    Unreadable = unreadable
    Writers = {p1}
    Requests <- MCRequests
    MaxAttempts = 4
    InitFiles <- MCInitFiles
    NoWriter = noWriter
    NoRequest = noRequest
    NoFile = noFile
SPECIFICATION SharedSpec
PROPERTIES BackupCoversWindow
