CONSTANTS
    h1 = h1
    h2 = h2
    anna = anna
    bert = bert
    aMail = aMail
    AMail = AMail
    bMail = bMail
    users = users
    admins = admins
    others = others
    member = member
    admin = admin
    d0 = d0
    unreadable = unreadable
    noRole = noRole
    absent = absent
    noUser = noUser
    Usernames <- MCUsernames
    ValidNames = {anna, bert}
    Emails <- MCEmails
    Groups = {users, admins, others}
    Digests = {d0}
    Fold <- MCFold
    Lower <- MCLower
    Unreadable = unreadable
    Rules <- MCRules
    NoRole = noRole
    Absent = absent
    Handlers = {h1, h2}
    Forms <- MCForms
    GroupForms <- MCGroupForms
    NameOf <- MCNameOf
    Allowed = {aMail, bMail}
    InitFiles <- MCInitFiles
    NoUser = noUser
    Hash = d0
    Backend = "smtp"
SPECIFICATION Spec
INVARIANTS PortalTypeOK ActsOnWhatIsStored QuietMeansDone NoUnauditedCommit LinesDistinct
SYMMETRY MCSymmetry
