CONSTANTS
    ada = ada
    ben = ben
    t1 = t1
    t2 = t2
    u1 = u1
    u2 = u2
    g1 = g1
    g2 = g2
    g3 = g3
    s1 = s1
    s2 = s2
    unset = unset
    inviting = inviting
    noPage = noPage
    gone = gone
    People = {ada, ben}
    Usernames = {u1, u2}
    Groups = {g1, g2, g3}
    Tabs = {t1, t2}
    Configs <- MCConfigs
    Secrets = {s1, s2}
    CaddySecret = s2
    Unset = unset
    TTL = 2
    Resolution = 2
    MaxTime = 4
    Inviting = inviting
    NoPage = noPage
    Gone = gone
SPECIFICATION Spec
INVARIANTS FormsTypeOK FreshFormsAccepted
PROPERTIES OnlyOwnFreshForms InvitedHaveAccess
SYMMETRY MCSymmetry
