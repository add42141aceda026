SPECIFICATION FairSpec
CONSTANTS
    Threads = {t1, t2, t3}
    Notifs = {n1}
    ValueMax = 2
    MaxGen = 1
INVARIANTS WaitSawEmpty NoForgottenNotification FreedUnused
PROPERTY EmptyWakes
CHECK_DEADLOCK FALSE
