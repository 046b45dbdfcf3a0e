SPECIFICATION FairSpec
CONSTANTS
    s1 = s1
    s2 = s2
    user = user
    post = post
    Subs = {s1, s2}
    Topics = {user, post}
    Watches <- MCWatches
    MaxSubscriptions = 2
    Buffer = 1
    OutCapacity = 1
    MaxWrites = 2
    MaxMessages = 4
INVARIANTS OneLateUpdate
PROPERTIES NeverGoesBack UpdatesArrive HangupReleases
CHECK_DEADLOCK FALSE
