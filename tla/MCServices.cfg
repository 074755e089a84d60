SPECIFICATION MCSpec
CONSTANTS
    m1 = m1
    m2 = m2
    d1 = d1
    d2 = d2
    k1 = k1
    cli = cli
    Desktop = Desktop
    NoOwner = NoOwner
    s1 = s1
    s2 = s2
    inbox = inbox
    trash = trash
    u1 = u1
    u2 = u2
    u3 = u3
    ra = ra
    rb = rb
    a1 = a1
    a2 = a2
    a3 = a3
    c1 = c1
    c2 = c2
    r1 = r1
    r2 = r2
    p = p
    q = q
    w1 = w1
    i1 = i1
    i2 = i2
    win = win
    slot = slot
    NoOne = NoOne
    Orphan = Orphan
    NoId = NoId
    v1 = v1
    v2 = v2
    v3 = v3
    x1 = x1
    x2 = x2
    j1 = j1
CHECK_DEADLOCK FALSE
INVARIANTS
    NoStaleCategory
    AnsweredMeansDone
    NothingLost
    CleanupHitsSender
    DoneMeansGone
    ReportIsTrue
    OnceEach
    CredentialsMatch
    KeysAgree
    EachOnce
    ThreadsRight
    CacheFits
    OneFetch
    BodyBelongs
    ListIsRight
    UpgradeSafe
    PackSafe
PROPERTIES
    UserWins
