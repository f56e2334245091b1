SPECIFICATION Spec
CONSTANTS
    o1 = o1
    o2 = o2
    m1 = m1
    m2 = m2
    n1 = n1
    l1 = l1
    n2 = n2
    maker = maker
    media = media
    rival = rival
    shop = shop
    lan = lan
    p1 = p1
    u1 = u1
    u2 = u2
    u3 = u3
    u4 = u4
    h1 = h1
    d1 = d1
    d2 = d2
    Operators = {o1, o2}
    Manufacturers = {m1, m2}
    Hosts = {maker, media, rival, shop, lan}
    Provenance = "REVIEWED"
    Blocked = {}
    Marketplaces = {shop}
    Distributors = {}
    None = None
    Unreadable = Unreadable
    Jobs = {}
    Products = {p1}
    Urls = {u1, u2, u3, u4}
    Unsafe = {lan}
    Digests = {h1}
    MaxFetches = 1
    MaxRedirects = 1
    Domains <- MCDomains
    Names <- MCNames
    Locators <- MCLocators
    Published <- MCTwoUnreviewed
    HintOf <- MCHintOf
    HostOf <- MCHostOf
    Relevance <- MCRelevance
    Results <- MCResults
    Order <- MCOrder
    KindOf <- MCKindOf
CHECK_DEADLOCK FALSE
INVARIANT AuditRecordsAreKept
