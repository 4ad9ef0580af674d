SPECIFICATION FairSpec
CONSTANTS
    phone = phone
    visitor = visitor
    remote = remote
    wide = wide
    narrow = narrow
    sw = sw
    NoNet = NoNet
    Client = {phone, visitor, remote}
    Network = {wide, narrow}
    Device = {}
    Attr <- MCAttr
    Rank <- MCRank
    Prefix <- MCPrefix
    Assigned <- MCAssigned
    Vlan <- MCVlan
    Filters <- MCFilters
    PageLimit = 2
    MaxPages = 2
    Retries = 1
    MaxListed = 2
    MaxChanges = 1
INVARIANT TypeOK
INVARIANT NoneSkipped
 
PROPERTY ReadsEnd
