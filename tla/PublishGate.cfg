CONSTANTS
    ann = ann
    Ann = Ann
    other = other
    None = None
    Site = Site
    Clients = {c1, c2}
    Accounts = {ann}
    Names = {ann, Ann, other}
    Lower <- Capitals
    Safe <- Kept
    Events = {e1}
    Keys = {k1}
    Upstreams = {x1, x2}
SPECIFICATION FairSpec
INVARIANTS Wired 
PROPERTIES   NoHalfLive
