\* An AI client and a player that come and go over two connections, and one
\* character.
SPECIFICATION Spec
CONSTANTS
    Accounts = {1, 2}
    Admins = {2}
    Connections = {c1, c2}
    Entities = {e1}
    None = None
    Stored = {1}
    MaxOvertaken = 1
SYMMETRY Alike
INVARIANTS
    OneRowPerAccount
    RoutersAreSessions
    MindsAgree
    RegistryIsLive
    WaitingIsOffered
