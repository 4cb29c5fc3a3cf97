CONSTANTS
    k1 = k1
    k2 = k2
    k3 = k3
    SecpKeys <- MCSecpKeys
    Nil = Nil
SPECIFICATION Spec
INVARIANTS
    IdentityFollowsConfig
    ConversionsAgree
