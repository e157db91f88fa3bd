SPECIFICATION Spec
CONSTANTS
    s1 = s1
    github = github
    google = google
    name = name
    plan = plan
    bio = bio
    v1 = v1
    v2 = v2
    l1 = l1
    l2 = l2
    None = None
    Subject = {s1}
    Idp = {github, google}
    ClaimType = {name, plan, bio}
    IdType = {name}
    Value = {v1, v2}
    Principal <- PrincipalsOf
    Login = {l1, l2}
    MaxEvents = 4
SYMMETRY LoginSymmetry
INVARIANTS TypeOK AnswersLastLogin
PROPERTIES UsersApart ImplementsDirectory
CHECK_DEADLOCK FALSE
