SPECIFICATION Spec
CONSTANTS
    admin = admin
    tech = tech
    None = None
    Tabs = {a, b}
    Staff = {admin}
    Techs = {tech}
    MaxLogins = 2
    MaxSent = 1
CHECK_DEADLOCK FALSE
INVARIANTS TypeOK SentAsShown
PROPERTY EndedLeaves
