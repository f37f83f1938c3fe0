CONSTANTS
    t1 = t1
    t2 = t2
    s1 = s1
    s2 = s2
    Thread = {t1, t2}
    Session = {s1}
    Timeout = 2
    Ttl = 2
SPECIFICATION Spec
INVARIANTS
    SessionsAreSound
    LogoutIsFinal
    LogoutSurvivesOneFault
PROPERTIES
    LostOnlyWhenIdle
    AbandonedSessionsVanish
