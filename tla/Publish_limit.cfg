SPECIFICATION Spec
CONSTANTS
    k1 = k1
    k2 = k2
    k3 = k3
    p1 = p1
    p2 = p2
    day1 = day1
    day2 = day2
    video = video
    article = article
    Keys = {k1, k2}
    Processes = {p1}
    None = None
    Slot <- SlotOf
    Content <- ContentOf
    TotalLimit = 2
INVARIANT DailyLimit
