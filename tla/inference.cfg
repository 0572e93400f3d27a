\* One critical agent, two domain agents whose provider has no API key.
CONSTANTS
    t1 = t1  t2 = t2  t3 = t3
    ollama = ollama  anthropic = anthropic  openai = openai
    big = big  small = small
    Threads = {t1, t2, t3}
    EventLoop = t2
    Providers = {ollama, anthropic, openai}
    Registered = {ollama, anthropic}
    Ollama = ollama
    Limit <- LimitDef
    Models = {big, small}
    ModelOf <- ModelOfDef
    CriticalModel = big
    CriticalProvider = anthropic
    DomainModel = small
    DomainProvider = openai
    FallbackProvider = anthropic
    Family <- FamilyDef
    MaxCalls = 2
    Nobody = Nobody
SPECIFICATION FairSpec
INVARIANTS TypeOK PermitsConserved Serialized CallsCounted
PROPERTIES CallsEnd
CHECK_DEADLOCK FALSE
