SPECIFICATION Spec
CONSTANTS
    c1 = c1
    c2 = c2
    coder = coder
    critic = critic
    cloud = cloud
    backup = backup
    local = local
    hub = hub
    q = q
    NoProvider = NoProvider
    Callers = {c1, c2}
    Providers = {cloud, backup, local, hub}
    Agents = {coder, critic}
    Questions = {q}
    Agent <- Agents2
    Question <- Questions1
    Requested <- Requested2
    MayReroute = {c1}
    Configured = {cloud, backup, local, hub}
    Routed = {cloud, backup}
    Priority <- Priority2
    Chain <- Chain2
    FallbackOn = TRUE
    Retries = 1
    Upstream = hub
    UpstreamFallback = TRUE
    Budget = 2
    Limited = {coder}
    AgentBudget <- Budgets
    Estimate = 1
    MaxCost = 2
    Rpm = 1
INVARIANT SpendBounded
INVARIANT RateBounded
INVARIANT AttemptsBounded
PROPERTY CallsReturn
