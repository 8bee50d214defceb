SPECIFICATION LiveSpec
CONSTANTS
    c1 = c1
    c2 = c2
    c3 = c3
    ip1 = ip1
    Conn <- Conns
    Ip = {ip1}
    IpOf <- OneSource
    Identity = {alice}
    WholeIp = whole
    MaxPermits <- TwoPermits
    MaxPermitsPerIp <- PermitsPerIp
    AuthTimeout = 1
    FailureWindow = 1
    Penalty = 2
    FailuresBeforePenalty = 2
INVARIANT PermitsAddUp
INVARIANT LimitsRespected
PROPERTY UnauthenticatedEnd
PROPERTY PenaltiesEnd
