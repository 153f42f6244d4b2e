CONSTANTS
    arp = arp
    dns = dns
    sntp = sntp
    Timers = {arp, dns, sntp}
    Sntp = sntp
    Period <- MCPeriod
    MaxNow = 4
    None = None
SPECIFICATION Spec
CHECK_DEADLOCK FALSE
INVARIANT
    NoTimerIsLost
