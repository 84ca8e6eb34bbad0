SPECIFICATION Spec
CONSTANTS
    Caller = {c1}
    Host = {h1, h2}
    NoCaller = NoCaller
    NoHost = NoHost
PROPERTIES
    StaleReportIgnored
