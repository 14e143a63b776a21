SPECIFICATION Spec
CONSTANT Setups <- AllSetups
CONSTANTS
    Parts = {"ring", "gr_commands", "gr_events", "gr_v2", "gr_v1", "gr_send", "gr_send2", "tcp_router", "tcp_router_2010", "tcp_router_2011", "tcp_dump", "tcp_save", "tcp_read", "tcp_send", "cf_words", "cf_adc", "cf_wrap", "cf_adcwrap", "cf_tables", "save_variable", "save_fixed", "save_full", "fread", "life"}
    Producers = {p1, p2}
    Consumers = {c1, c2}
    Data = {1, 2}
    MaxQueNum = 2
    Routers = {r1, r2}
    Clients = {k1}
    MaxStarts = 3
    MaxCalls = 2
    Scenarios = {{"-r", "kill"}, {"overlap", "kill"}, {"overlap", "kill", "kill in removal", "second signal"}, {"-r", "kill", "kill in removal", "signal at start", "second signal"}}
    p1 = p1
    p2 = p2
    c1 = c1
    c2 = c2
    r1 = r1
    r2 = r2
    k1 = k1
INVARIANT TypeOK
INVARIANT NoLostWakeup
INVARIANT CollectorRight
INVARIANT SenderRight
 
INVARIANT CountsRight
INVARIANT TablesRight
INVARIANT FilesRight
INVARIANT LifeRight
PROPERTY FifoSpec
CHECK_DEADLOCK FALSE
