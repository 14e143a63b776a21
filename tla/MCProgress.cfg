SPECIFICATION Spec
CONSTANT Parts = {"ring", "gr", "send", "tcp_router", "tcp_cat", "tcp_cat_file", "tcp_send_2014", "vme", "check", "micro", "tdc", "life"}
PROPERTY CollectorGoesOn
PROPERTY BlocksArrive
PROPERTY NobodyStuck
CHECK_DEADLOCK FALSE
