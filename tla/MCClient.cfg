SPECIFICATION AllFair
CONSTANTS
    Own = {1, 2}
    Foreign = {3}
    Slots = {11, 12}
    Conns = {1, 2}
    None = None
PROPERTIES SlotsTrue ClientServes TunnelServes
CHECK_DEADLOCK FALSE
