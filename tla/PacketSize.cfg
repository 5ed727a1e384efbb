SPECIFICATION Spec
CONSTANTS
    ConfigLengths = {34}
    ReportLengths = {59, 63}
    StrayStores = {1310, 1404}
    MaxLosses = 1
INVARIANT PacketSizeRead
