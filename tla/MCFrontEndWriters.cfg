CONSTANTS
    Programs <- TwoWriters
SPECIFICATION Spec
CHECK_DEADLOCK FALSE
INVARIANTS
    OneProducerOneConsumer
