CONSTANTS w1 = w1 w2 = w2 w3 = w3 NoWriter = NoWriter
SPECIFICATION Spec
PROPERTIES ExchangePromise MediaPromise ConnectionPromise DialsPromise
CHECK_DEADLOCK FALSE
