CONSTANTS
    CommandLines <- Calls
    Addresses = {0, 768, 784}
    MaxLater = 2
SPECIFICATION Spec
INVARIANTS
    CliTypeOK
    EndsAsAsked
    ShownAsAsked
    
