SPECIFICATION Spec
CONSTANTS
    Scripts <- MCScripts
INVARIANTS
    DecoderTypeOK
    Reassembles
    StyleAsAsked
