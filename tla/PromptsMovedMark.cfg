SPECIFICATION Spec
CONSTANTS
    Clients = {c1, c2}
    Heads <- AllHeads
    Firsts <- AllFirsts
    Mores <- AllMores
    MaxTurns = 2
    Chars <- Lengths
    Said <- Texts
    FormChars <- LengthOfForms
    Rendered <- AsTemplatesSee
    SystemMin = 2
    PrefixMin = 4
CHECK_DEADLOCK FALSE
PROPERTIES MarksAreFree
