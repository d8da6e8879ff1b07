CONSTANTS
    Callers = {c1, c2}
    NoRole = NoRole
    Synthesis = synthesis
    expansion = expansion
    lmstudio = lmstudio
    openai = openai
    anthropic = anthropic
    gemini = gemini
    Roles <- MCRoles
    Models <- MCModels
    Local = {lmstudio}
    Configured = {openai, gemini}
    Chain <- MCChain
    Budget = 1
    MaxCost = 1
    MaxDay = 0
    Durable = FALSE
SYMMETRY MCSymmetry
SPECIFICATION Spec
PROPERTY HardCapSticks
