SPECIFICATION Spec
CONSTANTS
    c1 = c1
    c2 = c2
    Clis = {c1, c2}
    Pids <- MCPids
    Ports <- MCPorts
    ConfigPort = 1
    Services = {"wifi", "lan"}
    Scenarios <- MCScenarios
SYMMETRY MCSymmetry
INVARIANTS
    StartupSound
PROPERTIES
    CaTruth
    
    SettingsWhole
\* The commands of a scenario end, and no daemon has to be left running.
CHECK_DEADLOCK FALSE
