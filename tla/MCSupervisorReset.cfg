SPECIFICATION Spec
CONSTANTS
    ollama = ollama  chromadb = chromadb
    Services <- MCServices
    Order <- MCOrder
    MaxRestarts = 3
    Threshold = 5
    ResetTimeout = 10
    RestartMax = 4
PROPERTY OpenBreakerResets
