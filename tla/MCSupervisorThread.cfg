SPECIFICATION Spec
CONSTANTS
    ollama = ollama  chromadb = chromadb
    Services <- MCServices
    Order <- MCOrder
    MaxRestarts = 2
    Threshold = 4
    ResetTimeout = 2
    RestartMax = 2
INVARIANT ThreadSurvives
