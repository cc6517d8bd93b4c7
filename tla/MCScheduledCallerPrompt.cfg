SPECIFICATION PromptSpec
CONSTANT MaxOps = 2
PROPERTIES
    StopIsPrompt
