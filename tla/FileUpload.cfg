SPECIFICATION PromptSpec
CONSTANTS
  solo = solo
  first = first
  second = second
  Singles = {solo}
  Batch <- MCBatch
INVARIANTS UploadSound
PROPERTIES EveryUploadEnds CancelIsPrompt
CHECK_DEADLOCK FALSE
