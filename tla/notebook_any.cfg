SPECIFICATION Spec
CONSTANTS
    Name = {a, b}
    Voice = {v1, v2}
    MaxTasks = 2
SYMMETRY Symmetry
CHECK_DEADLOCK FALSE
INVARIANTS EveryTaskReported ValidOwnRecording RecordingsAllowed
