SPECIFICATION Spec
CONSTANTS
    Statuses = {200, 204, 401, 408, 429, 500, 502, 503, 504, 511}
    Messages = {{}, {"429"}, {"network"}, {"timed out"}, {"503", "service unavailable"}}
INVARIANTS ResultIsAnswer RevertIsHard HeightIsInnocent TransientIsRetried
CHECK_DEADLOCK FALSE
