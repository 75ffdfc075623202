CONSTANTS
    Guests = {g1}
    Events = {e1}
    Tokens = {}
    NoGuest = NoGuest
    NoEvent = NoEvent
    NoToken = NoToken
    UseLimits = {0}
    ExchangeTTL = 1
    MaxTime = 3
CHECK_DEADLOCK FALSE
SPECIFICATION Spec
PROPERTIES
    InvalidatedBearerStaysInvalid
