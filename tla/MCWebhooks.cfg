CONSTANTS
    None = None
    Webhook = {w1, w2}
    Round = {r1, r2}
SPECIFICATION WebhooksLiveSpec
INVARIANTS
    PostsAreDue
PROPERTIES
    StandingHooksArePosted
CHECK_DEADLOCK FALSE
