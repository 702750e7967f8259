SPECIFICATION Spec
CONSTANTS
    Account = {a1, a2}
    Secret = {s1, s2}
    Runner = {g, h}
    MaxEdits = 2
    MaxPolls = 2
    Troubles = {{"overlap", "list"}, {"midway"}, {"midway", "silent"}, {"bundle", "list", "hang"}, {"account"}, {"timeout", "cache"}, {"unheard", "slow"}}
    None = None
INVARIANTS SecretsDelivered CodeDelivered ReadyWhenPushed
PROPERTIES RunsEnd
