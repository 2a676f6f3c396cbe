SPECIFICATION FairSpec
CONSTANTS
    left = left
    right = right
    c1 = c1
    c2 = c2
    x1 = x1
    Workers = {left, right}
    Cards = {c1, c2}
    Executions = {x1}
    MaxChanges = 1
PROPERTIES
    AttributionIsTrue
    DashboardIsTrue
