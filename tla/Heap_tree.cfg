SPECIFICATION Spec
CONSTANTS
    Items = {1, 2, 3, 4, 5, 6}
    Due <- DueTimes
PROPERTIES ImplementsRankedSet
