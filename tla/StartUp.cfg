CONSTANT CallMax = 2
SPECIFICATION SuSpec
INVARIANT WritesLand
INVARIANT InterruptsAsBefore
INVARIANT IsrFindsObjects
INVARIANT OutputsQuiet
INVARIANT LedShowsPower
INVARIANT ChannelsAsModelled
