CONSTANT CallMax = 0
SPECIFICATION SuSpec
INVARIANT PeriodAsStated
