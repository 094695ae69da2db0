\* A replay of up to five bars, sized by volatility.
CONSTANTS
    Candles <- MCCandles
    Config <- MCConfig
    MaxBars = 5
    Handed = TRUE
    Kept = TRUE
    None = None
SPECIFICATION Spec
INVARIANTS
    Parity
    CurveHoldsTrades
    IntervalsFollowSignals
\* The data ends at MaxBars.
CHECK_DEADLOCK FALSE
