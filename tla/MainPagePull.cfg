SPECIFICATION PageSpec
CONSTANTS
    Rows = {"stream"}
    Days = 2
    MaxRefresh = 2
    MaxLive = 1
    MaxInFlight = 2
    MaxSame = 1
    MaxQueue = 2
PROPERTY PullRefreshesCurrentWeather
