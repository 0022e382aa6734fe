SPECIFICATION Spec
CONSTANTS
    Cities <- MCCities
    Routes <- MCRoutes
    Starts <- MCStarts
    Durations <- MCDurations
    Places <- MCPlaces
    DayStops <- MCDayStops
    DayLegs <- MCDayLegs
    MaxStops = 5
    Requests <- MCRequests
    FlightResults <- MCFlightResults
    PlaceResults <- MCPlaceResults
    DayChoices <- MCDayChoices
    LegSeconds <- MCLegSeconds
    Beaches <- MCBeaches
    MaxTrips = 2
    MaxEdits = 1
    None = None
CHECK_DEADLOCK FALSE
INVARIANTS DayIsSound DaysAreWalkable PlanIsTheTripAsked
PROPERTIES AllocatesAsSpecified
