SPECIFICATION Spec
CONSTANTS
  Races = {r1, r2}
  Penalties = {p1}
  h1 = h1
  h2 = h2
  ai = ai
  red = red
  blue = blue
  Drivers = {h1, h2, ai}
  Humans = {h1, h2}
  Constructors = {red, blue}
  TeamOf <- MCTeamOf
  Outcomes <- MCOutcomes
  Corrections = {5}
  Ratings = {1500, 1510}
  NoTime = NoTime
  Unrated = Unrated
  MaxRestarts = 1
  v1 = v1
  v2 = v2
  Requests = {1, 2, 3}
  Vehicles = {v1, v2}
  Laps = {1, 2}
  LapTime <- MCLapTime
  Bodies <- MCBodies
  NoRow = NoRow
  ann = ann
  bob = bob
  cid = cid
  Users = {ann, bob, cid}
  Creator = ann
  Calls = {1, 2, 3}
  Founding = 0
  Codes = {"c1", "c2"}
  LobbyScripts <- MCLobbyScripts
  NoMember = NoMember
  Pilots = {ann, bob}
  Admins = {ann}
  Moderators = {ann}
  Deals = {1, 2, 3}
  DealScripts <- MCDealScripts
  Seasons = {1, 2}
  Driven <- MCDriven
  Merit <- MCMerit
  NoContract = NoContract
  DealRestarts = 1
  mail = mail
  google = google
  bare = bare
  steam = steam
  tab1 = tab1
  tab2 = tab2
  Emails = {mail}
  Googles = {google, bare}
  Steams = {steam}
  Polls = {tab1, tab2}
  SignIns = {1, 2, 3, 4, 5}
  Scripts <- MCScripts
  MailOf <- MCMailOf
  Nothing = Nothing
  CodeTTL = 1
  PollTTL = 2
  StoreMax = 2
  MaxNow = 4
  MaxCrashes = 1
  Players = {"p", "q"}
  Verstappen = {"a1"}
  Record <- MCRecord
  NewRaces <- MCNewRaces
  Careers <- MCCareers
  Breaks = {14}
  AwardRestarts = 1
  agent = agent
  one = one
  two = two
  HubAgents = {agent}
  Viewers = {one, two}
  MaxClients = 1
  MaxLinks = 2
  MaxConnections = 2
  MaxQueue = 1
  Loads <- MCLoads
  WebIds = {1, 2}
  ProfileIds = {11, 12}
  MaxIdentities = 3
  SteamIds = {steam}
  Writers = {1, 2}
  Null = Null
INVARIANTS LeagueSound StandingsCurrent RatingsBooked PenaltiesCounted IngestSound
           RolesSound DealsSound LoginsSound AwardsSound HubSound MergeSound
PROPERTY LapTimesKept
CHECK_DEADLOCK FALSE
