SPECIFICATION Documents
CHECK_DEADLOCK FALSE
CONSTANTS
  Worlds <- MCWorlds
  Queries <- MCQueries
  Calendar <- MCCalendar
  Ages = {0, 15, 16, 65}
  Bounds = {16, 60}
  Tariffs <- MCTariffs
  LastMonth = 11
  Addresses = {1, 2}
  Declared <- MCDeclared
  Linking <- MCLinking
  Printings <- MCPrintings
  Sites = {1, 2, 3, 4}
  LayerReplies <- MCLayers
  PageReplies <- MCPages
  TariffPages <- MCTariffPages
  RentalPages <- MCRentalPages
  Announcements <- MCAnnouncements
  Overviews <- MCOverviews
  WeeklyTables <- MCWeeklyTables
  SeasonalTables <- MCSeasonalTables
  SectionedPages <- MCSectionedPages
  Reach = 1
  Repairs <- MCRepairs
  Unparseable = {9}
  OwnOperator = {1}
  Registered = {3}
INVARIANTS
  DaysDecided
  BoardAnswered
  VisitorsTaken
  FactsKept
  LanesKept
  TimetablesServed
  PagesServed
  ScrapeAccounted
  SheetsReadBack
  PlansReadAlike
