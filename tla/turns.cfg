SPECIFICATION LiveSpec
CONSTANTS
  Chats = {main, settings}
  Settings = settings
  Messages = {m1}
  Projects = {p1}
  Briefs = {b1}
  Turns = {u1, u2}
  Nothing = Nothing
  MaxDeaths = 1
INVARIANTS RegistryExact AnsweredOnce
PROPERTIES MessageAnswered
