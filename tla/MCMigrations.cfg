\* Three files, the bot and two backups, three faults.
SPECIFICATION Spec
CONSTANTS
  bot = bot
  backup = backup
  backup2 = backup2
  Bot = bot
  Backups <- MCBackups
  Files <- MCFiles
  MaxFaults = 3
INVARIANTS
  MigrationsTypeOK
  WholeMigrations
  OpenMeansMigrated
PROPERTIES
  BackupsAreMigrated
  BotServes
