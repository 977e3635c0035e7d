SPECIFICATION Spec
CONSTANTS
  Elementary <- MCElementary
  Directories <- MCDirectories
  Names <- MCNames
  MaxLoads = 3
INVARIANTS LinkedIsConsistent CrashesExplained
PROPERTIES GoodFilesLink OneErrorIsFinal
\* A program that has crashed does nothing more.
CHECK_DEADLOCK FALSE
