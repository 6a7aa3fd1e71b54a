SPECIFICATION Spec
CONSTANTS
  Units = {"vfs", "fileio", "initrd", "syscall", "elf", "objects", "she", "resh"}
  Suite = "plain"
INVARIANTS FilesExact ProgramsKept RunsAsWritten SessionsSound
CHECK_DEADLOCK FALSE
