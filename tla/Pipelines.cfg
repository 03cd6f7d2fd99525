CONSTANTS
  read_proc = read_proc
  encrypt_proc = encrypt_proc
  write_proc = write_proc
  Tasks = {read_proc, encrypt_proc, write_proc}
  Frames = {f1, f2, f3, f4}
  Bytes <- FileAndCipher
  MAX_ENDPOINTS = 8
  BUFFER_SIZE = 3
  SIZES = {1}
  REUSE = TRUE
  PROGRAMS = {"krypt", "memkrypt"}
  PAGE_SIZE = 3
  BUFFER_PAGES = 2
  CIPHER_KEY_SIZE = 2
  FILE_SIZE = 10
  FAILS <- LateFailures
SPECIFICATION FairPipelineSpec
INVARIANTS SentIsEncrypted PageOfOne
PROPERTY PipelineEnds
CHECK_DEADLOCK FALSE
