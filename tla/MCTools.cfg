CONSTANTS
  nF = nF
  nG = nG
  nD = nD
  pF = pF
  tA = tA
  v = v
  w = w
  x = x
  word = word
  byte = byte
  c1 = c1
  short = short
  long = long
  None = None
  Addrs = {0, 1, 2, 3}
  Texts = {nF, nG, nD, pF, tA}
  RawNames = {nF, nG, nD}
  Pretty = {pF}
  Demangle <- DemangleTable
  EaOf <- Eas
  Owner0 <- Owner
  Name0 <- Name
  MemberNames = {v, w, x}
  FrameSize = 3
  Frame0 <- Frames
  Fp = 1
  LocalNames = {v, w}
  Locals0 <- Locals
  Types = {byte, word}
  SizeOf <- TypeSizes
  Comments = {c1}
  InEamap <- Eamap
  Instructions = {short, long}
  InstrSize <- InstrSizes
  Requests <- Patches
  Entries = {0, 2}
  MaxSteps = 2
  Nothing = Nothing
  Values <- Vals
  Annotations <- Anns
  Signatures <- Sigs
  Nesting = 3
  IntOf <- Ints
  HalfOf <- Halves
  WordOf <- Words
  Numbers <- Nums
  Widths <- WidthSet
  Digits <- HexTexts
  MaxItems = 4
  Hosts <- HostSet
  PortTexts = {"0", "1", "080", "65535", "65536", "word"}
  Homes <- HomeSet
  NumberOf <- PortNumbers
  TextOf <- PortNames
  Dashed = {"-x"}
  Colons = {"::1", "::"}
  Relative = {"ida", "REPLACE"}
  Directories <- Installs
  DefaultHost = "127.0.0.1"
  DefaultPort = 13337
  Placeholder = "REPLACE"
  Unset = Nothing
SPECIFICATION MCSpec
INVARIANTS
  TypeOK
  ArgumentsExact

  
  
\* an input of Arguments is looked at, and that is all
CHECK_DEADLOCK FALSE
