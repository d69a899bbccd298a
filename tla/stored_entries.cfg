\* A manager that compresses and one that does not, on one directory; and any
\* two of the ways to write a key, which differ in one respect or mean the same.
CONSTANTS
  m1 = m1
  m2 = m2
  Caches = {m1, m2}
  Threshold <- Limits
  Off = Off
  Arguments <- Given
  KeyOf <- Digests
  Meaning <- Meanings
  NoPayload = NoPayload
  Contents <- Data
  RawSize <- Lengths
  ZipSize <- Zipped
  NoEncoding = {"odd"}
  Broken = {"junk"}
  Entries <- Stored
  MaxSets = 4
  TextOrder <- Tokens
  NonFinite = {"nan"}
  Unencodable = {"surrogate"}
  Written <- Keyed
SPECIFICATION TableSpec
INVARIANTS KeysTellMeaning SavingsAreReal
PROPERTY StoresEntries
