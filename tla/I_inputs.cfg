CONSTANTS
  Headers <- SmallHeaders
  Fallback = 1
  Callers <- SmallCallers
  Alphabet = 3
  OctetBase = 4
  IdSize = 2
  MaxChars = 3
  OctetBits = 4
  LongHeader = 2
  LongWritten = 2
  SizeBits = 4
  MaxBlob = 30
  MaxDepth = 7
  MaxSteps = 30
  MaxIntOctets = 2
  Blobs <- SmallBlobs
SPECIFICATION Spec
INVARIANTS NegotiationIsRight RefusedInOrder NamesMatchLaunchers
  PopsAreDefined WhatParsesHashes ReadsTheEncodedTree WritesBack HashesAgree
  ListsAreWhole IntegersSurvive
CHECK_DEADLOCK FALSE
