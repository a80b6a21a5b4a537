SPECIFICATION FairSpec
CONSTANTS
    MaxOdd = 1
    MaxOutages = 0
PROPERTIES TypoIsCaught
