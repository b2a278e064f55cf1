SPECIFICATION BoxSpec
CONSTANTS
  Edge = 7
  Lives <- MCLives
  Foes = {3, 100, 380}
INVARIANTS BoxTypeOK ListsAgree HitsAreSeen TouchesAreFound BodyIsDrawn
